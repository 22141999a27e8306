---------------------------- MODULE MCObjectTree ----------------------------
(***************************************************************************)
(* Four objects; the story file has two of them in the first.  Every       *)
(* other arrangement is reached by insertions and removals.                *)
(***************************************************************************)
EXTENDS ObjectTree

MCStoryKids == [o \in Objects |-> IF o = 1 THEN <<2, 3>> ELSE <<>>]
TwoAndZero == {0, 2}
\* The words where object 0 would be are no links.
Words == [parent |-> 1, next |-> 0, child |-> 3]

\* The bound on attributes: the second object only has any.
OneWithAttributes == \A o \in Objects \ {2} : attributes[o] = {}

\* What was stored last has no future.
MCView == <<links, attributes, status>>
=============================================================================
