---------------------------- MODULE MCCallStack ----------------------------
(***************************************************************************)
(* Small stories for CallStack: one routine with two locals, one without   *)
(* any, and a site for each kind of result variable.                       *)
(***************************************************************************)
EXTENDS CallStack

MCRoutines == {1, 2}
MCNLocals == [r \in MCRoutines |-> IF r = 1 THEN 2 ELSE 0]
MCLocalInit == [r \in MCRoutines |-> [i \in 1 .. MCNLocals[r] |-> 3]]
MCEntry == [r \in MCRoutines |-> 4 * r]
\* Addresses 5, 10 and 15: with pages of four words their page numbers and
\* offsets all differ.
MCSites == {5, 10, 15}
\* A leaner story for the runs with undo, whose states hold two stacks.
OneRoutine == {1}
OneLocal == [r \in OneRoutine |-> 1]
OneInit == [r \in OneRoutine |-> <<3>>]
OneEntry == [r \in OneRoutine |-> 4]
TwoSites == {5, 15}
TwoResultVar == [s \in TwoSites |-> IF s = 5 THEN 0 ELSE 16]

MCResultVar == [s \in MCSites |-> CASE s = 5 -> 0 [] s = 10 -> 2 [] s = 15 -> 16]

\* Words below sp and the address between two instructions have no future:
\* every instruction chooses its site, and only UndoWords and calls write
\* below sp.
Live(stk, s) == [c \in s .. StackSize - 1 |-> stk[c]]
UndoView ==
    <<Live(stack, sp), sp, fp, datap, status,
      IF undo_valid THEN <<Live(undo_stack, undo_stack[0]), undo_datap>> ELSE <<>> >>
\* Only a catch and a throw read frame_count.
MCView == <<UndoView, frame_count, token, catcher, undo_token>>
=============================================================================
