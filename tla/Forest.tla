------------------------------- MODULE Forest -------------------------------
(***************************************************************************)
(* What object.c promises a story: every object has a sequence of          *)
(* children and a set of attributes.  An inserted object becomes the first *)
(* child; the other children of both parents keep their order.  No link    *)
(* and no walk along a chain is visible.                                   *)
(***************************************************************************)
EXTENDS Integers, Sequences

CONSTANTS
    NumObjects,  \* the objects of the story are numbered from 1
    Attributes,  \* the attribute numbers the story uses
    StoryKids    \* object -> its children in the story file, first one first

Objects == 1 .. NumObjects

VARIABLES
    kids,        \* object -> the sequence of its children
    attributes,  \* object -> the attributes it has
    result       \* what the last operation stored and whether it jumped

vars == <<kids, attributes, result>>

\* The sequence s without o, which is in it once at most.
Without(s, o) ==
    LET i == CHOOSE j \in DOMAIN s : s[j] = o
    IN IF \E j \in DOMAIN s : s[j] = o
       THEN SubSeq(s, 1, i - 1) \o SubSeq(s, i + 1, Len(s))
       ELSE s
Unlisted(o) == [p \in Objects |-> Without(kids[p], o)]

ParentOf(o) ==
    IF \E p \in Objects : \E i \in DOMAIN kids[p] : kids[p][i] = o
    THEN CHOOSE p \in Objects : \E i \in DOMAIN kids[p] : kids[p][i] = o
    ELSE 0

FirstOf(s) == IF s = <<>> THEN 0 ELSE Head(s)

SiblingOf(o) ==
    IF ParentOf(o) = 0 THEN 0
    ELSE LET s == kids[ParentOf(o)]
             i == CHOOSE j \in DOMAIN s : s[j] = o
         IN FirstOf(SubSeq(s, i + 1, Len(s)))

Gives(value, jumps) ==
    /\ result' = <<value, jumps>>
    /\ UNCHANGED <<kids, attributes>>

Init ==
    /\ kids = StoryKids
    /\ attributes = [o \in Objects |-> {}]
    /\ result = <<0, FALSE>>

Insert(o, p) ==
    /\ kids' = [Unlisted(o) EXCEPT ![p] = <<o>> \o @]
    /\ UNCHANGED <<attributes, result>>

Remove(o) ==
    /\ kids' = Unlisted(o)
    /\ UNCHANGED <<attributes, result>>

SetAttributes(o, s) ==
    /\ attributes' = [attributes EXCEPT ![o] = s]
    /\ UNCHANGED <<kids, result>>

Next ==
    \E o \in Objects :
        \/ Remove(o)
        \/ Gives(ParentOf(o), FALSE)
        \/ Gives(FirstOf(kids[o]), kids[o] # <<>>)
        \/ Gives(SiblingOf(o), SiblingOf(o) # 0)
        \/ \E p \in Objects : Insert(o, p)
        \/ \E p \in Objects \cup {0} : Gives(0, ParentOf(o) = p)
        \/ \E a \in Attributes :
             \/ SetAttributes(o, attributes[o] \cup {a})
             \/ SetAttributes(o, attributes[o] \ {a})
             \/ Gives(0, a \in attributes[o])

Spec == Init /\ [][Next]_vars
=============================================================================
