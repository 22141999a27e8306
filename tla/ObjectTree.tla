----------------------------- MODULE ObjectTree -----------------------------
(***************************************************************************)
(* The object table of object.c: each object has the number of its parent, *)
(* of its next sibling and of its first child, 0 for none, and insert_obj  *)
(* and remove_obj rewire these links by hand.  Object 0 is nothing, but    *)
(* its address, in the default properties before the first object, can be  *)
(* read and written like any other: the records here have an index 0.      *)
(* STRICTZ is defined, so each operation reports an object 0 it is given;  *)
(* the report stops the program when strictz_report_mode says so.          *)
(***************************************************************************)
EXTENDS Integers, Sequences

CONSTANTS
    NumObjects,     \* the objects of the story are numbered from 1
    Attributes,     \* the attribute numbers the story uses
    StoryKids,      \* object -> its children in the story file, first one first
    Operands,       \* the object numbers the story passes
    Default,        \* the three default property words where object 0 would be
    ReportIsFatal   \* strictz_report_mode is STRICTZ_REPORT_FATAL

Objects == 1 .. NumObjects
Record == 0 .. NumObjects

\* Each object is in one place at most.
Listed(kids) ==
    \A p, q \in Objects : \A i \in 1 .. Len(kids[p]), j \in 1 .. Len(kids[q]) :
        kids[p][i] = kids[q][j] => p = q /\ i = j

ASSUME ObjectTreeAssumption ==
    /\ NumObjects \in Nat
    /\ StoryKids \in [Objects -> Seq(Objects)]
    /\ Listed(StoryKids)
    /\ Operands \subseteq Record
    /\ Default \in [parent : Record, next : Record, child : Record]
    /\ ReportIsFatal \in BOOLEAN

VARIABLES
    parent, next, child,   \* PARENT, NEXT and CHILD of read_object
    attributes,            \* object -> the attribute bits that are set
    result,                \* what was stored last and whether it jumped
    status                 \* "run", "fatal", or "lost" in a walk without end

links == <<parent, next, child>>
vars == <<links, attributes, result, status>>

-----------------------------------------------------------------------------
(* z_remove_obj *)

IsFirstChild(o) == child[parent[o]] = o

\* The siblings the loop of z_remove_obj looks at: it starts at the first
\* child of the parent and follows NEXT until that is o.
Closed(S, o) ==
    /\ child[parent[o]] \in S
    /\ \A x \in S : next[x] # o => next[x] \in S
Visited(o) == {x \in Record : \A S \in SUBSET Record : Closed(S, o) => x \in S}

\* The sibling the loop stops at; when there is none it has no end.
WalkEnds(o) == \E x \in Visited(o) : next[x] = o
Before(o) == CHOOSE x \in Visited(o) : next[x] = o

Removable(o) == parent[o] = 0 \/ IsFirstChild(o) \/ WalkEnds(o)

\* Mutant: the removed object keeps its next sibling.
NextRemoved_kept(o) ==
    IF parent[o] = 0 \/ IsFirstChild(o) THEN next
    ELSE [next EXCEPT ![Before(o)] = next[o]]

\* Mutant: an object without a parent is marked by -1.
ParentRemoved_minus(o) == [parent EXCEPT ![o] = IF @ = 0 THEN 0 ELSE -1]

\* The links after z_remove_obj(o): nothing is done for an object without a
\* parent.
ParentRemoved(o) == [parent EXCEPT ![o] = 0]
ChildRemoved(o) ==
    IF parent[o] # 0 /\ IsFirstChild(o)
    THEN [child EXCEPT ![parent[o]] = next[o]]
    ELSE child
NextRemoved(o) ==
    IF parent[o] = 0 THEN next
    ELSE IF IsFirstChild(o) THEN [next EXCEPT ![o] = 0]
    ELSE [next EXCEPT ![Before(o)] = next[o], ![o] = 0]

-----------------------------------------------------------------------------
(* The actions *)

\* Mutant: report_strictz_error never stops the program.
Stops_never(os) == 0 \in os /\ ReportIsFatal /\ status = "fatal"

\* report_strictz_error stops the program, or the operation goes on.
Stops(os) == 0 \in os /\ ReportIsFatal
Fatal == status' = "fatal" /\ UNCHANGED <<links, attributes, result>>
Lost == status' = "lost" /\ UNCHANGED <<links, attributes, result>>

\* A walk without end stops the program in the middle of the operation.
z_remove_obj(o) ==
    IF Stops({o}) THEN Fatal
    ELSE IF ~Removable(o) THEN Lost
    ELSE /\ parent' = ParentRemoved(o)
         /\ child' = ChildRemoved(o)
         /\ next' = NextRemoved(o)
         /\ UNCHANGED <<attributes, result, status>>

\* Mutant: the first child of p is read before o is removed.
z_insert_obj_early(o, p) ==
    IF Stops({o, p}) THEN Fatal
    ELSE IF ~Removable(o) THEN Lost
    ELSE /\ parent' = [ParentRemoved(o) EXCEPT ![o] = p]
         /\ child' = [ChildRemoved(o) EXCEPT ![p] = o]
         /\ next' = IF child[p] = 0 THEN NextRemoved(o)
                    ELSE [NextRemoved(o) EXCEPT ![o] = child[p]]
         /\ UNCHANGED <<attributes, result, status>>

\* Mutant: the two objects change places.
z_insert_obj_swapped(o, p) ==
    IF Stops({o, p}) THEN Fatal
    ELSE IF ~Removable(p) THEN Lost
    ELSE LET child2 == ChildRemoved(p)[o] IN
         /\ parent' = [ParentRemoved(p) EXCEPT ![p] = o]
         /\ child' = [ChildRemoved(p) EXCEPT ![o] = p]
         /\ next' = IF child2 = 0 THEN NextRemoved(p)
                    ELSE [NextRemoved(p) EXCEPT ![p] = child2]
         /\ UNCHANGED <<attributes, result, status>>

z_insert_obj(o, p) ==
    IF Stops({o, p}) THEN Fatal
    ELSE IF ~Removable(o) THEN Lost
    ELSE LET child2 == ChildRemoved(o)[p] IN
         /\ parent' = [ParentRemoved(o) EXCEPT ![o] = p]
         /\ child' = [ChildRemoved(o) EXCEPT ![p] = o]
         /\ next' = IF child2 = 0 THEN NextRemoved(o)
                    ELSE [NextRemoved(o) EXCEPT ![o] = child2]
         /\ UNCHANGED <<attributes, result, status>>

\* An operation that stores a value or jumps; nothing and no jump, or zero
\* and no jump, for object 0.
Gives(o, value, jumps) ==
    IF Stops({o}) THEN Fatal
    ELSE /\ result' = IF o = 0 THEN <<0, FALSE>> ELSE <<value, jumps>>
         /\ UNCHANGED <<links, attributes, status>>

z_get_parent(o)  == Gives(o, parent[o], FALSE)
z_get_child(o)   == Gives(o, child[o], child[o] # 0)
z_get_sibling(o) == Gives(o, next[o], next[o] # 0)
z_test_attr(o, a) == Gives(o, 0, a \in attributes[o])

\* For object 0 jin jumps if the second operand is 0, too.
z_jin(o, p) ==
    IF Stops({o}) THEN Fatal
    ELSE /\ result' = <<0, (IF o = 0 THEN 0 ELSE parent[o]) = p>>
         /\ UNCHANGED <<links, attributes, status>>

\* set_attr and clear_attr: nothing for object 0.
Attribute(o, s) ==
    IF Stops({o}) THEN Fatal
    ELSE /\ attributes' = IF o = 0 THEN attributes ELSE [attributes EXCEPT ![o] = s]
         /\ UNCHANGED <<links, result, status>>

z_set_attr(o, a)   == Attribute(o, attributes[o] \cup {a})
z_clear_attr(o, a) == Attribute(o, attributes[o] \ {a})

StoryHas(p, o) == \E i \in 1 .. Len(StoryKids[p]) : StoryKids[p][i] = o
StoryParent(o) ==
    IF \E p \in Objects : StoryHas(p, o)
    THEN CHOOSE p \in Objects : StoryHas(p, o)
    ELSE 0
StoryPlace(o) ==
    CHOOSE i \in 1 .. Len(StoryKids[StoryParent(o)]) : StoryKids[StoryParent(o)][i] = o
StoryNext(o) ==
    IF StoryParent(o) = 0 \/ StoryPlace(o) = Len(StoryKids[StoryParent(o)]) THEN 0
    ELSE StoryKids[StoryParent(o)][StoryPlace(o) + 1]

\* The story file's table is a legal one.
Init ==
    /\ parent = [o \in Record |-> IF o = 0 THEN Default.parent ELSE StoryParent(o)]
    /\ next = [o \in Record |-> IF o = 0 THEN Default.next ELSE StoryNext(o)]
    /\ child = [o \in Record |->
                  IF o = 0 THEN Default.child
                  ELSE IF Len(StoryKids[o]) = 0 THEN 0 ELSE StoryKids[o][1]]
    /\ attributes = [o \in Record |-> {}]
    /\ result = <<0, FALSE>>
    /\ status = "run"

Next ==
    /\ status = "run"
    /\ \E o \in Operands :
        \/ z_remove_obj(o)
        \/ z_get_parent(o)
        \/ z_get_child(o)
        \/ z_get_sibling(o)
        \/ \E p \in Operands : z_insert_obj(o, p) \/ z_jin(o, p)
        \/ \E a \in Attributes : z_set_attr(o, a) \/ z_clear_attr(o, a) \/ z_test_attr(o, a)

Spec == Init /\ [][Next]_vars

-----------------------------------------------------------------------------
(* Properties *)

\* Every variable has its type.
TypeOK ==
    /\ parent \in [Record -> Record]
    /\ next \in [Record -> Record]
    /\ child \in [Record -> Record]
    /\ attributes \in [Record -> SUBSET Attributes]
    /\ result \in Record \X BOOLEAN
    /\ status \in {"run", "fatal", "lost"}

\* The links par, nxt and chd represent the children kids.
Represents(par, nxt, chd, kids) ==
    /\ Listed(kids)
    /\ \A p \in Objects :
         /\ chd[p] = IF Len(kids[p]) = 0 THEN 0 ELSE kids[p][1]
         /\ \A i \in 1 .. Len(kids[p]) :
              /\ par[kids[p][i]] = p
              /\ nxt[kids[p][i]] = IF i = Len(kids[p]) THEN 0 ELSE kids[p][i + 1]
    /\ \A o \in Objects :
         /\ par[o] = 0 => nxt[o] = 0
         /\ par[o] # 0 => \E i \in 1 .. Len(kids[par[o]]) : kids[par[o]][i] = o

\* The links of all objects agree: a first child and a next sibling have the
\* parent they should, and an object with a parent is reached from exactly one
\* link, so that no insertion or removal has left an object half linked.
LinksAgree ==
    \A o \in Objects :
      /\ child[o] # 0 => parent[child[o]] = o
      /\ next[o] # 0 => parent[next[o]] = parent[o] /\ parent[o] # 0
      /\ parent[o] # 0 =>
           IF child[parent[o]] = o
           THEN \A x \in Objects : next[x] # o
           ELSE \E x \in Objects : next[x] = o /\ \A y \in Objects : next[y] = o => y = x

\* The loop of remove_obj, which tests for the object only and not for the end
\* of the chain, always finds the object.
WalksEnd == status # "lost"

Above(o) ==
    {x \in Objects : \A S \in SUBSET Objects :
        o \in S /\ (\A y \in S : parent[y] # 0 => parent[y] \in S) => x \in S}

\* No object is inside itself.
IsForest == \A o \in Objects : parent[o] # 0 => o \notin Above(parent[o])

\* As long as the story moves nothing into itself, no object gets inside itself.
StaysForest ==
    [][IsForest /\ ~(\E o, p \in Operands : o \in Above(p) /\ z_insert_obj(o, p))
         => IsForest']_vars

\* By k and object, the first k of the objects that follow it on a chain of links
\* nxt, itself first.
Chains(nxt) ==
    LET from[k \in Record] ==
          [c \in Record |-> IF k = 0 \/ c = 0 THEN <<>> ELSE <<c>> \o from[k - 1][nxt[c]]]
    IN from

\* The children of p, first one first, found by following the links.
KidsOf(nxt, chd, p) == Chains(nxt)[NumObjects][chd[p]]

\* Insertion, removal and inspection do what they should to whole families: an
\* inserted object is the first child and no other object moves.
Family == INSTANCE Forest WITH
    kids <- [p \in Objects |-> KidsOf(next, child, p)],
    attributes <- [o \in Objects |-> attributes[o]]
ImplementsForest == Family!Spec

\* "the opcode will call report_zstrict_error() and then continue in some safe
\* manner": an operation given object 0 changes no link and ends.
ObjectZeroIsSafe ==
    [][\A o \in Operands :
         (z_remove_obj(0) \/ z_insert_obj(0, o) \/ z_insert_obj(o, 0))
            => UNCHANGED links /\ status' # "lost"]_vars
=============================================================================
