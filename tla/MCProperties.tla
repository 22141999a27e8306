---------------------------- MODULE MCProperties ----------------------------
(***************************************************************************)
(* Two objects with two properties each, of one, two, three and the most   *)
(* bytes a version has (8 or 64), compiled to the form of V3 and of V5,    *)
(* and behind them a table of four bytes at the end of the data area, and  *)
(* two bytes of the story file.                                            *)
(***************************************************************************)
EXTENDS Properties, TLC

Most(v) == IF v = 3 THEN 8 ELSE 64
MCSize == (3 :> <<5 :> 3 @@ 2 :> 1, 5 :> 2 @@ 1 :> Most(3)>>) @@
          (5 :> <<5 :> 3 @@ 2 :> 1, 5 :> 2 @@ 1 :> Most(5)>>)

SizeBytes(v, p, n) ==
    IF v = 3 THEN <<(n - 1) * 32 + p>>
    ELSE IF n <= 2 THEN <<(n - 1) * 64 + p>>
    ELSE <<128 + p, 128 + (n % 64)>>

\* The bytes of property p are p, the first 0.
Entry(v, o, p) ==
    SizeBytes(v, p, MCSize[v][o][p]) \o [i \in 1 .. MCSize[v][o][p] |-> IF i = 1 THEN 0 ELSE p]

\* The first object has a name of one word, and the second none.
Table1(v) == <<1, 9, 9>> \o Entry(v, 1, 5) \o Entry(v, 1, 2) \o <<0>>
Table2(v) == <<0>> \o Entry(v, 2, 5) \o Entry(v, 2, 1) \o <<0>>

\* Five default properties, the addresses of the two tables, and the tables.
Offset == 2
Pointer == <<12, 14>>
MCDefault == <<101, 102, 103, 104, 105>>
At1 == 16
At2(v) == At1 + Len(Table1(v))
Header(v) == <<0, 0, 0, 101, 0, 102, 0, 103, 0, 104, 0, 105, 0, At1, 0, At2(v)>>
Compiled(v) == Header(v) \o Table1(v) \o Table2(v)

Free == Len(Compiled(5))       \* where the table begins
Size == Free + 4
Filled(v) == Compiled(v) \o [i \in 1 .. Free - Len(Compiled(v)) |-> 0] \o <<1, 2, 3, 4>>
Filled3 == Filled(3)
Filled5 == Filled(5)
MCStory == [v \in {3, 5} |->
    [a \in 0 .. Size - 1 |-> IF v = 3 THEN Filled3[a + 1] ELSE Filled5[a + 1]]]
MCStatic == (Size :> 1) @@ (Size + 1 :> 2)

Second3 == At2(3)
Second5 == At2(5)
Last3 == Len(Compiled(3)) - 1
Last5 == Len(Compiled(5)) - 1
MCPlace ==
    (3 :> <<5 :> At1 + 4 @@ 2 :> At1 + 8, 5 :> Second3 + 2 @@ 1 :> Last3 - 8>>) @@
    (5 :> <<5 :> At1 + 5 @@ 2 :> At1 + 9, 5 :> Second5 + 2 @@ 1 :> Last5 - 64>>)

MCPlaces == Free .. Size + 1
MCCounts == -3 .. 3
MCWords == {0, 1, 2, 3, 7, 255, 256, 32767, 32768, 32769, 65533, 65534, 65535}
MCShifts == {-15, -8, -1, 0, 1, 7, 15}

\* The bound: the table changes or the properties of one object do.
Second == IF h_type = 3 THEN Second3 ELSE Second5
Part == <<0 .. Second - 1, Second .. Free - 1, Free .. Size - 1>>
OneAtATime ==
    \E i \in 1 .. 3 : \A j \in 1 .. 3 \ {i} : \A a \in Part[j] : datap[a] = Story[h_type][a]

\* What was stored last has no future.
MCView == <<h_type, datap, status>>
=============================================================================
