---------------------------- MODULE MCGameFiles -----------------------------
(***************************************************************************)
(* Six bytes: the flags in front, all set but the scripting bit, the       *)
(* screen's width at the end, and four of the story between them, which it *)
(* changes and changes back.  Runs are cut at two bytes, so that there are *)
(* shorter, full, and longer ones.                                         *)
(***************************************************************************)
EXTENDS GameFiles

MCStoryFile == [a \in 0 .. 5 |-> CASE a = 0 -> 254 [] a = 4 -> 2 [] OTHER -> 0]
Width == 1
Other == [a \in 1 .. 4 |-> IF a = 4 THEN 1 ELSE 3]
MCWrites ==
    {<<a, MCStoryFile[a]>> : a \in 1 .. 4} \cup {<<a, Other[a]>> : a \in 1 .. 4}
      \cup {<<0, 254>>, <<0, 255>>}
MCTable == {1, 2}

\* Whole ones, with runs that end before, at and behind the end of the memory, and
\* some that are cut or too long.
MCChunks == UNION {[1 .. n -> {0, 1, 3}] : n \in 0 .. 4}
             \cup {<<0, 3, 0, 1>>, <<0, 3, 0, 1, 1>>, <<1, 1, 1, 1, 1, 1>>, <<1, 1, 1, 1, 1, 1, 1>>}

\* The bounds: the memory of an undo is the story's but for the flags and one
\* byte, and what a foreign file gave has been changed back.
Bounded ==
    /\ undo_datap # None => \A a \in 2 .. 4 : undo_datap[a] = MCStoryFile[a]
    /\ \A a \in 1 .. 4 : datap[a] \in {MCStoryFile[a], Other[a]}

MCView == <<datap, undo_datap, file, scripting, script_file_valid, script, aux = None, status>>
=============================================================================
