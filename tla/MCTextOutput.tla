---------------------------- MODULE MCTextOutput ----------------------------
(***************************************************************************)
(* Lines of three columns and two letters; three tables of two characters.   *)
(***************************************************************************)
EXTENDS TextOutput

ThreeTables == {1, 5, 9}

\* The bounds: text printed after two flushes in one line; two characters in
\* all tables, and with these a letter at most in the buffer.
Contents(t) == [i \in 1 .. memory[t] |-> memory[t + 1 + i]]
InTables ==
    Len(FlattenSeq([i \in 1 .. redirect_depth |-> Tabled(i).text]))
    + MapThenSumSet(LAMBDA t : memory[t], Tables \ OpenTables)
Bounds ==
    /\ char_count >= -1
    /\ InTables <= 2
    /\ redirect_depth > 0 \/ InTables > 0 => Len(line) <= 1 /\ char_count >= 2

\* What was sent by the last step has no future, nor have the cells behind the
\* text of a table or the stash above the tables selected.
MCView ==
    <<buffer, modes, midline, [i \in 1 .. redirect_depth |-> Tabled(i)],
      [t \in Tables \ OpenTables |-> Contents(t)]>>
=============================================================================
