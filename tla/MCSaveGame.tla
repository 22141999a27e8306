----------------------------- MODULE MCSaveGame -----------------------------
(***************************************************************************)
(* A small story, and files with the chunks in the order of jzip, in other *)
(* orders, repeated, bad, missing and from another story.                  *)
(***************************************************************************)
EXTENDS SaveGame

OneRoutine == {1}
OneLocal == [r \in OneRoutine |-> 1]
OneInit == [r \in OneRoutine |-> <<3>>]
OneEntry == [r \in OneRoutine |-> 4]
\* Pages of four words: the offsets differ, and both differ from the page number.
TwoSites == {6, 7}
TwoResultVar == [s \in TwoSites |-> IF s = 6 THEN 0 ELSE 16]

MCLayouts ==
    {<<"IFhd", "CMem", "Stks">>,
     <<"IFhd", "UMem", "Stks">>,
     <<"Stks", "CMem", "ANNO", "IFhd">>,
     <<"IFhd", "Stks", "long CMem", "UMem">>,
     <<"IFhd", "bad UMem", "CMem", "UMem", "cut CMem", "Stks">>,
     <<"IFhd", "CMem", "Stks", "Stks">>,
     <<"IFhd", "Stks", "Stks", "CMem">>,
     <<"IFhd", "Stks", "cut CMem", "UMem">>,
     <<"IFhd", "Stks", "cut CMem">>,
     <<"IFhd", "CMem", "IFhd", "Stks">>,
     <<"CMem", "Stks", "foreign IFhd">>,
     <<"IFhd", "long CMem", "Stks">>,
     <<"IFhd", "CMem">>,
     <<"CMem", "Stks">>}

\* Words below sp have no future.
Live(stk, s) == [c \in s .. StackSize - 1 |-> stk[c]]

\* The bounds: games are saved at the second place only, one at a time, in the
\* file or for undo; after that the story goes on in its main routine, with
\* nothing on the stack.
OneGame ==
    /\ \A c \in file : c.pc = 6 /\ ~undo_valid
    /\ undo_valid => undo_stack[undo_stack[0] + 2] = 2
    /\ file # {} \/ undo_valid => sp = StackSize \/ pc = 7

GameView ==
    <<Live(stack, sp), sp, fp, datap, status, token, catcher, file,
      IF undo_valid THEN <<Live(undo_stack, undo_stack[0]), undo_datap>> ELSE <<>>,
      IF file # {} \/ undo_valid THEN pc ELSE 0>>
=============================================================================
