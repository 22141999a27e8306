----------------------------- MODULE SavedGames -----------------------------
(***************************************************************************)
(* What save and restore promise a story: a saved game holds the frames,   *)
(* the global variables and the place of the save instruction, and a       *)
(* restore that succeeds gives all of them back at once.  A save or        *)
(* restore that fails changes nothing but its result; a save may lose the  *)
(* older game, and a restore may end the program.                          *)
(***************************************************************************)
EXTENDS FrameStack

VARIABLE saved   \* the game in the save file: at most one

game_vars == <<vars, saved>>

GameInit == Init /\ saved = {}

Save(at) ==
    /\ Compute(at, 1)
    /\ saved' = {[frames |-> frames, globals |-> globals, token |-> token, pc |-> at]}

SaveFails(at) ==
    /\ Compute(at, 0)
    /\ saved' \in {saved, {}}

Restore ==
    /\ running
    /\ \E game \in saved : /\ Result(game.frames, game.globals, game.pc, 2)
                           /\ token' = game.token
    /\ UNCHANGED <<undo, running, saved>>

GameNext ==
    \/ Next /\ UNCHANGED saved
    \/ \E at \in Sites : Save(at) \/ SaveFails(at)
    \/ Restore

GameSpec == GameInit /\ [][GameNext]_game_vars
=============================================================================
