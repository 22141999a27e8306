----------------------------- MODULE GameFiles ------------------------------
(***************************************************************************)
(* What fileio.c and control.c do to writeable memory as a whole, and to   *)
(* the two bytes of its header that are not the story's: the one with the  *)
(* scripting bit, and one that restart_interp sets.  save and restore go   *)
(* through the CMem chunk; undo, restart, auxiliary files and the          *)
(* transcript act on the same memory.  The stack is left to SaveGame.      *)
(***************************************************************************)
EXTENDS CMem

CONSTANTS
    H_FLAGS,          \* the byte whose lowest bit is the scripting bit
    H_SCREEN_COLUMNS, \* a byte restart_interp sets
    screen_cols,      \* what it sets it to
    StoryWrites,      \* the addresses and bytes the story writes
    ForeignChunks,    \* CMem chunks another interpreter may have written
    AuxTable,         \* the addresses of the table of the auxiliary file
    MaxScript,        \* characters followed in a transcript
    None

ASSUME GameFilesAssumption ==
    /\ H_FLAGS \in Address /\ H_SCREEN_COLUMNS \in Address /\ H_FLAGS # H_SCREEN_COLUMNS
    /\ AuxTable \subseteq Address
    /\ StoryWrites \subseteq Address \X Byte
    /\ ForeignChunks \subseteq Seq(Byte)
    /\ screen_cols \in Byte

VARIABLES
    datap,              \* writeable memory
    undo_datap,         \* the copy for undo, or None
    file,               \* the saved game: its chunk, the memory it was made from, and
                        \* whether this interpreter wrote it
    aux,                \* the auxiliary file, or None
    scripting,          \* the transcript is open
    script_file_valid,  \* it has a name
    script,             \* characters in it
    did,                \* what the last step was, the result, and whether it was read
    status

files == <<file, aux>>
transcript == <<scripting, script_file_valid, script>>
vars == <<datap, undo_datap, files, transcript, did, status>>

ScriptingBit(mem) == mem[H_FLAGS] % 2
\* Mutant: the bit is added where it may be set already.
WithBit_added(mem, bit) == [mem EXCEPT ![H_FLAGS] = IF bit = 1 THEN @ + 1 ELSE (@ \div 2) * 2]
WithBit(mem, bit) == [mem EXCEPT ![H_FLAGS] = (@ \div 2) * 2 + bit]

Did(what, result) == did' = [what |-> what, result |-> result]

-----------------------------------------------------------------------------
(* restart_interp sets the scripting bit when it was set before, and clears none *)

restart_interp(mem, scripting_flag) ==
    [(IF scripting_flag = 1 THEN WithBit(mem, 1) ELSE mem)
        EXCEPT ![H_SCREEN_COLUMNS] = screen_cols]

z_restart ==
    /\ datap' = restart_interp(StoryFile, ScriptingBit(datap))
    /\ Did("restart", 0)
    /\ UNCHANGED <<undo_datap, files, transcript, status>>

-----------------------------------------------------------------------------
(* save and restore *)

\* Mutant: the bit is not put back.
AfterSave_cleared(bit) == WithBit(datap, 0)
\* The bit is cleared while the file is written, and put back after it.
AfterSave(bit) == IF bit = 1 THEN WithBit(WithBit(datap, 0), 1) ELSE WithBit(datap, 0)

\* No name, or no file, or a failed write, which removes the file; or a saved game.
z_save ==
    /\ \/ Did("save", 0) /\ UNCHANGED <<datap, file>>
       \/ Did("save", 0) /\ datap' = AfterSave(ScriptingBit(datap)) /\ file' = None
       \/ LET saved == WithBit(datap, 0) IN
          /\ Did("save", 1)
          /\ datap' = AfterSave(ScriptingBit(datap))
          /\ file' = [chunk |-> Written(saved), memory |-> saved, own |-> TRUE]
    /\ UNCHANGED <<undo_datap, aux, transcript, status>>

\* The player has a file of another interpreter.  The bound: before the first save.
ForeignFile ==
    /\ file = None /\ undo_datap = None /\ aux = None
    /\ \E chunk \in ForeignChunks : file' = [chunk |-> chunk, memory |-> Meant(chunk), own |-> FALSE]
    /\ Did("foreign_file", 0)
    /\ UNCHANGED <<datap, undo_datap, aux, transcript, status>>

NotOpened == Did("restore", 0) /\ UNCHANGED <<datap, status>>

\* A chunk that is refused ends the program.
FileRead ==
    LET read == Read(file.chunk, WithBit(datap, 0)) IN
    /\ file # None
    /\ datap' = restart_interp(read.mem, ScriptingBit(datap))
    /\ Did("restore", IF read.bad THEN 0 ELSE 2)
    /\ status' = IF read.bad THEN "fatal" ELSE status

z_restore ==
    /\ NotOpened \/ FileRead
    /\ UNCHANGED <<undo_datap, files, transcript>>

-----------------------------------------------------------------------------
(* Undo copies all of the memory, the header as well *)

z_save_undo ==
    /\ undo_datap' = datap
    /\ Did("save_undo", 1)
    /\ UNCHANGED <<datap, files, transcript, status>>

z_restore_undo ==
    /\ IF undo_datap = None THEN Did("undo", 0) /\ UNCHANGED datap
       ELSE Did("undo", 2) /\ datap' = undo_datap
    /\ UNCHANGED <<undo_datap, files, transcript, status>>

-----------------------------------------------------------------------------
(* Auxiliary files: part of the memory.  status is 0 when the player refuses to *)
(* write over a file, and when it cannot be opened, and 0 gives the result 1.   *)

z_save_aux ==
    /\ \/ Did("save_aux", 1) /\ UNCHANGED aux
       \/ Did("save_aux", 0) /\ aux' = <<>>
       \/ Did("save_aux", 1) /\ aux' = [a \in AuxTable |-> datap[a]]
    /\ UNCHANGED <<datap, undo_datap, file, transcript, status>>

\* The name is given, always, and then nothing is loaded: the test is turned.
z_restore_aux ==
    /\ Did("restore_aux", 2)
    /\ UNCHANGED <<datap, undo_datap, files, transcript, status>>

-----------------------------------------------------------------------------
(* The transcript *)

\* Mutant: the name is not kept, and asked for again.
Opened_nameless(printed) ==
    /\ scripting' = TRUE /\ UNCHANGED script_file_valid
    /\ script' = (IF script_file_valid THEN script ELSE 0) + printed
\* A file that has a name is appended to, and a new one is written from its start.
Opened(printed) ==
    /\ scripting' = TRUE /\ script_file_valid' = TRUE
    /\ script' = (IF script_file_valid THEN script ELSE 0) + printed

\* The bit follows what became of the file, which is not opened when it has no
\* name, or cannot be.
BitFollows == datap' = WithBit(datap, IF scripting' THEN 1 ELSE 0)

open_script ==
    /\ IF scripting THEN UNCHANGED transcript ELSE Opened(0) \/ UNCHANGED transcript
    /\ BitFollows

close_script ==
    /\ scripting' = FALSE /\ UNCHANGED <<script_file_valid, script>>
    /\ BitFollows

z_output_stream(type) ==
    /\ \/ type = 2 /\ open_script
       \/ type = -2 /\ close_script
    /\ Did("stream", 0)
    /\ UNCHANGED <<undo_datap, files, status>>

\* The bit may have been set or cleared since the last character, by the story or
\* with the memory.
script_char ==
    LET bit == ScriptingBit(datap) = 1 IN
    /\ script < MaxScript
    /\ \/ bit /\ ~scripting /\ (Opened(1) \/ UNCHANGED transcript) /\ BitFollows
       \/ ~bit /\ scripting /\ close_script
       \/ bit /\ scripting /\ script' = script + 1
            /\ UNCHANGED <<datap, scripting, script_file_valid>>
       \/ ~bit /\ ~scripting /\ UNCHANGED <<datap, transcript>>
    /\ Did("print", 0)
    /\ UNCHANGED <<undo_datap, files, status>>

-----------------------------------------------------------------------------
\* The story writes in its memory, and in the header: older ones have their
\* transcript by the bit.
z_storeb ==
    /\ \E w \in StoryWrites : datap' = [datap EXCEPT ![w[1]] = w[2]]
    /\ Did("storeb", 0)
    /\ UNCHANGED <<undo_datap, files, transcript, status>>

Init ==
    /\ datap = restart_interp(StoryFile, 0)
    /\ undo_datap = None
    /\ file = None /\ aux = None
    /\ scripting = FALSE /\ script_file_valid = FALSE /\ script = 0
    /\ did = [what |-> "start", result |-> 0]
    /\ status = "run"

Next ==
    /\ status = "run"
    /\ \/ z_storeb
       \/ z_restart
       \/ z_save \/ z_restore \/ ForeignFile
       \/ z_save_undo \/ z_restore_undo
       \/ z_save_aux \/ z_restore_aux
       \/ \E type \in {2, -2} : z_output_stream(type)
       \/ script_char

Spec == Init /\ [][Next]_vars

-----------------------------------------------------------------------------
(* Properties *)

\* Memory is bytes, whatever chunk was read and whichever bits were set.
TypeOK ==
    /\ datap \in [Address -> Byte]
    /\ undo_datap = None \/ undo_datap \in [Address -> Byte]
    /\ file # None => file.chunk \in Seq(Byte)
    /\ status \in {"run", "fatal"}

\* A chunk is whole if it does not end in the middle of a run and gives no more
\* bytes than the memory has.
Whole(chunk) == ~CutShort(chunk) /\ Len(Differences(chunk)) <= h_restart_size

\* A restore gives back every byte the chunk stands for, whoever wrote it and
\* however its runs are cut, and refuses neither its own nor a whole one; of the header the byte of
\* the interpreter is this one's, and a transcript that was on stays on.
RestoreGivesSaved ==
    [][did'.what = "restore" /\ file # None =>
        /\ status' = "fatal" => ~file.own /\ ~Whole(file.chunk)
        /\ status' = "run" /\ did'.result = 2 =>
             /\ \A a \in Address \ {H_FLAGS, H_SCREEN_COLUMNS} : datap'[a] = file.memory[a]
             /\ datap'[H_SCREEN_COLUMNS] = screen_cols
             /\ datap'[H_FLAGS] \div 2 = file.memory[H_FLAGS] \div 2
             /\ (ScriptingBit(datap') = 1) =
                  (ScriptingBit(datap) = 1 \/ ScriptingBit(file.memory) = 1)]_vars

\* A saved game has no scripting bit, and saving it changes nothing in the memory,
\* whether it succeeds or not; a restart keeps the bit.
ScriptingBitKept ==
    [][/\ did'.what = "save" => datap' = datap
       /\ did'.what = "restart" => ScriptingBit(datap') = ScriptingBit(datap)
       /\ did'.what = "save" /\ did'.result = 1 => ScriptingBit(Meant(file'.chunk)) = 0]_vars

\* Whatever undo, restart, restore and the story itself do to the scripting bit,
\* the transcript goes on where it ended: nothing in it is written over.
TranscriptGoesOn == [][script' >= script]_vars

\* fileio.c:419, "0 = save failed, 1 = save succeeded": after a result that is not
\* 0 the file has the table, or the table what is in the file.
AuxResults ==
    [][/\ did'.what = "save_aux" /\ did'.result # 0 => aux' = [a \in AuxTable |-> datap[a]]
       /\ did'.what = "restore_aux" /\ did'.result # 0 =>
            aux # None /\ \A a \in DOMAIN aux : datap'[a] = aux[a]]_vars
=============================================================================
