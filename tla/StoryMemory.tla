---------------------------- MODULE StoryMemory ----------------------------
(***************************************************************************)
(* What memory.c promises the rest of the interpreter: an instruction      *)
(* stream that is the story file, and a data space whose first DataSize    *)
(* bytes are writeable memory and whose rest is the story file.  No page   *)
(* and no cache is visible.                                                *)
(***************************************************************************)
EXTENDS Integers

CONSTANTS
    FileSize,   \* h_file_size * story_scaler: the bytes of the story file
    DataSize,   \* data_size: the bytes kept in writeable memory
    StoryFile,  \* address -> byte
    Byte,
    NewByte,    \* the bytes a story writes into its data area
    StartPC

VARIABLES
    pc,     \* where the next instruction byte is read
    datap,  \* the writeable memory
    got     \* the last byte a read returned

vars == <<pc, datap, got>>

Init ==
    /\ pc = StartPC
    /\ datap = [a \in 0 .. DataSize - 1 |-> StoryFile[a]]
    /\ got = StoryFile[0]

ReadCode ==
    /\ pc < FileSize
    /\ got' = StoryFile[pc]
    /\ pc' = pc + 1
    /\ UNCHANGED datap

ReadData(addr) ==
    /\ got' = IF addr < DataSize THEN datap[addr] ELSE StoryFile[addr]
    /\ UNCHANGED <<pc, datap>>

Write(addr, b) ==
    /\ datap' = [datap EXCEPT ![addr] = b]
    /\ UNCHANGED <<pc, got>>

Jump(addr) ==
    /\ pc' = addr
    /\ UNCHANGED <<datap, got>>

Next ==
    \/ ReadCode
    \/ \E addr \in 0 .. FileSize - 1 : ReadData(addr) \/ Jump(addr)
    \/ \E addr \in 0 .. DataSize - 1, b \in NewByte : Write(addr, b)

Spec == Init /\ [][Next]_vars
=============================================================================
