---------------------------- MODULE MCPageCache ----------------------------
(***************************************************************************)
(* A story of five pages of two bytes, the last one partial, each byte      *)
(* different, so that a byte of a wrong page is a wrong byte.              *)
(***************************************************************************)
EXTENDS PageCache

MCFileSize == 9
MCStoryFile == [a \in 0 .. MCFileSize - 1 |-> a]
MCByte == 0 .. MCFileSize - 1

\* The byte read last has no future.
MCView == <<cache_vars, code_tlb, data_tlb, pc, datap>>
=============================================================================
