-------------------------------- MODULE CMem --------------------------------
(***************************************************************************)
(* The CMem chunk of quetzal.c: writeable memory as its difference from    *)
(* the story file, with runs of equal bytes.  A run counts up to MaxRun    *)
(* bytes, which is 256 in the code.                                        *)
(***************************************************************************)
EXTENDS Integers, Sequences

CONSTANTS
    h_restart_size,   \* the size of writeable memory
    StoryFile,        \* its bytes in the story file
    MaxRun

Byte == 0 .. 255
Address == 0 .. h_restart_size - 1

ASSUME CMemAssumption ==
    /\ h_restart_size \in Nat \ {0}
    /\ StoryFile \in [Address -> Byte]
    /\ MaxRun \in 1 .. 256

\* Exclusive or of two, four and eight bits.
Xor2(a, b) == ((a + b) % 2) + 2 * (((a \div 2) + (b \div 2)) % 2)
Xor4(a, b) == Xor2(a % 4, b % 4) + 4 * Xor2(a \div 4, b \div 4)
Xor(a, b)  == Xor4(a % 16, b % 16) + 16 * Xor4(a \div 16, b \div 16)

-----------------------------------------------------------------------------
(* save_quetzal *)

\* Mutant: a run of exactly MaxRun bytes is begun again.
WrittenRun_full(run) ==
    LET pieces[j \in 0 .. run] ==
          IF j = 0 THEN <<>>
          ELSE IF j >= MaxRun THEN <<0, MaxRun - 1>> \o pieces[j - MaxRun]
          ELSE <<0, j>>
    IN pieces[run]
\* A run of j bytes has j - 1 behind its 0.
WrittenRun(run) ==
    LET pieces[j \in 0 .. run] ==
          IF j = 0 THEN <<>>
          ELSE IF j > MaxRun THEN <<0, MaxRun - 1>> \o pieces[j - MaxRun]
          ELSE <<0, j - 1>>
    IN pieces[run]

\* The loop over the memory; the run it ends in is not written.
Written(mem) ==
    LET after[i \in 0 .. h_restart_size] ==
          IF i = 0 THEN [run |-> 0, chunk |-> <<>>]
          ELSE LET s == after[i - 1]
                   c == Xor(StoryFile[i - 1], mem[i - 1])
               IN IF c = 0 THEN [s EXCEPT !.run = @ + 1]
                  ELSE [run |-> 0, chunk |-> Append(s.chunk \o WrittenRun(s.run), c)]
    IN after[h_restart_size].chunk

-----------------------------------------------------------------------------
(* restore_quetzal *)

\* What is read of a chunk: the place in the chunk, the number of bytes written,
\* and the memory.  A chunk is bad when it ends in the middle of a run or goes on
\* when the memory is full; its last run may be longer than the memory.
ReadingFrom(mem) == [at |-> 1, i |-> 0, mem |-> mem, bad |-> FALSE]

RunRead(s, run) ==
    LET end == IF s.i + run + 1 < h_restart_size THEN s.i + run + 1 ELSE h_restart_size
    IN [s EXCEPT !.at = @ + 2, !.i = end,
                 !.mem = [a \in Address |-> IF a \in s.i .. end - 1 THEN StoryFile[a] ELSE @[a]]]

NextRead(chunk, s) ==
    LET x == chunk[s.at] IN
    IF s.bad \/ s.at > Len(chunk) THEN s
    ELSE IF x = 0
    THEN IF s.at = Len(chunk) THEN [s EXCEPT !.bad = TRUE] ELSE RunRead(s, chunk[s.at + 1])
    ELSE IF s.i = h_restart_size THEN [s EXCEPT !.bad = TRUE]
    ELSE [s EXCEPT !.at = @ + 1, !.i = @ + 1, !.mem[s.i] = Xor(x, StoryFile[s.i])]

\* A chunk that is short ends in a run.
Read(chunk, mem) ==
    LET after[k \in 0 .. Len(chunk)] ==
          IF k = 0 THEN ReadingFrom(mem) ELSE NextRead(chunk, after[k - 1])
        last == after[Len(chunk)]
    IN [bad |-> last.bad,
        mem |-> [a \in Address |-> IF a >= last.i THEN StoryFile[a] ELSE last.mem[a]]]

-----------------------------------------------------------------------------
(* What a chunk stands for: the differences in their order, and none behind them *)

Differences(chunk) ==
    LET from[p \in 1 .. Len(chunk) + 2] ==
          IF p > Len(chunk) THEN <<>>
          ELSE IF chunk[p] # 0 THEN <<chunk[p]>> \o from[p + 1]
          ELSE IF p = Len(chunk) THEN <<0>>
          ELSE [i \in 1 .. chunk[p + 1] + 1 |-> 0] \o from[p + 2]
    IN from[1]

\* The last run or byte ends behind the chunk.
CutShort(chunk) ==
    LET end[p \in 1 .. Len(chunk) + 2] ==
          IF p > Len(chunk) THEN p ELSE end[IF chunk[p] # 0 THEN p + 1 ELSE p + 2]
    IN end[1] > Len(chunk) + 1

Meant(chunk) ==
    LET d == Differences(chunk)
    IN [a \in Address |-> IF a < Len(d) THEN Xor(d[a + 1], StoryFile[a]) ELSE StoryFile[a]]
=============================================================================
