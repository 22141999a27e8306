------------------------------- MODULE Story -------------------------------
(***************************************************************************)
(* The story file as the call machinery of the interpreter sees it: which  *)
(* routines can be called, how many locals each has, and where a result    *)
(* goes.  A story is a legal one: it pops only what it pushed and names    *)
(* only locals its routine has.  The interpreter checks none of that.      *)
(***************************************************************************)
EXTENDS Integers, Sequences

CONSTANTS
    Version,      \* h_type: the version byte of the story header
    Routines,     \* packed addresses of the routines (never 0)
    NLocals,      \* routine -> its first code byte, the number of locals
    LocalInit,    \* routine -> the words after that byte (V1 to V4)
    Entry,        \* routine -> address of its first instruction
    Sites,        \* addresses the program counter has after the operands
    ResultVar,    \* site -> the store byte there: the variable number
    Globals,      \* numbers (16 and up) of the global variables in use
    Values,       \* the words the story computes with
    StartPC,      \* h_start_pc
    MaxArgs,      \* the most arguments a call has: 3, 7 for call_vs2
    WordSize      \* the size of zword_t: 2^16 in the program

Word == 0 .. WordSize - 1

\* Variable numbers 1 to 15 are the locals, 0 is the evaluation stack.
LocalNumbers == 1 .. 15
Variables == {0} \cup LocalNumbers \cup Globals

ASSUME StoryAssumption ==
    /\ Version \in 1 .. 8
    /\ WordSize \in Nat \ {0}
    /\ Routines \subseteq Nat \ {0}
    /\ NLocals \in [Routines -> 0 .. 15]
    /\ \A r \in Routines : LocalInit[r] \in [1 .. NLocals[r] -> Word]
    /\ Entry \in [Routines -> Nat]
    /\ Sites \subseteq Nat
    /\ ResultVar \in [Sites -> 0 .. 255]
    /\ Globals \subseteq 16 .. 255
    /\ \A s \in Sites : ResultVar[s] \in {0} \cup LocalNumbers \cup Globals
    /\ Values \subseteq Word
    /\ {0, 1, 2} \subseteq Word
    /\ StartPC \in Nat
    /\ MaxArgs \in 0 .. 7

\* The two kinds of call a V1 to V8 story makes itself.
FUNCTION  == 0
PROCEDURE == 1
CallTypes == {FUNCTION, PROCEDURE}

\* TRUE and FALSE as the words store_operand writes.
FALSE_WORD == 0
MINUS_ONE  == WordSize - 1

\* What local i of routine r starts as when no argument is given for it.
LocalDefault(r, i) == IF Version > 4 THEN 0 ELSE LocalInit[r][i]

\* get_word and set_word on the global variable table: datap is the table.
SetGlobal(gs, n, v) == IF n \in DOMAIN gs THEN [gs EXCEPT ![n] = v] ELSE gs
=============================================================================
