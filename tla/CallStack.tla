----------------------------- MODULE CallStack -----------------------------
(***************************************************************************)
(* The call machinery of control.c, operand.c and variable.c, and the undo *)
(* part of fileio.c, over the one array of words the program keeps.  The   *)
(* stack grows down from STACK_SIZE.  A call pushes the page and offset of *)
(* the program counter, the frame pointer and a word that packs the call   *)
(* type, the number of locals and the number of arguments; fp is the index *)
(* of the first local, just below these four words:                        *)
(*                                                                         *)
(*    fp + 4  pc / PAGE_SIZE       fp      local 1                         *)
(*    fp + 3  pc % PAGE_SIZE       fp - 1  local 2 ...                     *)
(*    fp + 2  fp of the caller     ...     evaluation stack, down to sp    *)
(*    fp + 1  type, vars, args                                             *)
(*                                                                         *)
(* The decoder is abstracted: before each instruction pc is at any of the  *)
(* Sites.  ASYNC calls are left out: only a timed input that returns -1    *)
(* makes one, and unixio.c never does.                                     *)
(***************************************************************************)
EXTENDS Story

CONSTANTS
    StackSize,      \* STACK_SIZE
    PageSize,       \* PAGE_SIZE
    UndoAvailable,  \* load_cache could allocate undo_datap
    Opcodes,        \* the instructions the story contains
    Release,        \* h_version: the release number of the story
    Reserve,        \* bound: the words of stack a story leaves free
    MaxEval,        \* bound: the words of evaluation stack in one frame
    Counts,         \* bound: the words inc and dec go from and to
    BranchReturns,  \* bound: the values, 0 or 1, that branches return
    None

AllOpcodes == {"call", "call_zero", "ret", "throw", "catch", "load", "store",
               "push", "pull", "pop", "inc", "inc_chk", "branch", "ret_popped",
               "save_undo", "restore_undo", "restart", "quit"}

ASSUME CallStackAssumption ==
    /\ StackSize \in Nat /\ StackSize > 8 /\ StackSize < WordSize
    /\ PageSize \in 1 .. WordSize
    /\ WordSize >= 8192                            \* the packed header fits
    /\ \A s \in Sites : s \div PageSize \in Word    \* and so does a page number
    /\ UndoAvailable \in BOOLEAN
    /\ Opcodes \subseteq AllOpcodes
    /\ Release \in Word \ {0}
    /\ Reserve \in Nat \ {0}
    /\ MaxEval \in Nat
    /\ Counts \subseteq Word
    /\ BranchReturns \subseteq {0, 1}
    /\ None \notin Nat

VARIABLES
    stack,        \* stack[STACK_SIZE]
    sp,           \* index of the top of the stack, StackSize when empty
    fp,           \* index of the current frame
    frame_count,  \* zword_t frame_count
    pc,           \* the program counter
    datap,        \* the writeable data area: the global variables
    undo_valid,   \* undo_valid
    undo_stack,   \* undo_stack
    undo_datap,   \* undo_datap
    status,       \* "run", "quit", "fatal" or "undefined"
    token,        \* the last catch result the story may still throw to
    catcher,      \* the frame that executed that catch
    undo_token    \* token and catcher as the undone story had them

machine == <<stack, sp, fp, frame_count, pc, datap>>
undo == <<undo_valid, undo_stack, undo_datap, undo_token>>
ghosts == <<token, catcher>>
vars == <<machine, undo, ghosts, status>>

Cell == 0 .. StackSize - 1
BaseFrame == StackSize - 1

\* The word at fp + 1: ( argc - 1 ) | type | ( args << VAR_SHIFT ).
Header(type, vars_, args) == type * 4096 + vars_ * 256 + args
ArgsOf(w) == w % 256
VarsOf(w) == (w \div 256) % 16
TypeOf(w) == w \div 4096

VarsOfFrame(stk, f) == IF f = BaseFrame THEN 0 ELSE VarsOf(stk[f + 1])

\* The words of evaluation stack the current frame has.
EvalSize(stk, f, s) == f + 1 - VarsOfFrame(stk, f) - s

LegalVar(stk, f, s, n) ==
    CASE n = 0              -> EvalSize(stk, f, s) > 0
      [] n \in LocalNumbers -> n <= VarsOfFrame(stk, f)
      [] OTHER              -> n \in Globals

Room(k) == sp - k >= Reserve
RoomToPush == Room(1) /\ EvalSize(stack, fp, sp) < MaxEval

TakesResult(at) ==
    IF ResultVar[at] = 0 THEN RoomToPush
                         ELSE LegalVar(stack, fp, sp, ResultVar[at])

-----------------------------------------------------------------------------
(* operand.c *)

load_variable(n) ==
    CASE n = 0              -> stack[sp]
      [] n \in LocalNumbers -> stack[fp - (n - 1)]
      [] OTHER              -> datap[n]

\* Mutant: locals counted from fp + 1.
z_store_high(stk, s, f, n, v) ==
    CASE n = 0              -> [stk EXCEPT ![s] = v]
      [] n \in LocalNumbers -> [stk EXCEPT ![f - (n - 2)] = v]
      [] OTHER              -> stk

\* z_store on the stack stk with pointers s and f; datap is SetGlobal's part.
z_store(stk, s, f, n, v) ==
    CASE n = 0              -> [stk EXCEPT ![s] = v]
      [] n \in LocalNumbers -> [stk EXCEPT ![f - (n - 1)] = v]
      [] OTHER              -> stk

\* store_operand: reads the store byte at address at, leaves pc behind it.
store_operand(stk, s, f, data, at, v) ==
    LET n == ResultVar[at] IN
    /\ IF n = 0
       THEN stack' = [stk EXCEPT ![s - 1] = v] /\ sp' = s - 1
       ELSE stack' = z_store(stk, s, f, n, v) /\ sp' = s
    /\ datap' = SetGlobal(data, n, v)
    /\ pc' = at + 1

-----------------------------------------------------------------------------
(* The actions *)

Executes(opcode) == status = "run" /\ opcode \in Opcodes

\* z_restart and the startup in main: the undo buffer is left alone.
StartState ==
    /\ pc = StartPC
    /\ sp = StackSize
    /\ fp = BaseFrame
    /\ frame_count = 0
    /\ datap = [g \in Globals |-> 0]

Init ==
    /\ stack = [c \in Cell |-> 0]
    /\ StartState
    /\ undo_valid = FALSE
    /\ undo_stack = <<>>
    /\ undo_datap = <<>>
    /\ undo_token = <<None, None>>
    /\ token = None
    /\ catcher = None
    /\ status = "run"

z_restart ==
    /\ Executes("restart")
    /\ pc' = StartPC
    /\ sp' = StackSize
    /\ fp' = BaseFrame
    /\ frame_count' = 0
    /\ datap' = [g \in Globals |-> 0]
    /\ token' = None
    /\ catcher' = None
    /\ UNCHANGED <<stack, undo, status>>

z_load(at, n) ==
    /\ Executes("load")
    /\ TakesResult(at)
    /\ LegalVar(stack, fp, sp, n)
    /\ store_operand(stack, sp, fp, datap, at, load_variable(n))
    /\ UNCHANGED <<fp, frame_count, undo, ghosts, status>>

\* A call to routine 0 gives FALSE; as a procedure it does nothing.
call_zero(at) ==
    /\ Executes("call_zero")
    /\ TakesResult(at)
    /\ store_operand(stack, sp, fp, datap, at, FALSE_WORD)
    /\ UNCHANGED <<fp, frame_count, undo, ghosts, status>>

\* Mutant: ( argc-- > 0 ) lets one local too few take its argument.
CallStackWords_late(at, r, args, type) ==
    [c \in Cell |->
        CASE c = sp - 1 -> at \div PageSize
          [] c = sp - 2 -> at % PageSize
          [] c = sp - 3 -> fp
          [] c = sp - 4 -> Header(type, NLocals[r], Len(args))
          [] c < sp - 4 /\ c >= sp - 4 - NLocals[r] ->
               LET i == sp - 4 - c IN
               IF i < Len(args) THEN args[i] ELSE LocalDefault(r, i)
          [] OTHER -> stack[c]]

\* The stack a call leaves: the four words of the frame, then the locals.
CallStackWords(at, r, args, type) ==
    [c \in Cell |->
        CASE c = sp - 1 -> at \div PageSize
          [] c = sp - 2 -> at % PageSize
          [] c = sp - 3 -> fp
          [] c = sp - 4 -> Header(type, NLocals[r], Len(args))
          [] c < sp - 4 /\ c >= sp - 4 - NLocals[r] ->
               LET i == sp - 4 - c IN
               IF i <= Len(args) THEN args[i] ELSE LocalDefault(r, i)
          [] OTHER -> stack[c]]

z_call(at, r, args, type) ==
    /\ Executes("call")
    /\ Room(4 + NLocals[r])
    /\ type = FUNCTION => TakesResult(at)
    /\ stack' = CallStackWords(at, r, args, type)
    /\ fp' = sp - 5
    /\ sp' = sp - 4 - NLocals[r]
    /\ frame_count' = (frame_count + 1) % WordSize
    /\ pc' = Entry[r]
    /\ UNCHANGED <<datap, undo, ghosts, status>>

\* Mutant: the frame is not counted off.
z_ret_uncounted(stk, data, f, count, v) ==
    LET header  == stk[f + 1]
        caller  == stk[f + 2]
        back    == stk[f + 3] + stk[f + 4] * PageSize
    IN  /\ IF TypeOf(header) = FUNCTION
           THEN store_operand(stk, f + 5, caller, data, back, v)
           ELSE /\ sp' = f + 5
                /\ pc' = back
                /\ stack' = stk
                /\ datap' = data
        /\ fp' = caller
        /\ frame_count' = count
        /\ IF catcher # None /\ catcher >= caller
           THEN UNCHANGED ghosts
           ELSE token' = None /\ catcher' = None

\* z_ret from frame f with count frames counted, over the stack stk and the
\* data area data; from the main routine it would read behind the array.
z_ret(stk, data, f, count, v) ==
    LET header  == stk[f + 1]
        caller  == stk[f + 2]
        back    == stk[f + 3] + stk[f + 4] * PageSize
    IN  /\ IF TypeOf(header) = FUNCTION
           THEN store_operand(stk, f + 5, caller, data, back, v)
           ELSE /\ sp' = f + 5
                /\ pc' = back
                /\ stack' = stk
                /\ datap' = data
        /\ fp' = caller
        /\ frame_count' = (count - 1) % WordSize
        /\ IF catcher # None /\ catcher >= caller
           THEN UNCHANGED ghosts
           ELSE token' = None /\ catcher' = None

Return(v) ==
    /\ Executes("ret")
    /\ fp # BaseFrame
    /\ z_ret(stack, datap, fp, frame_count, v)
    /\ UNCHANGED <<undo, status>>

\* ret_popped: the value is taken off the stack of the frame that ends.
ret_popped ==
    /\ Executes("ret_popped")
    /\ fp # BaseFrame
    /\ LegalVar(stack, fp, sp, 0)
    /\ z_ret(stack, datap, fp, frame_count, stack[sp])
    /\ UNCHANGED <<undo, status>>

\* A branch with offset 0 or 1 returns it.  Whether a branch is taken is up to
\* the story, which has the sense of the test in the branch byte; all other
\* branches, and z_jump, set pc to another site.
conditional_jump(offset) ==
    /\ Executes("branch")
    /\ fp # BaseFrame
    /\ z_ret(stack, datap, fp, frame_count, offset)
    /\ UNCHANGED <<undo, status>>

\* The frame the loop of z_throw stops at: k frames above fp, or None when
\* the chain leaves the array before that, as it does after StackSize steps.
Unwound(k) ==
    LET up[i \in 0 .. k] ==
          IF i = 0 THEN fp
          ELSE IF up[i - 1] = None \/ up[i - 1] >= BaseFrame THEN None
          ELSE stack[up[i - 1] + 2]
    IN IF k < StackSize THEN up[k] ELSE None

\* Mutant: the loop leaves frame_count alone.
z_throw_uncounted(v) ==
    LET target == Unwound(IF token < frame_count THEN frame_count - token ELSE 0)
    IN
    /\ Executes("throw")
    /\ catcher # None /\ catcher # BaseFrame
    /\ IF token > fp
       THEN status' = "fatal" /\ UNCHANGED <<machine, ghosts>>
       ELSE IF target = None \/ target = BaseFrame
       THEN status' = "undefined" /\ UNCHANGED <<machine, ghosts>>
       ELSE /\ z_ret(stack, datap, target, frame_count, v)
            /\ UNCHANGED status
    /\ UNCHANGED undo

\* The story throws only to a catch result whose frame is still active.
z_throw(v) ==
    LET target == Unwound(IF token < frame_count THEN frame_count - token ELSE 0)
    IN
    /\ Executes("throw")
    /\ catcher # None /\ catcher # BaseFrame
    /\ IF token > fp
       THEN status' = "fatal" /\ UNCHANGED <<machine, ghosts>>
       ELSE IF target = None \/ target = BaseFrame
       THEN status' = "undefined" /\ UNCHANGED <<machine, ghosts>>
       ELSE /\ z_ret(stack, datap, target, IF token < frame_count THEN token ELSE frame_count, v)
            /\ UNCHANGED status
    /\ UNCHANGED undo

z_push(v) ==
    /\ Executes("push")
    /\ RoomToPush
    /\ sp' = sp - 1
    /\ stack' = [stack EXCEPT ![sp - 1] = v]
    /\ UNCHANGED <<fp, frame_count, pc, datap, undo, ghosts, status>>

\* An operand taken from the stack, and pop, the z_catch of V1 to V4.
Discard ==
    /\ Executes("pop")
    /\ LegalVar(stack, fp, sp, 0)
    /\ sp' = sp + 1
    /\ UNCHANGED <<stack, fp, frame_count, pc, datap, undo, ghosts, status>>

z_pull(n) ==
    /\ Executes("pull")
    /\ LegalVar(stack, fp, sp, 0)
    /\ LegalVar(stack, fp, sp + 1, n)
    /\ sp' = sp + 1
    /\ stack' = z_store(stack, sp + 1, fp, n, stack[sp])
    /\ datap' = SetGlobal(datap, n, stack[sp])
    /\ UNCHANGED <<fp, frame_count, pc, undo, ghosts, status>>

StoreVariable(n, v) ==
    /\ Executes("store")
    /\ LegalVar(stack, fp, sp, n)
    /\ stack' = z_store(stack, sp, fp, n, v)
    /\ datap' = SetGlobal(datap, n, v)
    /\ UNCHANGED <<sp, fp, frame_count, pc, undo, ghosts, status>>

\* Mutant: an int is stored.
Counted_wide(n, by) == load_variable(n) + by

\* What inc (by = 1) and dec (by = -1) make of variable n.
Counted(n, by) == (load_variable(n) + by) % WordSize

\* Variable 0 is counted on in place: nothing is popped or pushed.
CanCount(n, by) ==
    /\ LegalVar(stack, fp, sp, n)
    /\ {load_variable(n), (load_variable(n) + by) % WordSize} \subseteq Counts

\* z_inc and z_dec, and z_inc_chk and z_dec_chk without a return.
z_inc(n, by) ==
    /\ Executes("inc")
    /\ CanCount(n, by)
    /\ stack' = z_store(stack, sp, fp, n, Counted(n, by))
    /\ datap' = SetGlobal(datap, n, Counted(n, by))
    /\ UNCHANGED <<sp, fp, frame_count, pc, undo, ghosts, status>>

\* z_inc_chk and z_dec_chk with a branch that returns: the variable is stored
\* before the frame goes, and before the result is stored.
z_inc_chk(n, by, offset) ==
    /\ Executes("inc_chk")
    /\ fp # BaseFrame
    /\ CanCount(n, by)
    /\ z_ret(z_store(stack, sp, fp, n, Counted(n, by)),
             SetGlobal(datap, n, Counted(n, by)), fp, frame_count, offset)
    /\ UNCHANGED <<undo, status>>

\* The catch of V5 and later.
z_catch(at) ==
    /\ Executes("catch")
    /\ Version > 4
    /\ TakesResult(at)
    /\ store_operand(stack, sp, fp, datap, at, frame_count)
    /\ token' = frame_count
    /\ catcher' = fp
    /\ UNCHANGED <<fp, frame_count, undo, status>>

\* UNDO_SAVE and UNDO_RESTORE first push what they need; sp goes in stack[0].
UndoWords(at) ==
    [stack EXCEPT ![sp - 1] = at \div PageSize,
                  ![sp - 2] = at % PageSize,
                  ![sp - 3] = fp,
                  ![sp - 4] = Release,
                  ![0] = sp - 4]

\* Mutant: the data area is not taken back.
FinishUndo_keeps_data(stk, data, result) ==
    LET s == stk[0] IN
    IF stk[s] # Release
    THEN status' = "fatal" /\ UNCHANGED machine
    ELSE /\ fp' = stk[s + 1]
         /\ store_operand(stk, s + 4, stk[s + 1], datap,
                          stk[s + 2] + stk[s + 3] * PageSize, result)
         /\ UNCHANGED <<frame_count, status>>

\* The common end of save_restore over the stack stk and the data area data,
\* with the store of the result that follows it in z_save_undo and
\* z_restore_undo.
FinishUndo(stk, data, result) ==
    LET s == stk[0] IN
    IF stk[s] # Release
    THEN status' = "fatal" /\ UNCHANGED machine
    ELSE /\ fp' = stk[s + 1]
         /\ store_operand(stk, s + 4, stk[s + 1], data,
                          stk[s + 2] + stk[s + 3] * PageSize, result)
         /\ UNCHANGED <<frame_count, status>>

z_save_undo(at) ==
    /\ Executes("save_undo")
    /\ TakesResult(at)
    /\ IF ~UndoAvailable
       THEN /\ store_operand(stack, sp, fp, datap, at, MINUS_ONE)
            /\ UNCHANGED <<fp, frame_count, undo, status>>
       ELSE IF sp < 4
       THEN status' = "undefined" /\ UNCHANGED <<machine, undo>>
       ELSE /\ undo_valid' = TRUE
            /\ undo_stack' = UndoWords(at)
            /\ undo_datap' = datap
            /\ undo_token' = <<token, catcher>>
            /\ FinishUndo(UndoWords(at), datap, 1)
    /\ UNCHANGED ghosts

z_restore_undo(at) ==
    /\ Executes("restore_undo")
    /\ TakesResult(at)
    /\ IF ~UndoAvailable \/ ~undo_valid
       THEN /\ store_operand(stack, sp, fp, datap, at,
                             IF UndoAvailable THEN 0 ELSE MINUS_ONE)
            /\ UNCHANGED <<fp, frame_count, ghosts, status>>
       ELSE IF sp < 4
       THEN status' = "undefined" /\ UNCHANGED <<machine, ghosts>>
       ELSE /\ FinishUndo(undo_stack, undo_datap, 2)
            /\ token' = undo_token[1]
            /\ catcher' = undo_token[2]
    /\ UNCHANGED undo

z_quit ==
    /\ Executes("quit")
    /\ status' = "quit"
    /\ UNCHANGED <<machine, undo, ghosts>>

Next ==
    \/ \E at \in Sites, r \in Routines, type \in CallTypes, k \in 0 .. MaxArgs :
         \E args \in [1 .. k -> Values] : z_call(at, r, args, type)
    \/ \E at \in Sites : call_zero(at)
    \/ \E at \in Sites, n \in Variables : z_load(at, n)
    \/ \E at \in Sites : z_catch(at) \/ z_save_undo(at) \/ z_restore_undo(at)
    \/ \E v \in Values : Return(v) \/ z_throw(v) \/ z_push(v)
    \/ \E n \in Variables, v \in Values : StoreVariable(n, v)
    \/ \E n \in Variables : z_pull(n)
    \/ \E n \in Variables, by \in {1, -1} :
         \/ z_inc(n, by)
         \/ \E offset \in BranchReturns : z_inc_chk(n, by, offset)
    \/ \E offset \in BranchReturns : conditional_jump(offset)
    \/ ret_popped
    \/ Discard
    \/ z_restart
    \/ z_quit

Spec == Init /\ [][Next]_vars

-----------------------------------------------------------------------------
(* What the array of words represents *)

\* The words from index hi down to index lo.
WordsDown(stk, hi, lo) == [i \in 1 .. hi - lo + 1 |-> stk[hi - i + 1]]

\* The frame at f, whose evaluation stack ends at index low.
FrameAt(stk, f, low) ==
    LET n == VarsOfFrame(stk, f) IN
    [type   |-> IF f = BaseFrame THEN PROCEDURE ELSE TypeOf(stk[f + 1]),
     args   |-> IF f = BaseFrame THEN 0 ELSE ArgsOf(stk[f + 1]),
     ret    |-> IF f = BaseFrame THEN 0 ELSE stk[f + 3] + stk[f + 4] * PageSize,
     locals |-> WordsDown(stk, f, f - n + 1),
     eval   |-> WordsDown(stk, f - n, low)]

\* The word that saves the frame pointer of g's caller is one: callers are
\* above their callees.
HasCaller(stk, g) ==
    g + 4 < StackSize /\ stk[g + 2] > g /\ stk[g + 2] < StackSize

\* By frame, the frames of its callers, the main routine first.
CallersOf(stk) ==
    LET callers[g \in Cell] ==
          IF HasCaller(stk, g)
          THEN Append(callers[stk[g + 2]], FrameAt(stk, stk[g + 2], g + 5))
          ELSE <<>>
    IN callers

\* The frames the chain of saved frame pointers links, f last.
FramesOf(stk, f, s) == Append(CallersOf(stk)[f], FrameAt(stk, f, s))

UndoneState ==
    LET s == undo_stack[0] IN
    IF ~undo_valid THEN {}
    ELSE {[frames  |-> FramesOf(undo_stack, undo_stack[s + 1], s + 4),
           globals |-> undo_datap,
           token   |-> undo_token[1],
           pc      |-> undo_stack[s + 2] + undo_stack[s + 3] * PageSize]}

Abstract == INSTANCE FrameStack WITH
    frames  <- FramesOf(stack, fp, sp),
    globals <- datap,
    undo    <- UndoneState,
    running <- status = "run"

-----------------------------------------------------------------------------
(* Properties *)

\* Every variable has its type; indices stay in the array and the words are
\* zword_t values.
TypeOK ==
    /\ stack \in [Cell -> Word]
    /\ sp \in 0 .. StackSize
    /\ fp \in Cell
    /\ frame_count \in Word
    /\ pc \in Nat
    /\ datap \in [Globals -> Word]
    /\ undo_valid \in BOOLEAN
    /\ undo_valid => undo_stack \in [Cell -> Word] /\ undo_datap \in [Globals -> Word]
    /\ status \in {"run", "quit", "fatal", "undefined"}
    /\ token \in Word \cup {None}
    /\ catcher \in Cell \cup {None}

\* The frame list that calls, returns, throws and undo work on is the one the
\* array of words represents: CallStack implements FrameStack.
ImplementsFrameStack == Abstract!Spec

\* frame_count, which catch hands out and throw counts down, is the number of
\* frames the chain of saved frame pointers links.
FrameCountIsDepth == frame_count = Len(FramesOf(stack, fp, sp)) - 1

\* A throw works like longjmp: it returns from the frame that executed the
\* catch, to the caller of that frame.
ThrowReturnsFromCatcher ==
    [][\A v \in Values : z_throw(v) => fp' = stack[catcher + 2]]_vars

\* Below the frame of a caller only the callee writes: until it returns, the
\* saved words, locals and evaluation stack of every caller stay as they are.
CallersUntouched ==
    [][fp' <= fp /\ ~z_restart /\ ~(\E at \in Sites : z_restore_undo(at))
         => \A c \in Cell : c > fp => stack'[c] = stack[c]]_vars
=============================================================================
