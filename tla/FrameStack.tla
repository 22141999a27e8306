----------------------------- MODULE FrameStack -----------------------------
(***************************************************************************)
(* What the call machinery of control.c, operand.c and variable.c promises *)
(* to a story: a sequence of frames, each with its own locals and its own  *)
(* evaluation stack.  A return gives the caller back exactly as it was, a  *)
(* throw returns from the frame that executed the catch, and restore_undo  *)
(* gives back everything save_undo saw.  CallStack, which keeps all of     *)
(* this in one array of words, is checked to implement this module.        *)
(***************************************************************************)
EXTENDS Story

CONSTANT None

VARIABLES
    frames,   \* the frames, the main routine first
    globals,  \* global variable -> word
    pc,       \* the program counter
    token,    \* the last catch result the story still may throw to, or None
    undo,     \* what the last save_undo saw, if anything: at most one state
    running   \* FALSE once the interpreter has stopped

vars == <<frames, globals, pc, token, undo, running>>

MainFrame == [type |-> PROCEDURE, args |-> 0, ret |-> 0,
              locals |-> <<>>, eval |-> <<>>]

Depth(fs) == Len(fs) - 1
TopOf(fs) == fs[Len(fs)]
Pop(fs) == SubSeq(fs, 1, Len(fs) - 1)

PushValue(fs, v) == [fs EXCEPT ![Len(fs)].eval = Append(@, v)]
PopValue(fs) == [fs EXCEPT ![Len(fs)].eval = SubSeq(@, 1, Len(@) - 1)]
TopValue(fs) == TopOf(fs).eval[Len(TopOf(fs).eval)]

\* Storing in variable 0 replaces the top of the evaluation stack in place.
PutVar(fs, n, v) ==
    CASE n = 0               -> PushValue(PopValue(fs), v)
      [] n \in LocalNumbers  -> [fs EXCEPT ![Len(fs)].locals[n] = v]
      [] OTHER               -> fs

\* A result for variable 0 is pushed.
PutResult(fs, n, v) == IF n = 0 THEN PushValue(fs, v) ELSE PutVar(fs, n, v)

GetVar(fs, n) ==
    CASE n = 0               -> TopValue(fs)
      [] n \in LocalNumbers  -> TopOf(fs).locals[n]
      [] OTHER               -> globals[n]

HasVar(fs, n) ==
    CASE n = 0               -> TopOf(fs).eval # <<>>
      [] n \in LocalNumbers  -> n <= Len(TopOf(fs).locals)
      [] OTHER               -> n \in DOMAIN globals

TakesResult(fs, at) == ResultVar[at] = 0 \/ HasVar(fs, ResultVar[at])

\* A catch result dies with the frame it names.
Live(fs) == IF token # None /\ token <= Depth(fs) THEN token ELSE None

\* An instruction whose store byte is at address at gives its result.
Result(fs, gs, at, v) ==
    /\ frames' = PutResult(fs, ResultVar[at], v)
    /\ globals' = SetGlobal(gs, ResultVar[at], v)
    /\ pc' = at + 1

\* The top frame of fs returns v to its caller, the globals being gs.
ReturnFrom(fs, gs, v) ==
    LET f == TopOf(fs) IN
    /\ Depth(fs) > 0
    /\ IF f.type = FUNCTION
       THEN Result(Pop(fs), gs, f.ret, v)
       ELSE frames' = Pop(fs) /\ globals' = gs /\ pc' = f.ret
    /\ token' = Live(Pop(fs))

Init ==
    /\ frames = <<MainFrame>>
    /\ globals = [g \in Globals |-> 0]
    /\ pc = StartPC
    /\ token = None
    /\ undo = {}
    /\ running = TRUE

Call(at, r, args, type) ==
    /\ running
    /\ type = FUNCTION => TakesResult(frames, at)
    /\ frames' = Append(frames,
         [type |-> type, args |-> Len(args), ret |-> at,
          locals |-> [i \in 1 .. NLocals[r] |->
                        IF i <= Len(args) THEN args[i] ELSE LocalDefault(r, i)],
          eval |-> <<>>])
    /\ pc' = Entry[r]
    /\ UNCHANGED <<globals, token, undo, running>>

\* A call to routine 0, or an undo instruction that cannot do anything.
Compute(at, v) ==
    /\ running
    /\ TakesResult(frames, at)
    /\ Result(frames, globals, at, v)
    /\ UNCHANGED <<token, undo, running>>

Return(v) ==
    /\ running
    /\ ReturnFrom(frames, globals, v)
    /\ UNCHANGED <<undo, running>>

ReturnPopped ==
    /\ running
    /\ HasVar(frames, 0)
    /\ ReturnFrom(PopValue(frames), globals, TopValue(frames))
    /\ UNCHANGED <<undo, running>>

Push(v) ==
    /\ running
    /\ frames' = PushValue(frames, v)
    /\ UNCHANGED <<globals, pc, token, undo, running>>

Discard ==
    /\ running
    /\ HasVar(frames, 0)
    /\ frames' = PopValue(frames)
    /\ UNCHANGED <<globals, pc, token, undo, running>>

Store(n, v) ==
    /\ running
    /\ HasVar(frames, n)
    /\ frames' = PutVar(frames, n, v)
    /\ globals' = SetGlobal(globals, n, v)
    /\ UNCHANGED <<pc, token, undo, running>>

Pull(n) ==
    /\ running
    /\ HasVar(frames, 0)
    /\ HasVar(PopValue(frames), n)
    /\ frames' = PutVar(PopValue(frames), n, TopValue(frames))
    /\ globals' = SetGlobal(globals, n, TopValue(frames))
    /\ UNCHANGED <<pc, token, undo, running>>

Counted(n, by) == (GetVar(frames, n) + by) % WordSize

Count(n, by) ==
    /\ HasVar(frames, n)
    /\ Store(n, Counted(n, by))

\* The result of the frame that ends may replace the word just counted.
CountAndReturn(n, by, v) ==
    /\ running
    /\ HasVar(frames, n)
    /\ ReturnFrom(PutVar(frames, n, Counted(n, by)),
                  SetGlobal(globals, n, Counted(n, by)), v)
    /\ UNCHANGED <<undo, running>>

Load(at, n) ==
    /\ HasVar(frames, n)
    /\ Compute(at, GetVar(frames, n))

Catch(at) ==
    /\ running
    /\ TakesResult(frames, at)
    /\ Result(frames, globals, at, Depth(frames))
    /\ token' = Depth(frames)
    /\ UNCHANGED <<undo, running>>

\* Like longjmp: the frame that executed the catch returns v.
Throw(v) ==
    /\ running
    /\ token # None
    /\ ReturnFrom(SubSeq(frames, 1, token + 1), globals, v)
    /\ UNCHANGED <<undo, running>>

Restart ==
    /\ running
    /\ frames' = <<MainFrame>>
    /\ globals' = [g \in Globals |-> 0]
    /\ pc' = StartPC
    /\ token' = None
    /\ UNCHANGED <<undo, running>>

SaveUndo(at) ==
    /\ running
    /\ TakesResult(frames, at)
    /\ undo' = {[frames |-> frames, globals |-> globals, token |-> token, pc |-> at]}
    /\ Result(frames, globals, at, 1)
    /\ UNCHANGED <<token, running>>

RestoreUndo ==
    /\ running
    /\ \E saved \in undo : /\ Result(saved.frames, saved.globals, saved.pc, 2)
                            /\ token' = saved.token
    /\ UNCHANGED <<undo, running>>

Quit ==
    /\ running
    /\ running' = FALSE
    /\ UNCHANGED <<frames, globals, pc, token, undo>>

Next ==
    \/ Discard
    \/ Restart
    \/ RestoreUndo
    \/ Quit
    \/ \E v \in Values : Return(v) \/ Push(v) \/ Throw(v)
    \/ \E at \in Sites : Catch(at) \/ SaveUndo(at)
    \/ \E at \in Sites, v \in {FALSE_WORD, MINUS_ONE} : Compute(at, v)
    \/ ReturnPopped
    \/ \E v \in {0, 1} : Return(v)
    \/ \E n \in Variables : Pull(n)
    \/ \E n \in Variables, by \in {1, -1} :
         Count(n, by) \/ \E v \in {0, 1} : CountAndReturn(n, by, v)
    \/ \E n \in Variables, v \in Values : Store(n, v)
    \/ \E at \in Sites, n \in Variables : Load(at, n)
    \/ \E at \in Sites, r \in Routines, type \in CallTypes, k \in 0 .. MaxArgs :
         \E args \in [1 .. k -> Values] : Call(at, r, args, type)

Spec == Init /\ [][Next]_vars
=============================================================================
