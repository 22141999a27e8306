------------------------------ MODULE SaveGame ------------------------------
(***************************************************************************)
(* save and restore of fileio.c in V4 and later, with quetzal.c, over the  *)
(* machine of CallStack.  A save file is a sequence of chunks: IFhd has    *)
(* the story and pc, CMem or UMem the data area, Stks the frames.  Other   *)
(* interpreters read and write these files, too, in other orders and with  *)
(* other chunks: what restore reads is any of the Layouts of the contents. *)
(*                                                                         *)
(* The data area is kept as a whole; that of a file holds no scripting bit *)
(* and no other byte of the header restart_interp sets again.              *)
(***************************************************************************)
EXTENDS CallStack

CONSTANT Layouts   \* the sequences of kinds of chunks a file may have

VARIABLE file   \* what the save file holds: at most one game

game_vars == <<vars, file>>

Kinds == {"IFhd", "foreign IFhd", "CMem", "long CMem", "cut CMem", "UMem", "bad UMem",
          "Stks", "ANNO"}

ASSUME SaveGameAssumption == Layouts \subseteq Seq(Kinds)

-----------------------------------------------------------------------------
(* save_quetzal *)

\* The args byte has one bit for each argument: the numbers of the bits.
Bitmap(args) == 0 .. args - 1

\* The frame at f, when the next call would have its frame at low.
SavedFrame(stk, f, low) ==
    LET nvars    == VarsOf(stk[f + 1])
        nstk     == f - low - nvars - 4
        ret      == stk[f + 3] + stk[f + 4] * PageSize
        function == TypeOf(stk[f + 1]) = FUNCTION
    IN [pc        |-> IF function THEN ret + 1 ELSE ret,
        procedure |-> ~function,
        var       |-> IF function THEN ResultVar[ret] ELSE 0,
        args      |-> Bitmap(ArgsOf(stk[f + 1])),
        nvars     |-> nvars,
        nstk      |-> nstk,
        words     |-> WordsDown(stk, f, f - nvars - nstk + 1)]

\* The list frames of save_quetzal without its first entry: most recent first, up
\* to the main routine, whose fp is above StackSize - 5.
FramePointers(stk, f) ==
    LET from[g \in Cell] ==
          IF HasCaller(stk, g) THEN <<g>> \o from[stk[g + 2]] ELSE <<>>
    IN from[f]

\* The Stks chunk; dummy is the stack used before the first call.
SavedStack(stk, f, s) ==
    LET fps    == FramePointers(stk, f)
        n      == Len(fps)
        entry(i) == IF i = 0 THEN s - 5 ELSE fps[i]
    IN [dummy  |-> WordsDown(stk, StackSize - 1, entry(n) + 5),
        frames |-> [k \in 1 .. n |->
                      SavedFrame(stk, fps[n - k + 1], entry(n - k))]]

Contents(at) ==
    [pc |-> at, data |-> datap, stack |-> SavedStack(stack, fp, sp),
     token |-> <<token, catcher>>]

-----------------------------------------------------------------------------
(* restore_quetzal *)

\* What restore_quetzal has changed so far; ok is FALSE once it returns FALSE.
\* astray is TRUE when it is not at the end of the chunk it has read, and lost once
\* it reads what is there as the header of the next.
NothingRead ==
    [stk |-> stack, sp |-> sp, fp |-> fp, count |-> frame_count, pc |-> pc,
     data |-> datap, got |-> {}, ok |-> TRUE, astray |-> FALSE, lost |-> FALSE]

PutWords(stk, s, words) ==
    [c \in Cell |-> IF c < s /\ c >= s - Len(words) THEN words[s - c] ELSE stk[c]]

\* Mutant: return_pc stays behind the store byte that was compared.
ReturnAddress_behind(frame) == frame.pc

\* The file has the address behind the store byte of a function call.
ReturnAddress(frame) == IF frame.procedure THEN frame.pc ELSE frame.pc - 1

LoadFrame(r, frame) ==
    LET ret  == ReturnAddress(frame)
        args == {i \in 0 .. 8 : frame.args = Bitmap(i)}
        n    == frame.nvars + frame.nstk
        type == IF frame.procedure THEN PROCEDURE ELSE FUNCTION
    IN IF \/ ~r.ok
          \/ r.sp < 4
          \/ ~frame.procedure /\ ResultVar[frame.pc - 1] # frame.var
          \/ args = {}
          \/ n >= r.sp - 4
       THEN [r EXCEPT !.ok = FALSE]
       ELSE LET header == Header(type, frame.nvars, CHOOSE i \in args : TRUE) IN
            [r EXCEPT !.stk = PutWords(r.stk, r.sp,
                                <<ret \div PageSize, ret % PageSize, r.fp, header>>
                                  \o frame.words),
                      !.sp = r.sp - 4 - n,
                      !.fp = r.sp - 5]

LoadStack(r, s) ==
    LET base == [r EXCEPT !.stk = PutWords(r.stk, StackSize, s.dummy),
                          !.sp = StackSize - Len(s.dummy),
                          !.fp = BaseFrame,
                          !.count = 0]
        after[k \in 0 .. Len(s.frames)] ==
            IF k = 0 THEN base ELSE LoadFrame(after[k - 1], s.frames[k])
    IN after[Len(s.frames)]

Refused(r) == [r EXCEPT !.ok = FALSE]

\* Mutant: progress = part, not progress |= part.
Got_forgets(r, part) == [r EXCEPT !.got = {part}]

Got(r, part) == [r EXCEPT !.got = @ \cup {part}]

Overwritten == [g \in Globals |-> 0]

\* One round of the loop.  The foreign header has a release, date or checksum
\* that is not this story's.  A CMem that is too long or ends in the middle of a
\* run has overwritten the data area by then; of one that is cut, one byte too
\* many is read.  The body of a second Stks is not skipped.  A bad UMem has
\* another length than the data area and is skipped.
ReadChunk(r, kind, c) ==
    IF ~r.ok \/ r.lost THEN r
    ELSE IF r.astray THEN [r EXCEPT !.lost = TRUE]
    ELSE CASE kind = "IFhd" ->
                IF "header" \in r.got THEN Refused(r)
                ELSE Got([r EXCEPT !.pc = c.pc], "header")
           [] kind = "foreign IFhd" -> Refused(r)
           [] kind = "Stks" ->
                IF "stack" \in r.got THEN [r EXCEPT !.astray = TRUE]
                ELSE LoadStack(Got(r, "stack"), c.stack)
           [] kind \in {"CMem", "UMem"} /\ "memory" \notin r.got ->
                Got([r EXCEPT !.data = c.data], "memory")
           [] kind = "long CMem" /\ "memory" \notin r.got ->
                [r EXCEPT !.data = Overwritten]
           [] kind = "cut CMem" /\ "memory" \notin r.got ->
                [r EXCEPT !.data = Overwritten, !.astray = TRUE]
           [] OTHER -> r

restore_quetzal(layout, c) ==
    LET after[k \in 0 .. Len(layout)] ==
          IF k = 0 THEN NothingRead ELSE ReadChunk(after[k - 1], layout[k], c)
    IN after[Len(layout)]

Succeeds(r) == r.ok /\ r.got = {"header", "stack", "memory"}

-----------------------------------------------------------------------------
(* The actions *)

GivesResult(at, v) ==
    /\ store_operand(stack, sp, fp, datap, at, v)
    /\ UNCHANGED <<fp, frame_count>>

\* No name is given, or the file cannot be opened; a failed write removes the
\* file, and with it the game that was in it before; or the game is saved.
z_save(at) ==
    /\ status = "run"
    /\ Version > 3
    /\ TakesResult(at)
    /\ \/ GivesResult(at, 0) /\ file' = file
       \/ GivesResult(at, 0) /\ file' = {}
       \/ GivesResult(at, 1) /\ file' = {Contents(at)}
    /\ UNCHANGED <<undo, ghosts, status>>

NoFile(at) ==
    /\ GivesResult(at, 0)
    /\ UNCHANGED <<ghosts, status>>

\* A file that is opened and refused ends the program: fatal() in save_restore.
FileRead(r, c) ==
    CASE r.lost -> status' = "undefined" /\ UNCHANGED <<machine, ghosts>>
      [] ~r.lost /\ ~Succeeds(r) -> status' = "fatal" /\ UNCHANGED <<machine, ghosts>>
      [] OTHER ->
           /\ fp' = r.fp
           /\ frame_count' = r.count
           /\ store_operand(r.stk, r.sp, r.fp, r.data, r.pc, 2)
           /\ token' = c.token[1]
           /\ catcher' = c.token[2]
           /\ UNCHANGED status

z_restore(at, layout) ==
    /\ status = "run"
    /\ Version > 3
    /\ TakesResult(at)
    /\ \/ NoFile(at)
       \/ \E c \in file : FileRead(restore_quetzal(layout, c), c)
    /\ UNCHANGED <<undo, file>>

GameInit == Init /\ file = {}

GameNext ==
    \/ Next /\ UNCHANGED file
    \/ \E at \in Sites : z_save(at)
    \/ \E at \in Sites, layout \in Layouts : z_restore(at, layout)

GameSpec == GameInit /\ [][GameNext]_game_vars

-----------------------------------------------------------------------------
(* Properties *)

\* A frame of a Stks chunk, and all of them, in the form FrameStack has them.
FrameOfChunk(frame) ==
    LET part(lo, hi) == [i \in 1 .. hi - lo + 1 |-> frame.words[lo + i - 1]]
    IN [type   |-> IF frame.procedure THEN PROCEDURE ELSE FUNCTION,
        args   |-> CHOOSE i \in 0 .. 8 : frame.args = Bitmap(i),
        ret    |-> IF frame.procedure THEN frame.pc ELSE frame.pc - 1,
        locals |-> part(1, frame.nvars),
        eval   |-> part(frame.nvars + 1, Len(frame.words))]

FramesOfChunk(s) ==
    <<[type |-> PROCEDURE, args |-> 0, ret |-> 0, locals |-> <<>>, eval |-> s.dummy]>>
       \o [k \in 1 .. Len(s.frames) |-> FrameOfChunk(s.frames[k])]

Games == INSTANCE SavedGames WITH
    frames  <- FramesOf(stack, fp, sp),
    globals <- datap,
    undo    <- UndoneState,
    running <- status = "run",
    saved   <- {[frames  |-> FramesOfChunk(c.stack),
                 globals |-> c.data,
                 token   |-> c.token[1],
                 pc      |-> c.pc] : c \in file}

\* A restore gives back the frames, the globals and the place the save saw, or
\* nothing of them; no file of another story and no part of a file is restored.
ImplementsSavedGames == Games!GameSpec

\* The layouts with one header, of this story, one stack and a good memory chunk,
\* and none that is cut before it.
Complete(layout) ==
    LET at(kinds) == {i \in DOMAIN layout : layout[i] \in kinds} IN
    /\ \E i \in DOMAIN layout : at({"IFhd", "foreign IFhd"}) = {i} /\ layout[i] = "IFhd"
    /\ \E i \in DOMAIN layout : at({"Stks"}) = {i}
    /\ \E i \in at({"CMem", "UMem"}) : \A j \in at({"cut CMem"}) : i < j

\* A file with one header of this story, one stack and a good memory chunk is
\* restored, whatever the order of its chunks and whatever else is in it, but for a
\* CMem chunk cut in the middle of a run.
CompleteFilesRestore ==
    [][file # {} /\ status' # "run" =>
         \A at \in Sites, layout \in Layouts :
            Complete(layout) => ~z_restore(at, layout)]_game_vars
=============================================================================
