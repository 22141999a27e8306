-------------------------- MODULE CallStack_proofs --------------------------
(***************************************************************************)
(* For every legal story, every size of the stack and of a page: the words *)
(* of the stack are always those of a chain of frames, each above its      *)
(* callee, and only the words of the frame in use are written.  As long as *)
(* no undo is restored, frame_count is the length of that chain, and throw *)
(* returns from the frame that executed the catch.                         *)
(*                                                                         *)
(* CallStack implements FrameStack: the words of the stack stand for a     *)
(* sequence of frames, and every instruction does to that sequence what    *)
(* FrameStack says it does.  Two conditions are needed for it.  A story    *)
(* leaves five words of the stack free, as save_restore keeps an index in  *)
(* its lowest word while it copies it.  And a story that undoes does not   *)
(* catch, as the frame count is not undone.                                *)
(*                                                                         *)
(* Last, SaveGame, on the same two conditions: a stack that has been saved *)
(* is loaded again word for word, so SaveGame implements SavedGames, and a *)
(* file that is complete is restored.                                      *)
(***************************************************************************)
EXTENDS SaveGame, TLAPS, Recursion, SequenceTheorems

\* The routine that owns vars_ locals can take a result in variable n.
Storable(n, vars_) == n \in {0} \cup Globals \/ (n \in LocalNumbers /\ n <= vars_)

\* Where the frame at g returns to.
ReturnsTo(stk, g) == stk[g + 3] + stk[g + 4] * PageSize

\* A function returns to a store byte that names a variable of its caller.
ResultFits(stk, g) ==
    TypeOf(stk[g + 1]) = FUNCTION =>
      Storable(ResultVar[ReturnsTo(stk, g)], VarsOfFrame(stk, stk[g + 2]))

\* The words of a call are its type, at most seven arguments, and a place in a page.
CallFits(stk, g) ==
    /\ TypeOf(stk[g + 1]) \in CallTypes
    /\ ArgsOf(stk[g + 1]) \in 0 .. 7
    /\ stk[g + 3] < PageSize

\* The frame pointers a chain of saved frame pointers goes through from f up to
\* the main routine.  Between a frame and its caller there are the four words of
\* the call and the locals of the caller.
Chain(F, stk, f) ==
    /\ F \subseteq Cell
    /\ f \in F
    /\ BaseFrame \in F
    /\ \A g \in F : g >= f
    /\ \A g \in F \ {BaseFrame} :
         /\ stk[g + 2] \in F
         /\ g + 4 + VarsOfFrame(stk, stk[g + 2]) <= stk[g + 2]
         /\ ResultFits(stk, g)
         /\ CallFits(stk, g)

\* The stack stk is a chain of frames that ends with f, whose evaluation stack is
\* below its locals.
Framed(stk, f, s) ==
    /\ s <= f + 1 - VarsOfFrame(stk, f)
    /\ \E F : Chain(F, stk, f)

\* What save_undo copied is the stack with the four words it pushes.
UndoFramed ==
    /\ undo_token \in (Word \cup {None}) \X (Cell \cup {None})
    /\ (undo_token[1] = None <=> undo_token[2] = None)
    /\ undo_valid =>
         LET s == undo_stack[0] IN
         /\ s \in 0 .. StackSize - 4
         /\ undo_stack[s + 1] \in Cell
         /\ Framed(undo_stack, undo_stack[s + 1], s + 4)

Inv ==
    /\ TypeOK
    /\ Framed(stack, fp, sp)
    /\ (token = None <=> catcher = None)
    /\ UndoFramed

-----------------------------------------------------------------------------
(* Words *)

LEMMA Constants ==
  /\ StackSize \in Nat /\ StackSize > 8 /\ StackSize < WordSize
  /\ WordSize \in Nat /\ WordSize >= 8192
  /\ BaseFrame \in Cell /\ Cell \subseteq Word /\ Cell \subseteq Nat
  /\ Word \subseteq Nat
  /\ BaseFrame = StackSize - 1
  /\ StackSize \in Word
  /\ Reserve \in Nat /\ Reserve >= 1
BY StoryAssumption, CallStackAssumption DEF Cell, Word, BaseFrame

LEMMA Sizes ==
  /\ StackSize \in Nat /\ StackSize > 8 /\ StackSize < WordSize
  /\ WordSize \in Nat /\ WordSize >= 8192
  /\ Cell = 0 .. StackSize - 1
  /\ BaseFrame = StackSize - 1
  /\ Reserve \in Nat /\ Reserve >= 1
BY StoryAssumption, CallStackAssumption DEF Cell, BaseFrame

LEMMA WordsAreNumbers == \A w \in Word : w \in Nat
BY StoryAssumption DEF Word

LEMMA HeaderParts ==
  ASSUME NEW t \in {0, 1}, NEW v \in 0 .. 15, NEW a \in 0 .. 7
  PROVE  /\ Header(t, v, a) \in Word
         /\ TypeOf(Header(t, v, a)) = t
         /\ VarsOf(Header(t, v, a)) = v
         /\ ArgsOf(Header(t, v, a)) = a
<1>. DEFINE w == Header(t, v, a)
<1>1. w \in 0 .. 8191
  BY DEF Header
<1>2. w \in Word
  <2>. HIDE DEF w
  <2>1. WordSize \in Nat /\ WordSize >= 8192
    BY Constants
  <2>. QED  BY <1>1, <2>1 DEF Word
<1>3. w \div 256 = t * 16 + v /\ w % 256 = a
  BY DEF Header
<1>4. (t * 16 + v) % 16 = v
  OBVIOUS
<1>5. w \div 4096 = t
  BY DEF Header
<1>. QED  BY <1>2, <1>3, <1>4, <1>5 DEF TypeOf, VarsOf, ArgsOf

LEMMA VarsInRange ==
  ASSUME NEW w \in Word
  PROVE  VarsOf(w) \in 0 .. 15
<1>1. w \in Nat  BY Constants
<1>2. w \div 256 \in Nat
  BY <1>1
<1>. QED  BY <1>2 DEF VarsOf

LEMMA AddressParts ==
  ASSUME NEW at \in Sites
  PROVE  /\ at \div PageSize \in Word
         /\ at % PageSize \in Word
<1>1. at \in Nat /\ PageSize \in 1 .. WordSize /\ WordSize \in Nat
  BY StoryAssumption, CallStackAssumption
<1>2. at % PageSize \in 0 .. PageSize - 1
  BY <1>1
<1>. QED  BY <1>1, <1>2, CallStackAssumption DEF Word

LEMMA AddressJoined ==
  ASSUME NEW at \in Sites
  PROVE  (at % PageSize) + (at \div PageSize) * PageSize = at
<1>1. at \in Nat /\ PageSize \in Nat \ {0}
  BY StoryAssumption, CallStackAssumption
<1>. QED  BY <1>1, SMTT(30)

LEMMA VarsOfFrameInRange ==
  ASSUME NEW stk \in [Cell -> Word], NEW f \in Cell
  PROVE  VarsOfFrame(stk, f) \in 0 .. 15
<1>1. CASE f = BaseFrame
  BY <1>1 DEF VarsOfFrame
<1>2. CASE f # BaseFrame
  <2>1. f + 1 \in Cell
    BY <1>2, Constants DEF Cell, BaseFrame
  <2>. QED  BY <1>2, <2>1, VarsInRange DEF VarsOfFrame
<1>. QED  BY <1>1, <1>2

-----------------------------------------------------------------------------
(* Chains of frames *)

\* A frame's chain is made of words above its frame pointer.
LEMMA ChainAbove ==
  ASSUME NEW stk \in [Cell -> Word], NEW stk2 \in [Cell -> Word],
         NEW f \in Cell, NEW F, Chain(F, stk, f),
         \A c \in Cell : c > f => stk2[c] = stk[c]
  PROVE  /\ Chain(F, stk2, f)
         /\ VarsOfFrame(stk2, f) = VarsOfFrame(stk, f)
<1>1. \A g \in F : VarsOfFrame(stk2, g) = VarsOfFrame(stk, g)
  <2>. SUFFICES ASSUME NEW g \in F, g # BaseFrame
                PROVE  VarsOfFrame(stk2, g) = VarsOfFrame(stk, g)
    BY DEF VarsOfFrame
  <2>1. g \in Cell /\ g >= f
    BY DEF Chain
  <2>2. g + 1 \in Cell /\ g + 1 > f
    BY <2>1, Constants DEF Cell, BaseFrame
  <2>. QED  BY <2>2 DEF VarsOfFrame
<1>2. ASSUME NEW g \in F \ {BaseFrame}
      PROVE  stk2[g + 2] = stk[g + 2]
  <2>1. stk[g + 2] \in F /\ g + 4 + VarsOfFrame(stk, stk[g + 2]) <= stk[g + 2]
    BY DEF Chain
  <2>2. stk[g + 2] \in Cell /\ VarsOfFrame(stk, stk[g + 2]) \in Nat
    BY <2>1, VarsOfFrameInRange DEF Chain
  <2>3. g \in Cell /\ g >= f
    BY DEF Chain
  <2>4. g + 2 \in Cell /\ g + 2 > f
    BY <2>1, <2>2, <2>3, Constants DEF Cell
  <2>. QED  BY <2>4
<1>3. f \in F /\ \A g \in F \ {BaseFrame} : stk[g + 2] \in F
  BY DEF Chain
<1>4. ASSUME NEW g \in F \ {BaseFrame}
      PROVE  ResultFits(stk2, g) /\ CallFits(stk2, g)
  <2>1. stk[g + 2] \in F /\ g + 4 + VarsOfFrame(stk, stk[g + 2]) <= stk[g + 2]
    BY DEF Chain
  <2>2. stk[g + 2] \in Cell /\ VarsOfFrame(stk, stk[g + 2]) \in Nat
    BY <2>1, VarsOfFrameInRange DEF Chain
  <2>3. g \in Cell /\ g >= f
    BY DEF Chain
  <2>4. /\ g + 1 \in Cell /\ g + 3 \in Cell /\ g + 4 \in Cell
        /\ g + 1 > f /\ g + 3 > f /\ g + 4 > f
    <3>1. /\ g \in 0 .. StackSize - 1 /\ g >= f /\ f \in Nat /\ StackSize \in Nat
          /\ stk[g + 2] \in 0 .. StackSize - 1
      BY <2>2, <2>3, Sizes
    <3>2. g + 4 <= stk[g + 2]
      BY <2>1, <2>2, <3>1
    <3>3. /\ g + 1 \in 0 .. StackSize - 1 /\ g + 3 \in 0 .. StackSize - 1
          /\ g + 4 \in 0 .. StackSize - 1
          /\ g + 1 > f /\ g + 3 > f /\ g + 4 > f
      BY <3>1, <3>2
    <3>. QED  BY <3>3, Sizes
  <2>5. /\ stk2[g + 1] = stk[g + 1] /\ stk2[g + 3] = stk[g + 3]
        /\ stk2[g + 4] = stk[g + 4] /\ stk2[g + 2] = stk[g + 2]
        /\ VarsOfFrame(stk2, stk[g + 2]) = VarsOfFrame(stk, stk[g + 2])
    BY <1>1, <1>2, <2>1, <2>4
  <2>6. ResultFits(stk, g) /\ CallFits(stk, g)
    BY DEF Chain
  <2>7. ResultFits(stk2, g)
    BY <2>5, <2>6 DEF ResultFits, ReturnsTo
  <2>8. CallFits(stk2, g)
    BY <2>5, <2>6 DEF CallFits
  <2>. QED  BY <2>7, <2>8
<1>. QED  BY <1>1, <1>2, <1>3, <1>4 DEF Chain

\* The caller of a frame of a chain, and the chain from there up.
LEMMA ChainOfCaller ==
  ASSUME NEW stk \in [Cell -> Word], NEW f \in Cell, f # BaseFrame,
         NEW F, Chain(F, stk, f), NEW g \in F, g # BaseFrame
  PROVE  /\ g \in Cell /\ g + 4 \in Cell
         /\ stk[g + 2] \in F /\ stk[g + 2] \in Cell
         /\ VarsOfFrame(stk, stk[g + 2]) \in 0 .. 15
         /\ g + 4 + VarsOfFrame(stk, stk[g + 2]) <= stk[g + 2]
         /\ Chain({h \in F : h >= stk[g + 2]}, stk, stk[g + 2])
<1>1. /\ g \in Cell
      /\ stk[g + 2] \in F
      /\ g + 4 + VarsOfFrame(stk, stk[g + 2]) <= stk[g + 2]
  BY DEF Chain
<1>2. stk[g + 2] \in Cell
  BY <1>1 DEF Chain
<1>3. VarsOfFrame(stk, stk[g + 2]) \in 0 .. 15
  BY <1>2, VarsOfFrameInRange
<1>4. g + 4 \in Cell
  <2>. DEFINE c == stk[g + 2]
              n == VarsOfFrame(stk, c)
  <2>1. g \in 0 .. StackSize - 1 /\ c \in 0 .. StackSize - 1 /\ StackSize \in Nat
        /\ n \in 0 .. 15 /\ g + 4 + n <= c
    BY <1>1, <1>2, <1>3, Sizes
  <2>. HIDE DEF c, n
  <2>2. g + 4 \in 0 .. StackSize - 1
    BY <2>1
  <2>. QED  BY <2>2, Sizes
<1>. DEFINE c == stk[g + 2]
            G == {h \in F : h >= c}
<1>5. ASSUME NEW h \in G \ {BaseFrame}
      PROVE  stk[h + 2] \in G
  <2>1. h \in Cell /\ stk[h + 2] \in F /\ h + 4 + VarsOfFrame(stk, stk[h + 2]) <= stk[h + 2]
    BY DEF Chain
  <2>2. stk[h + 2] \in Cell /\ VarsOfFrame(stk, stk[h + 2]) \in Nat
    BY <2>1, VarsOfFrameInRange DEF Chain
  <2>3. c \in Int /\ h \in Int /\ h >= c /\ stk[h + 2] \in Int
    BY <1>2, <2>1, <2>2 DEF Cell
  <2>. QED  BY <2>1, <2>2, <2>3
<1>6. BaseFrame \in G
  BY <1>2, Constants DEF Cell, Chain
<1>7. c \in G
  BY <1>1, <1>2 DEF Cell
<1>8. Chain(G, stk, c)
  BY <1>5, <1>6, <1>7 DEF Chain
<1>. QED  BY <1>1, <1>2, <1>3, <1>4, <1>8

\* What is written at or below its frame pointer leaves a frame framed.
LEMMA FrameKept ==
  ASSUME NEW stk \in [Cell -> Word], NEW stk2 \in [Cell -> Word],
         NEW f \in Cell, NEW s \in Int, NEW s2 \in Int,
         Framed(stk, f, s),
         \A c \in Cell : c > f => stk2[c] = stk[c],
         s2 <= f + 1 - VarsOfFrame(stk, f)
  PROVE  Framed(stk2, f, s2)
<1>1. PICK F : Chain(F, stk, f)
  BY DEF Framed
<1>2. Chain(F, stk2, f) /\ VarsOfFrame(stk2, f) = VarsOfFrame(stk, f)
  BY <1>1, ChainAbove
<1>. QED  BY <1>2 DEF Framed

-----------------------------------------------------------------------------
(* Storing and returning *)

\* A variable is stored at or below the frame pointer.
LEMMA StoreBelow ==
  ASSUME NEW stk \in [Cell -> Word], NEW f \in Cell, NEW s \in Int, NEW n,
         n = 0 => s <= f,
         NEW v \in Word
  PROVE  /\ z_store(stk, s, f, n, v) \in [Cell -> Word]
         /\ \A c \in Cell : c > f => z_store(stk, s, f, n, v)[c] = stk[c]
<1>1. CASE n = 0
  <2>1. z_store(stk, s, f, n, v) = [stk EXCEPT ![s] = v]
    BY <1>1 DEF z_store, LocalNumbers
  <2>2. \A c \in Cell : c > f => c # s
    BY <1>1, Sizes
  <2>. QED  BY <2>1, <2>2
<1>2. CASE n \in LocalNumbers
  <2>1. z_store(stk, s, f, n, v) = [stk EXCEPT ![f - (n - 1)] = v]
    BY <1>2 DEF z_store, LocalNumbers
  <2>2. \A c \in Cell : c > f => c # f - (n - 1)
    BY <1>2, Sizes DEF LocalNumbers
  <2>. QED  BY <2>1, <2>2
<1>3. CASE n # 0 /\ n \notin LocalNumbers
  BY <1>3 DEF z_store
<1>. QED  BY <1>1, <1>2, <1>3

LEMMA GlobalsTyped ==
  ASSUME NEW data \in [Globals -> Word], NEW n, NEW v \in Word
  PROVE  SetGlobal(data, n, v) \in [Globals -> Word]
BY DEF SetGlobal

\* A result is stored at or below the frame pointer, too.
LEMMA StoreOperand ==
  ASSUME NEW stk \in [Cell -> Word], NEW s \in 0 .. StackSize, NEW f \in Cell,
         NEW data \in [Globals -> Word], NEW at \in Nat, NEW v \in Word,
         Framed(stk, f, s),
         ResultVar[at] = 0 => s >= 1,
         store_operand(stk, s, f, data, at, v)
  PROVE  /\ stack' \in [Cell -> Word]
         /\ sp' \in 0 .. StackSize
         /\ pc' \in Nat
         /\ datap' \in [Globals -> Word]
         /\ Framed(stack', f, sp')
         /\ \A c \in Cell : c > f => stack'[c] = stk[c]
<1>. DEFINE n == ResultVar[at]
<1>1. /\ s \in Int /\ f \in Int
      /\ VarsOfFrame(stk, f) \in 0 .. 15
      /\ s <= f + 1 - VarsOfFrame(stk, f)
  BY VarsOfFrameInRange, Constants DEF Framed, Cell
<1>2. pc' \in Nat /\ datap' \in [Globals -> Word]
  BY GlobalsTyped DEF store_operand
<1>3. CASE n = 0
  <2>1. stack' = [stk EXCEPT ![s - 1] = v] /\ sp' = s - 1 /\ s >= 1
    BY <1>3 DEF store_operand
  <2>2. s - 1 <= f /\ s - 1 \in 0 .. StackSize
    BY <1>1, <2>1, Constants
  <2>3. stack' \in [Cell -> Word] /\ \A c \in Cell : c > f => stack'[c] = stk[c]
    BY <2>1, <2>2, <1>1, Constants DEF Cell
  <2>4. s - 1 <= f + 1 - VarsOfFrame(stk, f) /\ s - 1 \in Int
    BY <1>1
  <2>5. Framed(stack', f, s - 1)
    BY <1>1, <2>3, <2>4, FrameKept
  <2>. QED  BY <1>2, <2>1, <2>2, <2>3, <2>5
<1>4. CASE n # 0
  <2>1. stack' = z_store(stk, s, f, n, v) /\ sp' = s
    BY <1>4 DEF store_operand
  <2>2. stack' \in [Cell -> Word] /\ \A c \in Cell : c > f => stack'[c] = stk[c]
    BY <1>1, <1>4, <2>1, StoreBelow
  <2>3. Framed(stack', f, sp')
    BY <1>1, <2>1, <2>2, FrameKept
  <2>. QED  BY <1>2, <2>1, <2>2, <2>3
<1>. QED  BY <1>3, <1>4

\* A return ends with the chain of the caller.
LEMMA ReturnFramed ==
  ASSUME NEW stk \in [Cell -> Word], NEW f \in Cell, f # BaseFrame,
         NEW F, Chain(F, stk, f),
         NEW data \in [Globals -> Word], NEW count \in Word, NEW v \in Word,
         z_ret(stk, data, f, count, v),
         token \in Word \cup {None}, catcher \in Cell \cup {None},
         (token = None <=> catcher = None)
  PROVE  /\ stack' \in [Cell -> Word]
         /\ sp' \in 0 .. StackSize
         /\ fp' = stk[f + 2] /\ fp' \in Cell /\ fp' > f
         /\ frame_count' = (count - 1) % WordSize
         /\ frame_count' \in Word
         /\ pc' \in Nat
         /\ datap' \in [Globals -> Word]
         /\ token' \in Word \cup {None} /\ catcher' \in Cell \cup {None}
         /\ (token' = None <=> catcher' = None)
         /\ Framed(stack', fp', sp')
         /\ \A c \in Cell : c > fp' => stack'[c] = stk[c]
<1>. DEFINE caller == stk[f + 2]
            back   == stk[f + 3] + stk[f + 4] * PageSize
<1>1. f \in F
  BY DEF Chain
<1>2. /\ f + 4 \in Cell /\ caller \in Cell
      /\ VarsOfFrame(stk, caller) \in 0 .. 15
      /\ f + 4 + VarsOfFrame(stk, caller) <= caller
      /\ Chain({h \in F : h >= caller}, stk, caller)
  BY <1>1, ChainOfCaller
<1>3. back \in Nat
  <2>1. f + 3 \in Cell /\ f + 4 \in Cell
    BY <1>2, Sizes
  <2>2. stk[f + 3] \in Nat /\ stk[f + 4] \in Nat
    <3>1. stk[f + 3] \in Word /\ stk[f + 4] \in Word
      BY <2>1
    <3>. QED  BY <3>1, WordsAreNumbers
  <2>3. PageSize \in Nat
    BY CallStackAssumption, Constants
  <2>. QED  BY <2>2, <2>3
<1>4. f + 5 \in 1 .. StackSize /\ Framed(stk, caller, f + 5)
  <2>. DEFINE n == VarsOfFrame(stk, caller)
  <2>. HIDE DEF n, caller
  <2>1. f + 5 \in 1 .. StackSize /\ f + 5 <= caller + 1 - n
    <3>1. f + 4 \in 0 .. StackSize - 1 /\ f \in Nat /\ caller \in Nat
      BY <1>2, Sizes
    <3>2. n \in 0 .. 15 /\ f + 4 + n <= caller
      BY <1>2 DEF n
    <3>3. StackSize \in Nat
      BY Sizes
    <3>. QED  BY <3>1, <3>2, <3>3
  <2>. QED  BY <1>2, <2>1 DEF Framed, n
<1>5. (count - 1) % WordSize \in Word
  BY Constants DEF Word
<1>6. /\ fp' = caller
      /\ frame_count' = (count - 1) % WordSize
      /\ token' \in Word \cup {None} /\ catcher' \in Cell \cup {None}
      /\ (token' = None <=> catcher' = None)
  BY DEF z_ret, ghosts
<1>7. CASE TypeOf(stk[f + 1]) = FUNCTION
  <2>1. store_operand(stk, f + 5, caller, data, back, v)
    BY <1>7 DEF z_ret
  <2>. HIDE DEF back, caller
  <2>2. f + 5 \in 0 .. StackSize /\ f + 5 >= 1
    BY <1>4, Constants
  <2>3. /\ stack' \in [Cell -> Word]
        /\ sp' \in 0 .. StackSize
        /\ pc' \in Nat
        /\ datap' \in [Globals -> Word]
        /\ Framed(stack', caller, sp')
        /\ \A c \in Cell : c > caller => stack'[c] = stk[c]
    BY <1>2, <1>3, <1>4, <2>1, <2>2, StoreOperand
  <2>4. caller > f
    BY <1>2, Sizes
  <2>. QED  BY <1>2, <1>5, <1>6, <2>3, <2>4 DEF caller
<1>8. CASE TypeOf(stk[f + 1]) # FUNCTION
  <2>1. sp' = f + 5 /\ pc' = back /\ stack' = stk /\ datap' = data
    BY <1>8 DEF z_ret
  <2>2. caller > f /\ sp' \in 0 .. StackSize
    <3>. HIDE DEF caller, back
    <3>1. f \in Nat /\ caller \in Nat /\ VarsOfFrame(stk, caller) \in Nat
      BY <1>2, Sizes
    <3>2. f + 4 + VarsOfFrame(stk, caller) <= caller
      BY <1>2
    <3>. DEFINE n == VarsOfFrame(stk, caller)
    <3>. HIDE DEF n
    <3>3. caller > f
      BY <3>1, <3>2 DEF n
    <3>4. f + 5 \in 1 .. StackSize
      BY <1>4
    <3>. QED  BY <2>1, <3>3, <3>4, Sizes
  <2>3. Framed(stack', caller, sp') /\ \A c \in Cell : c > fp' => stack'[c] = stk[c]
    BY <1>4, <2>1
  <2>4. stack' \in [Cell -> Word] /\ pc' \in Nat /\ datap' \in [Globals -> Word]
    BY <1>3, <2>1
  <2>. HIDE DEF back
  <2>. QED  BY <1>2, <1>5, <1>6, <2>2, <2>3, <2>4
<1>. QED  BY <1>7, <1>8
-----------------------------------------------------------------------------
(* The invariant: the initial state, and steps in general *)

LEMMA InitInv == Init => Inv
<1>. SUFFICES ASSUME Init PROVE Inv
  OBVIOUS
<1>1. {0, 1, 2} \subseteq Word /\ StartPC \in Nat
  BY StoryAssumption
<1>2. TypeOK
  <2>1. stack \in [Cell -> Word] /\ datap \in [Globals -> Word]
    BY <1>1 DEF Init, StartState
  <2>2. BaseFrame \in Cell /\ StackSize \in 0 .. StackSize
    BY Sizes
  <2>. QED  BY <1>1, <2>1, <2>2 DEF Init, StartState, TypeOK
<1>3. Framed(stack, fp, sp)
  <2>1. fp = BaseFrame /\ sp = StackSize
    BY DEF Init, StartState
  <2>2. Chain({BaseFrame}, stack, fp)
    BY <2>1, Constants, Sizes DEF Chain
  <2>3. VarsOfFrame(stack, fp) = 0
    BY <2>1 DEF VarsOfFrame
  <2>. QED  BY <2>1, <2>2, <2>3, Sizes DEF Framed
<1>4. UndoFramed
  BY DEF Init, UndoFramed
<1>5. (token = None <=> catcher = None)
  BY DEF Init
<1>. QED  BY <1>2, <1>3, <1>4, <1>5 DEF Inv

\* What a step must do to keep the invariant if it does not save for undo.
LEMMA MachineStep ==
  ASSUME Inv, UNCHANGED undo,
         stack' \in [Cell -> Word], sp' \in 0 .. StackSize, fp' \in Cell,
         frame_count' \in Word, pc' \in Nat, datap' \in [Globals -> Word],
         status' \in {"run", "quit", "fatal", "undefined"},
         token' \in Word \cup {None}, catcher' \in Cell \cup {None},
         (token' = None <=> catcher' = None),
         Framed(stack', fp', sp')
  PROVE  Inv'
<1>1. TypeOK'
  BY DEF Inv, TypeOK, undo
<1>2. UndoFramed'
  <2>1. UndoFramed /\ undo_valid' = undo_valid /\ undo_stack' = undo_stack
        /\ undo_token' = undo_token
    BY DEF Inv, undo
  <2>. QED  BY <2>1 DEF UndoFramed
<1>. QED  BY <1>1, <1>2 DEF Inv

\* The current frame: its locals and its evaluation stack lie in the array.
LEMMA CurrentFrame ==
  ASSUME Inv
  PROVE  /\ stack \in [Cell -> Word]
         /\ fp \in Cell /\ fp \in Nat
         /\ sp \in 0 .. StackSize /\ sp \in Nat
         /\ VarsOfFrame(stack, fp) \in 0 .. 15
         /\ sp <= fp + 1 - VarsOfFrame(stack, fp)
         /\ datap \in [Globals -> Word]
         /\ frame_count \in Word
         /\ status \in {"run", "quit", "fatal", "undefined"}
         /\ token \in Word \cup {None} /\ catcher \in Cell \cup {None}
         /\ (token = None <=> catcher = None)
<1>1. stack \in [Cell -> Word] /\ fp \in Cell /\ sp \in 0 .. StackSize
  BY DEF Inv, TypeOK
<1>2. fp \in Nat /\ sp \in Nat
  BY <1>1, Constants
<1>3. VarsOfFrame(stack, fp) \in 0 .. 15
  BY <1>1, VarsOfFrameInRange
<1>. QED  BY <1>1, <1>2, <1>3 DEF Inv, TypeOK, Framed

\* The top of the evaluation stack is there to be read and written.
LEMMA TopOfStack ==
  ASSUME Inv, LegalVar(stack, fp, sp, 0)
  PROVE  /\ sp \in Cell /\ sp <= fp /\ stack[sp] \in Word
         /\ sp + 1 <= fp + 1 - VarsOfFrame(stack, fp)
<1>1. EvalSize(stack, fp, sp) > 0
  BY DEF LegalVar, LocalNumbers
<1>. DEFINE n == VarsOfFrame(stack, fp)
<1>2. n \in 0 .. 15 /\ fp \in 0 .. StackSize - 1 /\ sp \in Nat
  BY CurrentFrame, Sizes
<1>3. fp + 1 - n - sp > 0
  BY <1>1 DEF EvalSize
<1>. HIDE DEF n
<1>4. sp <= fp /\ sp \in 0 .. StackSize - 1 /\ sp + 1 <= fp + 1 - n
  BY <1>2, <1>3, Sizes
<1>5. sp \in Cell
  BY <1>4, Sizes
<1>. QED  BY <1>4, <1>5, CurrentFrame DEF n

LEMMA LoadedWord ==
  ASSUME Inv, NEW n, LegalVar(stack, fp, sp, n)
  PROVE  load_variable(n) \in Word
<1>1. CASE n = 0
  BY <1>1, TopOfStack DEF load_variable, LocalNumbers
<1>2. CASE n \in LocalNumbers
  <2>1. n <= VarsOfFrame(stack, fp)
    BY <1>2 DEF LegalVar, LocalNumbers
  <2>. DEFINE m == VarsOfFrame(stack, fp)
  <2>2. /\ m \in 0 .. 15 /\ n <= m /\ n \in 1 .. 15
        /\ fp \in 0 .. StackSize - 1 /\ sp \in Nat /\ sp <= fp + 1 - m
    BY <2>1, <1>2, CurrentFrame, Sizes DEF LocalNumbers
  <2>. HIDE DEF m
  <2>3. fp - (n - 1) \in 0 .. StackSize - 1
    BY <2>2, Sizes
  <2>4. fp - (n - 1) \in Cell
    BY <2>3, Sizes
  <2>5. load_variable(n) = stack[fp - (n - 1)]
    BY <1>2 DEF load_variable, LocalNumbers
  <2>. QED  BY <2>4, <2>5, CurrentFrame
<1>3. CASE n # 0 /\ n \notin LocalNumbers
  <2>1. n \in Globals
    BY <1>3 DEF LegalVar
  <2>2. load_variable(n) = datap[n]
    BY <1>3 DEF load_variable
  <2>. QED  BY <2>1, <2>2, CurrentFrame
<1>. QED  BY <1>1, <1>2, <1>3
-----------------------------------------------------------------------------
(* Steps that stay in the frame *)

\* A step that keeps fp and writes at or below it.
LEMMA SameFrameStep ==
  ASSUME Inv, UNCHANGED <<fp, frame_count, undo, status>>,
         stack' \in [Cell -> Word], sp' \in 0 .. StackSize,
         pc' \in Nat, datap' \in [Globals -> Word],
         token' \in Word \cup {None}, catcher' \in Cell \cup {None},
         (token' = None <=> catcher' = None),
         Framed(stack', fp, sp')
  PROVE  Inv'
BY CurrentFrame, MachineStep

\* An instruction with a result for the current frame.
LEMMA ResultStep ==
  ASSUME Inv, NEW at \in Sites, NEW v \in Word, TakesResult(at),
         store_operand(stack, sp, fp, datap, at, v)
  PROVE  /\ stack' \in [Cell -> Word]
         /\ sp' \in 0 .. StackSize
         /\ pc' \in Nat
         /\ datap' \in [Globals -> Word]
         /\ Framed(stack', fp, sp')
         /\ \A c \in Cell : c > fp => stack'[c] = stack[c]
<1>1. ResultVar[at] = 0 => sp >= 1
  <2>. SUFFICES ASSUME ResultVar[at] = 0 PROVE sp >= 1
    OBVIOUS
  <2>1. sp - 1 >= Reserve
    BY DEF TakesResult, RoomToPush, Room
  <2>. QED  BY <2>1, CurrentFrame, Sizes
<1>2. at \in Nat
  BY StoryAssumption
<1>3. Framed(stack, fp, sp)
  BY DEF Inv
<1>. QED  BY <1>1, <1>2, <1>3, CurrentFrame, StoreOperand

LEMMA LoadInv ==
  ASSUME Inv, NEW at \in Sites, NEW n \in Variables, z_load(at, n)
  PROVE  Inv' /\ \A c \in Cell : c > fp => stack'[c] = stack[c]
<1>1. load_variable(n) \in Word
  BY LoadedWord DEF z_load
<1>2. TakesResult(at) /\ store_operand(stack, sp, fp, datap, at, load_variable(n))
  BY DEF z_load
<1>3. UNCHANGED <<fp, frame_count, undo, status>> /\ UNCHANGED <<token, catcher>>
  BY DEF z_load, ghosts
<1>. QED  BY <1>1, <1>2, <1>3, ResultStep, CurrentFrame, SameFrameStep

LEMMA CallZeroInv ==
  ASSUME Inv, NEW at \in Sites, call_zero(at)
  PROVE  Inv' /\ \A c \in Cell : c > fp => stack'[c] = stack[c]
<1>1. FALSE_WORD \in Word
  BY StoryAssumption DEF FALSE_WORD
<1>2. TakesResult(at) /\ store_operand(stack, sp, fp, datap, at, FALSE_WORD)
  BY DEF call_zero
<1>3. UNCHANGED <<fp, frame_count, undo, status>> /\ UNCHANGED <<token, catcher>>
  BY DEF call_zero, ghosts
<1>. QED  BY <1>1, <1>2, <1>3, ResultStep, CurrentFrame, SameFrameStep

LEMMA CatchStepInv ==
  ASSUME Inv, NEW at \in Sites, z_catch(at)
  PROVE  Inv' /\ \A c \in Cell : c > fp => stack'[c] = stack[c]
<1>1. frame_count \in Word /\ fp \in Cell
  BY CurrentFrame
<1>2. TakesResult(at) /\ store_operand(stack, sp, fp, datap, at, frame_count)
  BY DEF z_catch
<1>3. UNCHANGED <<fp, frame_count, undo, status>>
  BY DEF z_catch
<1>4. /\ token' \in Word \cup {None} /\ catcher' \in Cell \cup {None}
      /\ (token' = None <=> catcher' = None)
  BY <1>1, Constants, CallStackAssumption DEF z_catch
<1>. QED  BY <1>1, <1>2, <1>3, <1>4, ResultStep, SameFrameStep

LEMMA PushInv ==
  ASSUME Inv, NEW v \in Values, z_push(v)
  PROVE  Inv' /\ \A c \in Cell : c > fp => stack'[c] = stack[c]
<1>1. v \in Word
  BY StoryAssumption
<1>2. sp' = sp - 1 /\ stack' = [stack EXCEPT ![sp - 1] = v] /\ sp - 1 >= Reserve
  BY DEF z_push, RoomToPush, Room
<1>3. UNCHANGED <<fp, frame_count, undo, status, token, catcher, pc, datap>>
  BY DEF z_push, ghosts
<1>4. sp - 1 <= fp /\ sp - 1 \in 0 .. StackSize /\ sp \in Int /\ sp - 1 \in Int
      /\ sp - 1 <= fp + 1 - VarsOfFrame(stack, fp)
  <2>. DEFINE n == VarsOfFrame(stack, fp)
  <2>1. n \in 0 .. 15 /\ fp \in Nat /\ sp \in 0 .. StackSize /\ sp <= fp + 1 - n
    BY CurrentFrame
  <2>. HIDE DEF n
  <2>2. sp - 1 >= 0 /\ sp \in Int /\ sp - 1 <= fp /\ sp - 1 <= fp + 1 - n
    BY <1>2, <2>1, Sizes
  <2>. QED  BY <2>1, <2>2, Sizes DEF n
<1>5. \A c \in Cell : c > fp => c # sp - 1
  BY <1>4, CurrentFrame, Sizes
<1>6. stack' \in [Cell -> Word] /\ \A c \in Cell : c > fp => stack'[c] = stack[c]
  BY <1>1, <1>2, <1>5, CurrentFrame
<1>7. Framed(stack, fp, sp) /\ pc \in Nat
  BY DEF Inv, TypeOK
<1>8. Framed(stack', fp, sp')
  BY <1>2, <1>4, <1>6, <1>7, CurrentFrame, FrameKept
<1>. QED  BY <1>2, <1>3, <1>4, <1>6, <1>7, <1>8, CurrentFrame, SameFrameStep

LEMMA DiscardInv ==
  ASSUME Inv, Discard
  PROVE  Inv' /\ \A c \in Cell : c > fp => stack'[c] = stack[c]
<1>1. LegalVar(stack, fp, sp, 0) /\ sp' = sp + 1
  BY DEF Discard
<1>2. UNCHANGED <<stack, fp, frame_count, undo, status, token, catcher, pc, datap>>
  BY DEF Discard, ghosts
<1>3. sp \in Cell /\ sp + 1 <= fp + 1 - VarsOfFrame(stack, fp)
  BY <1>1, TopOfStack
<1>4. sp + 1 \in 0 .. StackSize /\ sp \in Int /\ sp + 1 \in Int
  BY <1>3, Sizes
<1>5. Framed(stack, fp, sp) /\ pc \in Nat
  BY DEF Inv, TypeOK
<1>6. Framed(stack, fp, sp + 1)
  BY <1>3, <1>4, <1>5, CurrentFrame, FrameKept
<1>. QED  BY <1>1, <1>2, <1>4, <1>5, <1>6, CurrentFrame, SameFrameStep
\* A variable of the frame is written in place.
LEMMA StoreStep ==
  ASSUME Inv, NEW n \in Variables, NEW v \in Word, LegalVar(stack, fp, sp, n)
  PROVE  /\ z_store(stack, sp, fp, n, v) \in [Cell -> Word]
         /\ SetGlobal(datap, n, v) \in [Globals -> Word]
         /\ Framed(z_store(stack, sp, fp, n, v), fp, sp)
         /\ \A c \in Cell : c > fp => z_store(stack, sp, fp, n, v)[c] = stack[c]
<1>1. n = 0 => sp <= fp
  BY TopOfStack
<1>2. /\ z_store(stack, sp, fp, n, v) \in [Cell -> Word]
      /\ \A c \in Cell : c > fp => z_store(stack, sp, fp, n, v)[c] = stack[c]
  <2>1. sp \in Int
    BY CurrentFrame
  <2>2. stack \in [Cell -> Word] /\ fp \in Cell
    BY CurrentFrame
  <2>. QED  BY <1>1, <2>1, <2>2, StoreBelow
<1>3. Framed(stack, fp, sp) /\ sp \in Int
  BY CurrentFrame DEF Inv
<1>4. Framed(z_store(stack, sp, fp, n, v), fp, sp)
  BY <1>2, <1>3, CurrentFrame, FrameKept
<1>. QED  BY <1>2, <1>4, CurrentFrame, GlobalsTyped

LEMMA StoreVariableInv ==
  ASSUME Inv, NEW n \in Variables, NEW v \in Values, StoreVariable(n, v)
  PROVE  Inv' /\ \A c \in Cell : c > fp => stack'[c] = stack[c]
<1>1. v \in Word
  BY StoryAssumption
<1>2. /\ LegalVar(stack, fp, sp, n)
      /\ stack' = z_store(stack, sp, fp, n, v) /\ datap' = SetGlobal(datap, n, v)
      /\ UNCHANGED <<sp, fp, frame_count, pc, undo, token, catcher, status>>
  BY DEF StoreVariable, ghosts
<1>3. pc \in Nat
  BY DEF Inv, TypeOK
<1>. QED  BY <1>1, <1>2, <1>3, StoreStep, CurrentFrame, SameFrameStep

LEMMA CountedWord ==
  ASSUME Inv, NEW n \in Variables, NEW by \in {1, -1}, CanCount(n, by)
  PROVE  Counted(n, by) \in Word
<1>1. load_variable(n) \in Word
  BY LoadedWord DEF CanCount
<1>2. load_variable(n) \in Nat /\ WordSize \in Nat \ {0}
  BY <1>1, WordsAreNumbers, StoryAssumption
<1>. QED  BY <1>2 DEF Counted, Word

LEMMA IncInv ==
  ASSUME Inv, NEW n \in Variables, NEW by \in {1, -1}, z_inc(n, by)
  PROVE  Inv' /\ \A c \in Cell : c > fp => stack'[c] = stack[c]
<1>1. LegalVar(stack, fp, sp, n) /\ Counted(n, by) \in Word
  BY CountedWord DEF z_inc, CanCount
<1>2. /\ stack' = z_store(stack, sp, fp, n, Counted(n, by))
      /\ datap' = SetGlobal(datap, n, Counted(n, by))
      /\ UNCHANGED <<sp, fp, frame_count, pc, undo, token, catcher, status>>
  BY DEF z_inc, ghosts
<1>3. pc \in Nat
  BY DEF Inv, TypeOK
<1>. QED  BY <1>1, <1>2, <1>3, StoreStep, CurrentFrame, SameFrameStep

LEMMA PullInv ==
  ASSUME Inv, NEW n \in Variables, z_pull(n)
  PROVE  Inv' /\ \A c \in Cell : c > fp => stack'[c] = stack[c]
<1>. DEFINE v == stack[sp]
<1>1. /\ LegalVar(stack, fp, sp, 0) /\ LegalVar(stack, fp, sp + 1, n)
      /\ sp' = sp + 1
      /\ stack' = z_store(stack, sp + 1, fp, n, v)
      /\ datap' = SetGlobal(datap, n, v)
      /\ UNCHANGED <<fp, frame_count, pc, undo, token, catcher, status>>
  BY DEF z_pull, ghosts
<1>2. sp \in Cell /\ v \in Word /\ sp + 1 <= fp + 1 - VarsOfFrame(stack, fp)
  BY <1>1, TopOfStack
<1>3. sp + 1 \in 0 .. StackSize /\ sp \in Int /\ sp + 1 \in Int
  BY <1>2, Sizes
<1>4. n = 0 => sp + 1 <= fp
  <2>. SUFFICES ASSUME n = 0 PROVE sp + 1 <= fp
    OBVIOUS
  <2>1. fp + 1 - VarsOfFrame(stack, fp) - (sp + 1) > 0
    BY <1>1 DEF LegalVar, LocalNumbers, EvalSize
  <2>. DEFINE m == VarsOfFrame(stack, fp)
  <2>2. m \in 0 .. 15 /\ fp \in Nat
    BY CurrentFrame
  <2>. HIDE DEF m
  <2>. QED  BY <1>3, <2>1, <2>2 DEF m
<1>5. /\ stack' \in [Cell -> Word]
      /\ \A c \in Cell : c > fp => stack'[c] = stack[c]
  <2>1. stack \in [Cell -> Word] /\ fp \in Cell
    BY CurrentFrame
  <2>2. stack' = z_store(stack, sp + 1, fp, n, v)
    BY <1>1
  <2>. HIDE DEF v
  <2>. QED  BY <1>2, <1>3, <1>4, <2>1, <2>2, StoreBelow
<1>6. datap' \in [Globals -> Word] /\ pc \in Nat /\ Framed(stack, fp, sp)
  BY <1>1, <1>2, CurrentFrame, GlobalsTyped DEF Inv, TypeOK
<1>7. Framed(stack', fp, sp + 1)
  BY <1>2, <1>3, <1>5, <1>6, CurrentFrame, FrameKept
<1>. QED  BY <1>1, <1>3, <1>5, <1>6, <1>7, CurrentFrame, SameFrameStep

-----------------------------------------------------------------------------
(* Steps that leave the frame *)

LEMMA RestartInv ==
  ASSUME Inv, z_restart
  PROVE  Inv'
<1>1. {0, 1, 2} \subseteq Word /\ StartPC \in Nat
  BY StoryAssumption
<1>2. /\ fp' = BaseFrame /\ sp' = StackSize /\ stack' = stack
      /\ frame_count' = 0 /\ pc' = StartPC
      /\ datap' = [g \in Globals |-> 0]
      /\ token' = None /\ catcher' = None
      /\ UNCHANGED <<undo, status>>
  BY DEF z_restart
<1>3. BaseFrame \in Cell /\ StackSize \in 0 .. StackSize
      /\ StackSize <= BaseFrame + 1 - 0
  BY Sizes
<1>4. Framed(stack', fp', sp')
  <2>1. Chain({BaseFrame}, stack', fp')
    BY <1>2, <1>3, Sizes DEF Chain
  <2>2. VarsOfFrame(stack', fp') = 0
    BY <1>2 DEF VarsOfFrame
  <2>. QED  BY <1>2, <1>3, <2>1, <2>2 DEF Framed
<1>5. datap' \in [Globals -> Word] /\ stack' \in [Cell -> Word]
  BY <1>1, <1>2, CurrentFrame
<1>. QED  BY <1>1, <1>2, <1>3, <1>4, <1>5, CurrentFrame, MachineStep

\* The frame a call makes is chained to the one that was current.
LEMMA CallInv ==
  ASSUME Inv, NEW at \in Sites, NEW r \in Routines, NEW type \in CallTypes,
         NEW k \in 0 .. MaxArgs, NEW args \in [1 .. k -> Values],
         z_call(at, r, args, type)
  PROVE  /\ Inv' /\ \A c \in Cell : c > fp => stack'[c] = stack[c]
         /\ fp' + 4 <= fp /\ stack'[fp' + 2] = fp
<1>. DEFINE n == NLocals[r]
            h == Header(type, n, Len(args))
            m == VarsOfFrame(stack, fp)
<1>1. /\ sp - (4 + n) >= Reserve
      /\ stack' = CallStackWords(at, r, args, type)
      /\ fp' = sp - 5 /\ sp' = sp - 4 - n
      /\ frame_count' = (frame_count + 1) % WordSize
      /\ pc' = Entry[r]
      /\ UNCHANGED <<datap, undo, token, catcher, status>>
  BY DEF z_call, Room, ghosts
<1>2. n \in 0 .. 15 /\ Entry[r] \in Nat /\ at \in Nat
  BY StoryAssumption
<1>3. Len(args) = k /\ k \in 0 .. 7
  BY StoryAssumption
<1>4. /\ h \in Word /\ VarsOf(h) = n /\ TypeOf(h) = type
      /\ TypeOf(h) \in CallTypes /\ ArgsOf(h) \in 0 .. 7
  <2>1. type \in {0, 1}
    BY DEF CallTypes, FUNCTION, PROCEDURE
  <2>2. h \in Word /\ VarsOf(h) = n /\ TypeOf(h) = type /\ ArgsOf(h) = Len(args)
    BY <1>2, <1>3, <2>1, HeaderParts
  <2>. QED  BY <1>3, <2>2
<1>5. /\ m \in 0 .. 15 /\ fp \in 0 .. StackSize - 1 /\ sp \in 0 .. StackSize
      /\ sp <= fp + 1 - m
  BY CurrentFrame, Sizes
<1>. HIDE DEF m, n
<1>6. /\ sp - 5 \in 0 .. StackSize - 2 /\ sp - 4 - n \in 0 .. StackSize
      /\ sp - 1 <= fp /\ sp - 1 + m <= fp /\ sp \in Int
  <2>1. sp - (4 + n) >= Reserve /\ Reserve \in Nat /\ Reserve >= 1 /\ StackSize \in Nat
    BY <1>1, Sizes
  <2>2. n \in 0 .. 15
    BY <1>2
  <2>. QED  BY <1>5, <2>1, <2>2
<1>7. Header(type, NLocals[r], Len(args)) = h
  BY DEF n
<1>8. stack' \in [Cell -> Word]
  <2>1. at \div PageSize \in Word /\ at % PageSize \in Word /\ fp \in Word
    BY AddressParts, CurrentFrame, Constants
  <2>2. \A c \in Cell : stack[c] \in Word
    BY CurrentFrame
  <2>3. ASSUME NEW c \in Cell, c < sp - 4, c >= sp - 4 - NLocals[r]
        PROVE  /\ sp - 4 - c \in 1 .. n
               /\ sp - 4 - c <= Len(args) => args[sp - 4 - c] \in Word
               /\ LocalDefault(r, sp - 4 - c) \in Word
    <3>1. sp - 4 - c \in 1 .. n
      <4>1. c \in Int /\ sp \in Int /\ n \in 0 .. 15
        BY <1>2, <1>6, Sizes
      <4>2. c < sp - 4 /\ c >= sp - 4 - n
        BY <2>3 DEF n
      <4>. QED  BY <4>1, <4>2
    <3>2. sp - 4 - c <= Len(args) => args[sp - 4 - c] \in Word
      BY <1>2, <1>3, <3>1, StoryAssumption
    <3>3. LocalDefault(r, sp - 4 - c) \in Word
      BY <3>1, StoryAssumption DEF LocalDefault, n
    <3>. QED  BY <3>1, <3>2, <3>3
  <2>. DEFINE w(c) ==
         CASE c = sp - 1 -> at \div PageSize
           [] c = sp - 2 -> at % PageSize
           [] c = sp - 3 -> fp
           [] c = sp - 4 -> Header(type, NLocals[r], Len(args))
           [] c < sp - 4 /\ c >= sp - 4 - NLocals[r] ->
                LET i == sp - 4 - c IN
                IF i <= Len(args) THEN args[i] ELSE LocalDefault(r, i)
           [] OTHER -> stack[c]
  <2>4. ASSUME NEW c \in Cell
        PROVE  w(c) \in Word
    <3>1. c \in Int /\ sp \in Int /\ NLocals[r] \in Int
      <4>1. c \in Int
        BY Sizes
      <4>2. NLocals[r] \in 0 .. 15
        BY <1>2 DEF n
      <4>. QED  BY <1>6, <4>1, <4>2
    <3>2. CASE c = sp - 1
      BY <2>1, <3>1, <3>2
    <3>3. CASE c = sp - 2
      BY <2>1, <3>1, <3>3
    <3>4. CASE c = sp - 3
      BY <2>1, <3>1, <3>4
    <3>5. CASE c = sp - 4
      BY <1>4, <1>7, <3>1, <3>5
    <3>6. CASE c < sp - 4 /\ c >= sp - 4 - NLocals[r]
      BY <2>3, <3>1, <3>6
    <3>7. CASE c # sp - 1 /\ c # sp - 2 /\ c # sp - 3 /\ c # sp - 4
               /\ ~ (c < sp - 4 /\ c >= sp - 4 - NLocals[r])
      BY <2>2, <3>7
    <3>. QED  BY <3>2, <3>3, <3>4, <3>5, <3>6, <3>7
  <2>5. stack' = [c \in Cell |-> w(c)]
    BY <1>1 DEF CallStackWords
  <2>. HIDE DEF w
  <2>. QED  BY <2>4, <2>5
<1>9. \A c \in Cell : c > fp => stack'[c] = stack[c]
  <2>. SUFFICES ASSUME NEW c \in Cell, c > fp
                PROVE  stack'[c] = stack[c]
    OBVIOUS
  <2>1. c \in Int /\ c > sp - 1 /\ c # sp - 1 /\ c # sp - 2 /\ c # sp - 3 /\ c # sp - 4
        /\ ~ (c < sp - 4)
    BY <1>5, <1>6, Sizes
  <2>. QED  BY <1>1, <2>1 DEF CallStackWords
<1>10. /\ stack'[sp - 3] = fp /\ stack'[sp - 4] = h
       /\ stack'[sp - 1] = at \div PageSize /\ stack'[sp - 2] = at % PageSize
  <2>1. sp - 3 \in Cell /\ sp - 4 \in Cell /\ sp - 1 \in Cell /\ sp - 2 \in Cell
    <3>1. sp - 5 \in 0 .. StackSize - 2 /\ sp - 1 <= fp /\ fp \in 0 .. StackSize - 1
          /\ sp \in Int /\ StackSize \in Nat
      BY <1>5, <1>6, Sizes
    <3>2. sp - 3 \in 0 .. StackSize - 1 /\ sp - 4 \in 0 .. StackSize - 1
          /\ sp - 1 \in 0 .. StackSize - 1 /\ sp - 2 \in 0 .. StackSize - 1
      BY <3>1
    <3>. QED  BY <3>2, Sizes
  <2>. QED  BY <1>1, <1>6, <1>7, <2>1 DEF CallStackWords
<1>11. Framed(stack', fp', sp')
  <2>1. PICK F : Chain(F, stack, fp)
    BY DEF Inv, Framed
  <2>2. Chain(F, stack', fp) /\ VarsOfFrame(stack', fp) = m
    BY <1>8, <1>9, <2>1, ChainAbove, CurrentFrame DEF m
  <2>. DEFINE f == sp - 5
  <2>3. f \in Cell /\ f < fp /\ f # BaseFrame /\ f + 2 = sp - 3 /\ f + 1 = sp - 4
        /\ f + 4 = sp - 1
    <3>1. sp - 5 \in 0 .. StackSize - 2 /\ sp - 1 <= fp /\ fp \in 0 .. StackSize - 1
          /\ sp \in Int /\ StackSize \in Nat
      BY <1>5, <1>6, Sizes
    <3>2. f \in 0 .. StackSize - 2 /\ f < fp /\ f + 2 = sp - 3 /\ f + 1 = sp - 4
          /\ f + 4 = sp - 1
      BY <3>1
    <3>. QED  BY <3>1, <3>2, Sizes
  <2>4. VarsOfFrame(stack', f) = n
    BY <1>4, <1>10, <2>3 DEF VarsOfFrame
  <2>5. Chain(F \cup {f}, stack', f)
    <3>1. F \subseteq Cell /\ BaseFrame \in F /\ fp \in F
      BY <2>2 DEF Chain
    <3>2. \A g \in F \cup {f} : g >= f
      BY <1>5, <2>2, <2>3, <3>1, Sizes DEF Chain
    <3>3. ASSUME NEW g \in (F \cup {f}) \ {BaseFrame}
          PROVE  /\ stack'[g + 2] \in F \cup {f}
                 /\ g + 4 + VarsOfFrame(stack', stack'[g + 2]) <= stack'[g + 2]
                 /\ ResultFits(stack', g)
                 /\ CallFits(stack', g)
      <4>1. CASE g \in F
        BY <2>2, <4>1 DEF Chain
      <4>2. CASE g = f
        <5>1. stack'[g + 2] = fp /\ VarsOfFrame(stack', fp) = m /\ g + 4 = sp - 1
          BY <1>10, <2>2, <2>3, <4>2
        <5>2. g + 4 + m <= fp
          BY <1>6, <5>1
        <5>3. ReturnsTo(stack', f) = at
          <6>1. f + 3 = sp - 2 /\ f + 4 = sp - 1
            BY <1>6
          <6>. QED  BY <1>10, <6>1, AddressJoined DEF ReturnsTo
        <5>4. TypeOf(stack'[f + 1]) = type
          BY <1>4, <1>10, <2>3
        <5>5. type = FUNCTION => Storable(ResultVar[at], m)
          BY StoryAssumption DEF z_call, TakesResult, LegalVar, Storable, m
        <5>6. ResultFits(stack', g)
          BY <4>2, <5>1, <5>3, <5>4, <5>5 DEF ResultFits
        <5>7. CallFits(stack', g)
          <6>1. f + 3 = sp - 2 /\ f + 1 = sp - 4
            BY <1>6
          <6>2. stack'[f + 1] = h /\ stack'[f + 3] = at % PageSize
            BY <1>10, <6>1
          <6>3. at % PageSize < PageSize
            BY <1>2, CallStackAssumption, StoryAssumption
          <6>. QED  BY <1>4, <4>2, <6>2, <6>3 DEF CallFits
        <5>. QED  BY <3>1, <5>1, <5>2, <5>6, <5>7
      <4>. QED  BY <4>1, <4>2
    <3>. QED  BY <2>3, <3>1, <3>2, <3>3 DEF Chain
  <2>6. sp' <= fp' + 1 - n
    <3>1. n \in Int /\ sp \in Int /\ fp' = sp - 5 /\ sp' = sp - 4 - n
      BY <1>1, <1>2, <1>6
    <3>. QED  BY <3>1
  <2>. QED  BY <1>1, <2>4, <2>5, <2>6 DEF Framed
<1>12. frame_count' \in Word
  <2>1. frame_count \in Nat /\ WordSize \in Nat \ {0}
    BY CurrentFrame, WordsAreNumbers, StoryAssumption
  <2>. QED  BY <1>1, <2>1 DEF Word
<1>13. fp' \in Cell /\ sp' \in 0 .. StackSize
  BY <1>1, <1>6, Sizes DEF n
<1>14. fp' + 4 <= fp /\ stack'[fp' + 2] = fp
  <2>1. fp' + 4 = sp - 1 /\ fp' + 2 = sp - 3
    BY <1>1, <1>6
  <2>. QED  BY <1>6, <1>10, <2>1
<1>15. Inv'
  BY <1>1, <1>2, <1>8, <1>9, <1>11, <1>12, <1>13, CurrentFrame, MachineStep
<1>. QED  BY <1>9, <1>14, <1>15
\* A return from the current frame, whatever was written in it before.
LEMMA ReturnStep ==
  ASSUME Inv, fp # BaseFrame,
         NEW stk \in [Cell -> Word], \A c \in Cell : c > fp => stk[c] = stack[c],
         NEW data \in [Globals -> Word], NEW v \in Word,
         z_ret(stk, data, fp, frame_count, v),
         UNCHANGED <<undo, status>>
  PROVE  Inv' /\ fp' > fp
<1>1. PICK F : Chain(F, stack, fp)
  BY DEF Inv, Framed
<1>2. stack \in [Cell -> Word] /\ fp \in Cell /\ frame_count \in Word
      /\ token \in Word \cup {None} /\ catcher \in Cell \cup {None}
      /\ (token = None <=> catcher = None)
  BY CurrentFrame
<1>3. Chain(F, stk, fp)
  BY <1>1, <1>2, ChainAbove
<1>4. /\ stack' \in [Cell -> Word]
      /\ sp' \in 0 .. StackSize
      /\ fp' \in Cell /\ fp' > fp
      /\ frame_count' \in Word
      /\ pc' \in Nat
      /\ datap' \in [Globals -> Word]
      /\ token' \in Word \cup {None} /\ catcher' \in Cell \cup {None}
      /\ (token' = None <=> catcher' = None)
      /\ Framed(stack', fp', sp')
  BY <1>2, <1>3, ReturnFramed
<1>5. UNCHANGED undo /\ status' \in {"run", "quit", "fatal", "undefined"}
  BY CurrentFrame
<1>. QED  BY <1>4, <1>5, MachineStep

LEMMA ReturnInv ==
  ASSUME Inv, NEW v \in Values, Return(v)
  PROVE  Inv' /\ fp' > fp
<1>1. v \in Word
  BY StoryAssumption
<1>2. fp # BaseFrame /\ z_ret(stack, datap, fp, frame_count, v)
      /\ UNCHANGED <<undo, status>>
  BY DEF Return
<1>3. stack \in [Cell -> Word] /\ datap \in [Globals -> Word]
  BY CurrentFrame
<1>. QED  BY <1>1, <1>2, <1>3, ReturnStep

LEMMA RetPoppedInv ==
  ASSUME Inv, ret_popped
  PROVE  Inv' /\ fp' > fp
<1>1. fp # BaseFrame /\ z_ret(stack, datap, fp, frame_count, stack[sp])
      /\ UNCHANGED <<undo, status>> /\ LegalVar(stack, fp, sp, 0)
  BY DEF ret_popped
<1>2. stack[sp] \in Word
  BY <1>1, TopOfStack
<1>3. stack \in [Cell -> Word] /\ datap \in [Globals -> Word]
  BY CurrentFrame
<1>. QED  BY <1>1, <1>2, <1>3, ReturnStep

LEMMA BranchInv ==
  ASSUME Inv, NEW offset \in BranchReturns, conditional_jump(offset)
  PROVE  Inv' /\ fp' > fp
<1>1. offset \in Word
  BY StoryAssumption, CallStackAssumption
<1>2. fp # BaseFrame /\ z_ret(stack, datap, fp, frame_count, offset)
      /\ UNCHANGED <<undo, status>>
  BY DEF conditional_jump
<1>3. stack \in [Cell -> Word] /\ datap \in [Globals -> Word]
  BY CurrentFrame
<1>. QED  BY <1>1, <1>2, <1>3, ReturnStep

LEMMA IncChkInv ==
  ASSUME Inv, NEW n \in Variables, NEW by \in {1, -1}, NEW offset \in BranchReturns,
         z_inc_chk(n, by, offset)
  PROVE  Inv' /\ fp' > fp
<1>1. offset \in Word
  BY StoryAssumption, CallStackAssumption
<1>. DEFINE v == Counted(n, by)
            stk == z_store(stack, sp, fp, n, v)
            data == SetGlobal(datap, n, v)
<1>2. fp # BaseFrame /\ z_ret(stk, data, fp, frame_count, offset)
      /\ UNCHANGED <<undo, status>> /\ LegalVar(stack, fp, sp, n)
  BY DEF z_inc_chk, CanCount
<1>3. v \in Word
  BY CountedWord DEF z_inc_chk
<1>4. stk \in [Cell -> Word] /\ data \in [Globals -> Word]
      /\ \A c \in Cell : c > fp => stk[c] = stack[c]
  BY <1>2, <1>3, StoreStep
<1>. HIDE DEF stk, data, v
<1>. QED  BY <1>1, <1>2, <1>4, ReturnStep

-----------------------------------------------------------------------------
(* Throw *)

\* The k-th frame above fp on the chain, None above the main routine.
IsUnwinding(up, k) ==
    up = [i \in 0 .. k |->
            IF i = 0 THEN fp
            ELSE IF up[i - 1] = None \/ up[i - 1] >= BaseFrame THEN None
            ELSE stack[up[i - 1] + 2]]

\* The recursive function of Unwound exists.
LEMMA UnwindingExists ==
  ASSUME NEW k \in Nat
  PROVE  \E up : IsUnwinding(up, k)
<1>. DEFINE S == {m \in Nat : \E up : IsUnwinding(up, m)}
<1>1. ASSUME NEW m \in Nat, 0 .. m - 1 \subseteq S
      PROVE  m \in S
  <2>1. CASE m = 0
    <3>1. IsUnwinding([i \in 0 .. 0 |-> fp], 0)
      BY DEF IsUnwinding
    <3>. QED  BY <2>1, <3>1
  <2>2. CASE m # 0
    <3>1. m - 1 \in Nat /\ m - 1 \in S
      BY <1>1, <2>2
    <3>2. PICK u : IsUnwinding(u, m - 1)
      BY <3>1
    <3>. DEFINE last == IF u[m - 1] = None \/ u[m - 1] >= BaseFrame THEN None
                        ELSE stack[u[m - 1] + 2]
                w == [i \in 0 .. m |-> IF i = m THEN last ELSE u[i]]
    <3>3. \A i \in 0 .. m - 1 : w[i] = u[i]
      OBVIOUS
    <3>4. w[m] = last
      OBVIOUS
    <3>5. DOMAIN w = 0 .. m /\ w = [i \in 0 .. m |-> w[i]]
      OBVIOUS
    <3>. HIDE DEF w
    <3>6. ASSUME NEW i \in 0 .. m
          PROVE  w[i] = IF i = 0 THEN fp
                        ELSE IF w[i - 1] = None \/ w[i - 1] >= BaseFrame THEN None
                        ELSE stack[w[i - 1] + 2]
      <4>1. CASE i = m
        <5>1. w[i - 1] = u[m - 1] /\ i # 0
          BY <2>2, <3>3, <4>1
        <5>. QED  BY <3>4, <4>1, <5>1
      <4>2. CASE i = 0
        <5>1. u[0] = fp
          BY <3>1, <3>2 DEF IsUnwinding
        <5>. QED  BY <2>2, <3>3, <4>2, <5>1
      <4>3. CASE i \in 1 .. m - 1
        <5>1. w[i] = u[i] /\ w[i - 1] = u[i - 1] /\ i \in 0 .. m - 1 /\ i # 0
          BY <3>3, <4>3
        <5>2. u[i] = IF u[i - 1] = None \/ u[i - 1] >= BaseFrame THEN None
                     ELSE stack[u[i - 1] + 2]
          BY <3>2, <5>1 DEF IsUnwinding
        <5>. QED  BY <5>1, <5>2
      <4>. QED  BY <4>1, <4>2, <4>3
    <3>7. IsUnwinding(w, m)
      BY <3>5, <3>6 DEF IsUnwinding
    <3>. QED  BY <3>7
  <2>. QED  BY <2>1, <2>2
<1>2. Nat \subseteq S
  <2>. HIDE DEF S
  <2>. QED  BY <1>1, Ladder
<1>. QED  BY <1>2

LEMMA UnwoundByStep ==
  ASSUME NEW k \in Nat, k < StackSize
  PROVE  \E up : IsUnwinding(up, k) /\ Unwound(k) = up[k]
<1>. DEFINE up == CHOOSE u : IsUnwinding(u, k)
<1>1. IsUnwinding(up, k)
  BY UnwindingExists
<1>2. Unwound(k) = up[k]
  BY DEF Unwound, IsUnwinding
<1>. QED  BY <1>1, <1>2
\* The loop of throw stays on the chain until it leaves the array.
LEMMA UnwoundOnChain ==
  ASSUME Inv, NEW F, Chain(F, stack, fp), NEW k \in Nat, Unwound(k) # None
  PROVE  Unwound(k) \in F
<1>1. k < StackSize
  <2>1. ~ (k < StackSize) => Unwound(k) = None
    BY DEF Unwound
  <2>. QED  BY <2>1
<1>2. PICK up : IsUnwinding(up, k) /\ Unwound(k) = up[k]
  BY <1>1, UnwoundByStep
<1>. DEFINE S == {i \in Nat : i <= k => up[i] \in F \cup {None}}
<1>3. ASSUME NEW i \in Nat, 0 .. i - 1 \subseteq S
      PROVE  i \in S
  <2>. SUFFICES ASSUME i <= k PROVE up[i] \in F \cup {None}
    OBVIOUS
  <2>1. CASE i = 0
    <3>1. up[0] = fp
      BY <1>2 DEF IsUnwinding
    <3>. QED  BY <2>1, <3>1 DEF Chain
  <2>2. CASE i # 0
    <3>1. i - 1 \in S /\ i - 1 <= k /\ i \in 0 .. k
      BY <1>3, <2>2
    <3>2. up[i - 1] \in F \cup {None}
      BY <3>1
    <3>3. up[i] = IF up[i - 1] = None \/ up[i - 1] >= BaseFrame THEN None
                  ELSE stack[up[i - 1] + 2]
      BY <1>2, <2>2, <3>1 DEF IsUnwinding
    <3>4. ASSUME up[i - 1] \in F, ~ (up[i - 1] >= BaseFrame)
          PROVE  stack[up[i - 1] + 2] \in F
      <4>1. up[i - 1] # BaseFrame
        BY <3>4, Sizes
      <4>. QED  BY <3>4, <4>1 DEF Chain
    <3>. QED  BY <3>2, <3>3, <3>4
  <2>. QED  BY <2>1, <2>2
<1>4. Nat \subseteq S
  <2>. HIDE DEF S
  <2>. QED  BY <1>3, Ladder
<1>. QED  BY <1>2, <1>4

\* A frame of a chain has the chain from there up.
LEMMA ChainFrom ==
  ASSUME NEW stk \in [Cell -> Word], NEW f \in Cell,
         NEW F, Chain(F, stk, f), NEW g \in F
  PROVE  Chain({h \in F : h >= g}, stk, g)
<1>. DEFINE G == {h \in F : h >= g}
<1>1. g \in Int /\ F \subseteq Cell /\ BaseFrame \in F
  BY Sizes DEF Chain
<1>2. ASSUME NEW h \in G \ {BaseFrame}
      PROVE  stk[h + 2] \in G
  <2>1. h \in Cell /\ stk[h + 2] \in F /\ h + 4 + VarsOfFrame(stk, stk[h + 2]) <= stk[h + 2]
    BY DEF Chain
  <2>2. stk[h + 2] \in Cell /\ VarsOfFrame(stk, stk[h + 2]) \in Nat
    BY <2>1, VarsOfFrameInRange DEF Chain
  <2>3. h \in Int /\ h >= g /\ stk[h + 2] \in Int
    BY <2>1, <2>2, Sizes
  <2>. QED  BY <1>1, <2>1, <2>2, <2>3
<1>3. BaseFrame \in G /\ g \in G
  <2>1. g \in 0 .. StackSize - 1
    BY <1>1, Sizes
  <2>. QED  BY <1>1, <2>1, Sizes
<1>. QED  BY <1>1, <1>2, <1>3 DEF Chain

LEMMA ThrowInv ==
  ASSUME Inv, NEW v \in Values, z_throw(v)
  PROVE  /\ Inv'
         /\ \/ UNCHANGED machine
            \/ fp' > fp
<1>. DEFINE k == IF token < frame_count THEN frame_count - token ELSE 0
            target == Unwound(k)
            count == IF token < frame_count THEN token ELSE frame_count
<1>1. v \in Word
  BY StoryAssumption
<1>2. UNCHANGED undo
  BY DEF z_throw
<1>3. CASE UNCHANGED <<machine, ghosts>> /\ status' \in {"fatal", "undefined"}
  <2>1. pc \in Nat /\ Framed(stack, fp, sp)
    BY DEF Inv, TypeOK
  <2>. QED  BY <1>2, <1>3, <2>1, CurrentFrame, MachineStep DEF machine, ghosts
<1>4. CASE /\ ~ (token > fp) /\ target # None /\ target # BaseFrame
           /\ z_ret(stack, datap, target, count, v)
           /\ UNCHANGED status
  <2>0. PICK F : Chain(F, stack, fp)
    BY DEF Inv, Framed
  <2>1. k \in Nat /\ count \in Word
    <3>1. CASE token \in Word
      <4>1. token \in Nat /\ frame_count \in Nat /\ frame_count \in Word
        BY <3>1, CurrentFrame, WordsAreNumbers
      <4>. QED  BY <3>1, <4>1
    <3>2. CASE token = None
      <4>1. catcher # None
        BY DEF z_throw
      <4>2. token # None
        BY <4>1, CurrentFrame
      <4>. QED  BY <3>2, <4>2
    <3>. QED  BY <3>1, <3>2, CurrentFrame
  <2>. HIDE DEF k, count
  <2>2. target \in F /\ F \subseteq Cell
    BY <1>4, <2>0, <2>1, UnwoundOnChain DEF Chain
  <2>. DEFINE G == {h \in F : h >= target}
  <2>3. stack \in [Cell -> Word] /\ fp \in Cell
        /\ token \in Word \cup {None} /\ catcher \in Cell \cup {None}
        /\ (token = None <=> catcher = None)
        /\ datap \in [Globals -> Word]
    BY CurrentFrame
  <2>4. Chain(G, stack, target)
    BY <2>0, <2>2, <2>3, ChainFrom
  <2>. HIDE DEF target, G
  <2>5. /\ stack' \in [Cell -> Word]
        /\ sp' \in 0 .. StackSize
        /\ fp' \in Cell /\ fp' > target
        /\ frame_count' \in Word
        /\ pc' \in Nat
        /\ datap' \in [Globals -> Word]
        /\ token' \in Word \cup {None} /\ catcher' \in Cell \cup {None}
        /\ (token' = None <=> catcher' = None)
        /\ Framed(stack', fp', sp')
    BY <1>1, <1>4, <2>1, <2>2, <2>3, <2>4, ReturnFramed
  <2>6. status' \in {"run", "quit", "fatal", "undefined"}
    BY <1>4, CurrentFrame
  <2>7. Inv'
    BY <1>2, <2>5, <2>6, MachineStep
  <2>8. fp' > fp
    <3>1. target \in Int /\ fp \in Int /\ fp' \in Int /\ target >= fp
      BY <2>0, <2>2, <2>3, <2>5, Sizes DEF Chain
    <3>. QED  BY <2>5, <3>1
  <2>. QED  BY <2>7, <2>8
<1>5. \/ UNCHANGED <<machine, ghosts>> /\ status' \in {"fatal", "undefined"}
      \/ /\ ~ (token > fp) /\ target # None /\ target # BaseFrame
         /\ z_ret(stack, datap, target, count, v)
         /\ UNCHANGED status
  BY DEF z_throw
<1>6. UNCHANGED <<machine, ghosts>> => UNCHANGED machine
  OBVIOUS
<1>. QED  BY <1>3, <1>4, <1>5
-----------------------------------------------------------------------------
(* Undo *)

\* The end of save and restore makes what was saved the current frame.
LEMMA FinishStep ==
  ASSUME Inv, NEW stk \in [Cell -> Word], NEW data \in [Globals -> Word],
         NEW result \in Word,
         stk[0] \in 0 .. StackSize - 4,
         stk[stk[0] + 1] \in Cell,
         Framed(stk, stk[stk[0] + 1], stk[0] + 4),
         FinishUndo(stk, data, result)
  PROVE  /\ stack' \in [Cell -> Word] /\ sp' \in 0 .. StackSize /\ fp' \in Cell
         /\ frame_count' \in Word /\ pc' \in Nat /\ datap' \in [Globals -> Word]
         /\ status' \in {"run", "quit", "fatal", "undefined"}
         /\ Framed(stack', fp', sp')
         /\ \/ UNCHANGED machine
            \/ /\ fp' = stk[stk[0] + 1]
               /\ \A c \in Cell : c > fp' => stack'[c] = stk[c]
<1>. DEFINE s == stk[0]
            f == stk[s + 1]
            back == stk[s + 2] + stk[s + 3] * PageSize
<1>1. CASE stk[s] # Release
  <2>1. status' = "fatal" /\ UNCHANGED machine
    BY <1>1 DEF FinishUndo
  <2>2. Framed(stack', fp', sp') /\ pc \in Nat
    BY <2>1 DEF Inv, TypeOK, machine
  <2>. QED  BY <2>1, <2>2, CurrentFrame DEF machine
<1>2. CASE stk[s] = Release
  <2>1. /\ fp' = f
        /\ store_operand(stk, s + 4, f, data, back, result)
        /\ UNCHANGED <<frame_count, status>>
    BY <1>2 DEF FinishUndo
  <2>2. s + 2 \in Cell /\ s + 3 \in Cell /\ s + 4 \in 0 .. StackSize /\ s + 4 >= 1
    BY Sizes
  <2>3. back \in Nat
    <3>1. stk[s + 2] \in Nat /\ stk[s + 3] \in Nat
      BY <2>2, WordsAreNumbers
    <3>2. PageSize \in Nat
      BY CallStackAssumption, Constants
    <3>. QED  BY <3>1, <3>2
  <2>. HIDE DEF s, f, back
  <2>4. f \in Cell /\ Framed(stk, f, s + 4)
    BY DEF f, s
  <2>5. /\ stack' \in [Cell -> Word]
        /\ sp' \in 0 .. StackSize
        /\ pc' \in Nat
        /\ datap' \in [Globals -> Word]
        /\ Framed(stack', f, sp')
        /\ \A c \in Cell : c > f => stack'[c] = stk[c]
    BY <2>1, <2>2, <2>3, <2>4, StoreOperand
  <2>6. frame_count' \in Word /\ status' \in {"run", "quit", "fatal", "undefined"}
    BY <2>1, CurrentFrame
  <2>. QED  BY <2>1, <2>4, <2>5, <2>6 DEF f, s
<1>. QED  BY <1>1, <1>2

\* The four words that are pushed before the stack is copied.
LEMMA SavedWords ==
  ASSUME Inv, NEW at \in Sites, sp >= 4
  PROVE  LET stk == UndoWords(at) IN
         /\ stk \in [Cell -> Word]
         /\ stk[0] = sp - 4 /\ sp - 4 \in 0 .. StackSize - 4
         /\ stk[sp - 3] = fp
         /\ Framed(stk, fp, sp)
         /\ \A c \in Cell : c > fp => stk[c] = stack[c]
<1>. DEFINE stk == UndoWords(at)
<1>1. /\ sp \in Int /\ sp - 4 \in 0 .. StackSize - 4 /\ StackSize \in Nat
      /\ fp \in 0 .. StackSize - 1
      /\ sp - 1 <= fp
  <2>. DEFINE m == VarsOfFrame(stack, fp)
  <2>1. m \in 0 .. 15 /\ fp \in 0 .. StackSize - 1 /\ sp \in 0 .. StackSize
        /\ sp <= fp + 1 - m /\ StackSize \in Nat
    BY CurrentFrame, Sizes
  <2>. HIDE DEF m
  <2>. QED  BY <2>1
<1>2. sp - 1 \in Cell /\ sp - 2 \in Cell /\ sp - 3 \in Cell /\ sp - 4 \in Cell
      /\ 0 \in Cell
  <2>1. /\ sp - 1 \in 0 .. StackSize - 1 /\ sp - 2 \in 0 .. StackSize - 1
        /\ sp - 3 \in 0 .. StackSize - 1 /\ sp - 4 \in 0 .. StackSize - 1
        /\ 0 \in 0 .. StackSize - 1
    BY <1>1
  <2>. QED  BY <2>1, Sizes
<1>3. /\ at \div PageSize \in Word /\ at % PageSize \in Word
      /\ fp \in Word /\ Release \in Word /\ sp - 4 \in Word
  BY <1>2, AddressParts, CurrentFrame, Constants, CallStackAssumption
<1>4. stk \in [Cell -> Word]
  BY <1>3, CurrentFrame DEF UndoWords
<1>5. stk[0] = sp - 4
  BY <1>2, CurrentFrame DEF UndoWords
<1>6. stk[sp - 3] = fp
  <2>1. sp - 3 # sp - 4 /\ sp - 3 # 0
    BY <1>1
  <2>. QED  BY <1>2, <2>1, CurrentFrame DEF UndoWords
<1>7. \A c \in Cell : c > fp => stk[c] = stack[c]
  <2>. SUFFICES ASSUME NEW c \in Cell, c > fp
                PROVE  stk[c] = stack[c]
    OBVIOUS
  <2>1. c \in Int
    BY Sizes
  <2>2. c # 0 /\ c # sp - 1 /\ c # sp - 2 /\ c # sp - 3 /\ c # sp - 4
    BY <1>1, <2>1
  <2>. QED  BY <2>2, CurrentFrame DEF UndoWords
<1>8. Framed(stk, fp, sp)
  <2>1. Framed(stack, fp, sp) /\ sp <= fp + 1 - VarsOfFrame(stack, fp)
    BY DEF Inv, Framed
  <2>2. stack \in [Cell -> Word] /\ fp \in Cell
    BY CurrentFrame
  <2>. HIDE DEF stk
  <2>. QED  BY <1>1, <1>4, <1>7, <2>1, <2>2, FrameKept
<1>. QED  BY <1>1, <1>4, <1>5, <1>6, <1>7, <1>8

\* Without an undo buffer the two instructions only give a result.
LEMMA NoUndoInv ==
  ASSUME Inv, NEW at \in Sites, NEW v \in Word, TakesResult(at),
         store_operand(stack, sp, fp, datap, at, v),
         UNCHANGED <<fp, frame_count, undo, ghosts, status>>
  PROVE  Inv' /\ \A c \in Cell : c > fp => stack'[c] = stack[c]
<1>1. UNCHANGED <<fp, frame_count, undo, status>> /\ UNCHANGED <<token, catcher>>
  BY DEF ghosts
<1>. QED  BY <1>1, ResultStep, CurrentFrame, SameFrameStep

LEMMA SaveUndoInv ==
  ASSUME Inv, NEW at \in Sites, z_save_undo(at)
  PROVE  Inv' /\ \A c \in Cell : c > fp /\ fp' <= fp => stack'[c] = stack[c]
<1>0. {0, 1, 2} \subseteq Word /\ MINUS_ONE \in Word
  BY StoryAssumption DEF MINUS_ONE, Word
<1>1. CASE ~ UndoAvailable
  <2>1. /\ TakesResult(at)
        /\ store_operand(stack, sp, fp, datap, at, MINUS_ONE)
        /\ UNCHANGED <<fp, frame_count, undo, ghosts, status>>
    BY <1>1 DEF z_save_undo
  <2>. QED  BY <1>0, <2>1, NoUndoInv
<1>2. CASE UndoAvailable /\ sp < 4
  <2>1. status' = "undefined" /\ UNCHANGED <<machine, undo, ghosts>>
    BY <1>2 DEF z_save_undo
  <2>2. pc \in Nat /\ Framed(stack, fp, sp)
    BY DEF Inv, TypeOK
  <2>. QED  BY <2>1, <2>2, CurrentFrame, MachineStep DEF machine, ghosts
<1>3. CASE UndoAvailable /\ ~ (sp < 4)
  <2>. DEFINE stk == UndoWords(at)
  <2>1. /\ undo_valid' = TRUE /\ undo_stack' = stk /\ undo_datap' = datap
        /\ undo_token' = <<token, catcher>>
        /\ FinishUndo(stk, datap, 1)
        /\ UNCHANGED <<token, catcher>>
    BY <1>3 DEF z_save_undo, ghosts
  <2>2. /\ stk \in [Cell -> Word]
        /\ stk[0] = sp - 4 /\ sp - 4 \in 0 .. StackSize - 4
        /\ stk[sp - 3] = fp
        /\ Framed(stk, fp, sp)
        /\ \A c \in Cell : c > fp => stk[c] = stack[c]
    <3>1. sp >= 4
      BY <1>3, CurrentFrame
    <3>. QED  BY <3>1, SavedWords
  <2>. HIDE DEF stk
  <2>3. /\ stk[0] \in 0 .. StackSize - 4 /\ stk[stk[0] + 1] = fp
        /\ fp \in Cell /\ Framed(stk, stk[stk[0] + 1], stk[0] + 4)
    <3>1. sp - 4 + 1 = sp - 3 /\ sp - 4 + 4 = sp
      BY CurrentFrame
    <3>. QED  BY <2>2, <3>1, CurrentFrame
  <2>4. /\ stack' \in [Cell -> Word] /\ sp' \in 0 .. StackSize /\ fp' \in Cell
        /\ frame_count' \in Word /\ pc' \in Nat /\ datap' \in [Globals -> Word]
        /\ status' \in {"run", "quit", "fatal", "undefined"}
        /\ Framed(stack', fp', sp')
        /\ \/ UNCHANGED machine
           \/ /\ fp' = stk[stk[0] + 1]
              /\ \A c \in Cell : c > fp' => stack'[c] = stk[c]
    BY <1>0, <2>1, <2>2, <2>3, CurrentFrame, FinishStep
  <2>5. TypeOK'
    BY <2>1, <2>2, <2>4, CurrentFrame DEF TypeOK
  <2>6. UndoFramed'
    <3>1. undo_token' \in (Word \cup {None}) \X (Cell \cup {None})
          /\ (undo_token'[1] = None <=> undo_token'[2] = None)
      BY <2>1, CurrentFrame
    <3>. QED  BY <2>1, <2>3, <3>1 DEF UndoFramed
  <2>7. Inv'
    BY <2>1, <2>4, <2>5, <2>6, CurrentFrame DEF Inv
  <2>8. \A c \in Cell : c > fp => stack'[c] = stack[c]
    BY <2>2, <2>3, <2>4 DEF machine
  <2>. QED  BY <2>7, <2>8
<1>. QED  BY <1>1, <1>2, <1>3
LEMMA RestoreUndoInv ==
  ASSUME Inv, NEW at \in Sites, z_restore_undo(at)
  PROVE  Inv'
<1>0. {0, 1, 2} \subseteq Word /\ MINUS_ONE \in Word
  BY StoryAssumption DEF MINUS_ONE, Word
<1>1. CASE ~ UndoAvailable \/ ~ undo_valid
  <2>. DEFINE v == IF UndoAvailable THEN 0 ELSE MINUS_ONE
  <2>1. /\ TakesResult(at)
        /\ store_operand(stack, sp, fp, datap, at, v)
        /\ UNCHANGED <<fp, frame_count, undo, ghosts, status>>
    BY <1>1 DEF z_restore_undo
  <2>2. v \in Word
    BY <1>0
  <2>. HIDE DEF v
  <2>. QED  BY <2>1, <2>2, NoUndoInv
<1>2. CASE UndoAvailable /\ undo_valid /\ sp < 4
  <2>1. status' = "undefined" /\ UNCHANGED <<machine, undo, ghosts>>
    BY <1>2 DEF z_restore_undo
  <2>2. pc \in Nat /\ Framed(stack, fp, sp)
    BY DEF Inv, TypeOK
  <2>. QED  BY <2>1, <2>2, CurrentFrame, MachineStep DEF machine, ghosts
<1>3. CASE UndoAvailable /\ undo_valid /\ ~ (sp < 4)
  <2>1. /\ FinishUndo(undo_stack, undo_datap, 2)
        /\ token' = undo_token[1] /\ catcher' = undo_token[2]
        /\ UNCHANGED undo
    BY <1>3 DEF z_restore_undo
  <2>2. /\ undo_stack \in [Cell -> Word] /\ undo_datap \in [Globals -> Word]
        /\ undo_stack[0] \in 0 .. StackSize - 4
        /\ undo_stack[undo_stack[0] + 1] \in Cell
        /\ Framed(undo_stack, undo_stack[undo_stack[0] + 1], undo_stack[0] + 4)
        /\ token' \in Word \cup {None} /\ catcher' \in Cell \cup {None}
        /\ (token' = None <=> catcher' = None)
    BY <1>3, <2>1 DEF Inv, TypeOK, UndoFramed
  <2>3. /\ stack' \in [Cell -> Word] /\ sp' \in 0 .. StackSize /\ fp' \in Cell
        /\ frame_count' \in Word /\ pc' \in Nat /\ datap' \in [Globals -> Word]
        /\ status' \in {"run", "quit", "fatal", "undefined"}
        /\ Framed(stack', fp', sp')
    BY <1>0, <2>1, <2>2, FinishStep
  <2>. QED  BY <2>1, <2>2, <2>3, MachineStep
<1>. QED  BY <1>1, <1>2, <1>3

-----------------------------------------------------------------------------
(* The theorems *)

\* Every step keeps the invariant.  One that leaves the frame pointer where it
\* is or moves it down leaves the words above it alone, but for the two that
\* replace the whole stack.
LEMMA NextInv ==
  ASSUME Inv, [Next]_vars
  PROVE  /\ Inv'
         /\ \/ z_restart
            \/ \E at \in Sites : z_restore_undo(at)
            \/ fp' > fp
            \/ \A c \in Cell : c > fp /\ fp' <= fp => stack'[c] = stack[c]
<1>1. ASSUME NEW at \in Sites, NEW r \in Routines, NEW type \in CallTypes,
             NEW k \in 0 .. MaxArgs, NEW args \in [1 .. k -> Values],
             z_call(at, r, args, type)
      PROVE  Inv' /\ \A c \in Cell : c > fp => stack'[c] = stack[c]
  BY <1>1, CallInv
<1>2. ASSUME NEW at \in Sites, call_zero(at)
      PROVE  Inv' /\ \A c \in Cell : c > fp => stack'[c] = stack[c]
  BY <1>2, CallZeroInv
<1>3. ASSUME NEW at \in Sites, NEW n \in Variables, z_load(at, n)
      PROVE  Inv' /\ \A c \in Cell : c > fp => stack'[c] = stack[c]
  BY <1>3, LoadInv
<1>4. ASSUME NEW at \in Sites, z_catch(at)
      PROVE  Inv' /\ \A c \in Cell : c > fp => stack'[c] = stack[c]
  BY <1>4, CatchStepInv
<1>5. ASSUME NEW at \in Sites, z_save_undo(at)
      PROVE  Inv' /\ \A c \in Cell : c > fp /\ fp' <= fp => stack'[c] = stack[c]
  BY <1>5, SaveUndoInv
<1>6. ASSUME NEW at \in Sites, z_restore_undo(at)
      PROVE  Inv'
  BY <1>6, RestoreUndoInv
<1>7. ASSUME NEW v \in Values, Return(v)
      PROVE  Inv' /\ fp' > fp
  BY <1>7, ReturnInv
<1>8. ASSUME NEW v \in Values, z_throw(v)
      PROVE  Inv' /\ (UNCHANGED machine \/ fp' > fp)
  BY <1>8, ThrowInv
<1>9. ASSUME NEW v \in Values, z_push(v)
      PROVE  Inv' /\ \A c \in Cell : c > fp => stack'[c] = stack[c]
  BY <1>9, PushInv
<1>10. ASSUME NEW n \in Variables, NEW v \in Values, StoreVariable(n, v)
       PROVE  Inv' /\ \A c \in Cell : c > fp => stack'[c] = stack[c]
  BY <1>10, StoreVariableInv
<1>11. ASSUME NEW n \in Variables, z_pull(n)
       PROVE  Inv' /\ \A c \in Cell : c > fp => stack'[c] = stack[c]
  BY <1>11, PullInv
<1>12. ASSUME NEW n \in Variables, NEW by \in {1, -1}, z_inc(n, by)
       PROVE  Inv' /\ \A c \in Cell : c > fp => stack'[c] = stack[c]
  BY <1>12, IncInv
<1>13. ASSUME NEW n \in Variables, NEW by \in {1, -1}, NEW offset \in BranchReturns,
              z_inc_chk(n, by, offset)
       PROVE  Inv' /\ fp' > fp
  BY <1>13, IncChkInv
<1>14. ASSUME NEW offset \in BranchReturns, conditional_jump(offset)
       PROVE  Inv' /\ fp' > fp
  BY <1>14, BranchInv
<1>15. ret_popped => Inv' /\ fp' > fp
  BY RetPoppedInv
<1>16. Discard => Inv' /\ \A c \in Cell : c > fp => stack'[c] = stack[c]
  BY DiscardInv
<1>17. z_restart => Inv'
  BY RestartInv
<1>18. z_quit \/ UNCHANGED vars
         => Inv' /\ \A c \in Cell : c > fp => stack'[c] = stack[c]
  <2>1. z_quit \/ UNCHANGED vars
          => /\ UNCHANGED <<machine, undo, ghosts>>
             /\ status' \in {"run", "quit", "fatal", "undefined"}
    BY CurrentFrame DEF z_quit, vars
  <2>2. pc \in Nat /\ Framed(stack, fp, sp)
    BY DEF Inv, TypeOK
  <2>. QED  BY <2>1, <2>2, CurrentFrame, MachineStep DEF machine, ghosts
<1>19. UNCHANGED machine => \A c \in Cell : c > fp => stack'[c] = stack[c]
  BY DEF machine
<1>. QED
  BY <1>1, <1>2, <1>3, <1>4, <1>5, <1>6, <1>7, <1>8, <1>9, <1>10, <1>11, <1>12,
     <1>13, <1>14, <1>15, <1>16, <1>17, <1>18, <1>19 DEF Next

THEOREM Invariance == Spec => []Inv
<1>1. Inv /\ [Next]_vars => Inv'
  BY NextInv
<1>. QED  BY InitInv, <1>1, PTL DEF Spec

\* For every legal story and all sizes, whatever is undone and whatever a throw
\* finds: the stack and frame pointers stay in the array, the array holds
\* words, and what was saved for undo is such a stack.
THEOREM TypeSafety == Spec => []TypeOK
<1>1. Inv => TypeOK
  BY DEF Inv
<1>. QED  BY Invariance, <1>1, PTL

\* No instruction writes into the frame of a caller: what a call saved and what
\* the callers left in their locals and on their evaluation stacks is there when
\* they run again.  (CallersUntouched, for z_call, store_operand, z_store and
\* the pushes of save_restore.)
THEOREM CallersAreSafe == Spec => CallersUntouched
<1>1. Inv /\ [Next]_vars =>
        [fp' <= fp /\ ~z_restart /\ ~(\E at \in Sites : z_restore_undo(at))
           => \A c \in Cell : c > fp => stack'[c] = stack[c]]_vars
  <2>. SUFFICES ASSUME Inv, [Next]_vars,
                       fp' <= fp, ~z_restart, ~(\E at \in Sites : z_restore_undo(at)),
                       NEW c \in Cell, c > fp
                PROVE  stack'[c] = stack[c]
    OBVIOUS
  <2>1. Inv' /\ fp \in Nat
    BY NextInv, CurrentFrame
  <2>2. fp' \in Nat
    BY <2>1, Constants DEF Inv, TypeOK
  <2>3. ~ (fp' > fp)
    BY <2>1, <2>2
  <2>. QED  BY <2>3, NextInv
<1>. QED  BY Invariance, <1>1, PTL DEF Spec, CallersUntouched
-----------------------------------------------------------------------------
(* The frame count.  Restoring an undo leaves it as it is, so all of this is *)
(* about interpreters without undo and stories without restore_undo.         *)

NoUndo == ~ UndoAvailable \/ "restore_undo" \notin Opcodes

\* path[0] is the frame at f, path[i + 1] the caller of path[i], and path[n]
\* the main routine.
Path(path, n, stk, f) ==
    /\ path \in [0 .. n -> Cell]
    /\ path[0] = f
    /\ path[n] = BaseFrame
    /\ \A i \in 0 .. n - 1 :
         /\ path[i + 1] = stk[path[i] + 2]
         /\ path[i + 1] >= path[i] + 4

\* frame_count is the length of the path, and the catch result the story may
\* throw to is the frame count of the frame that executed the catch.
CountInv ==
    \E path :
      /\ Path(path, frame_count, stack, fp)
      /\ token # None => /\ token <= frame_count
                         /\ catcher = path[frame_count - token]

\* Callers are above their callees.
LEMMA PathRises ==
  ASSUME NEW n \in Nat, NEW stk, NEW f, NEW path, Path(path, n, stk, f),
         NEW i \in 0 .. n, NEW j \in 0 .. n, i <= j
  PROVE  path[j] >= path[i] + (j - i)
<1>. DEFINE S == {m \in Nat : i + m <= n => path[i + m] >= path[i] + m}
<1>0. \A k \in 0 .. n : path[k] \in Int
  BY Sizes DEF Path
<1>1. ASSUME NEW m \in Nat, 0 .. m - 1 \subseteq S
      PROVE  m \in S
  <2>. SUFFICES ASSUME i + m <= n PROVE path[i + m] >= path[i] + m
    OBVIOUS
  <2>1. CASE m = 0
    BY <1>0, <2>1
  <2>2. CASE m # 0
    <3>1. m - 1 \in S /\ i + (m - 1) <= n /\ i + (m - 1) \in 0 .. n - 1
          /\ i + (m - 1) + 1 = i + m /\ i + m \in 0 .. n
      BY <1>1, <2>2
    <3>2. path[i + (m - 1)] >= path[i] + (m - 1)
      BY <3>1
    <3>3. path[i + (m - 1) + 1] >= path[i + (m - 1)] + 4
      BY <3>1 DEF Path
    <3>4. path[i + m] \in Int /\ path[i + (m - 1)] \in Int /\ path[i] \in Int
      BY <1>0, <3>1
    <3>. QED  BY <3>1, <3>2, <3>3, <3>4
  <2>. QED  BY <2>1, <2>2
<1>2. Nat \subseteq S
  <2>. HIDE DEF S
  <2>. QED  BY <1>1, Ladder
<1>3. j - i \in S /\ i + (j - i) = j
  BY <1>2
<1>. QED  BY <1>3

\* So the count of the frames never wraps around.
LEMMA PathIsShort ==
  ASSUME NEW n \in Nat, NEW stk, NEW f, NEW path, Path(path, n, stk, f)
  PROVE  n < StackSize
<1>1. path[n] >= path[0] + (n - 0)
  BY PathRises
<1>2. path[n] \in 0 .. StackSize - 1 /\ path[0] \in 0 .. StackSize - 1
  BY Sizes DEF Path
<1>. QED  BY <1>1, <1>2, Sizes

\* A path depends on the words above its first frame only.
LEMMA PathAbove ==
  ASSUME NEW n \in Nat, NEW stk, NEW stk2, NEW f, NEW path, Path(path, n, stk, f),
         \A c \in Cell : c > f => stk2[c] = stk[c]
  PROVE  Path(path, n, stk2, f)
<1>. SUFFICES ASSUME NEW i \in 0 .. n - 1
              PROVE  stk2[path[i] + 2] = stk[path[i] + 2]
  BY DEF Path
<1>1. /\ path[i] \in Int /\ path[0] \in Int /\ path[i + 1] \in 0 .. StackSize - 1
      /\ path[0] \in 0 .. StackSize - 1
      /\ path[i + 1] >= path[i] + 4
      /\ path[0] = f
  BY Sizes DEF Path
<1>2. path[i] >= path[0] + (i - 0)
  BY PathRises
<1>3. path[i] + 2 \in 0 .. StackSize - 1 /\ path[i] + 2 > f
  <2>1. f \in Int /\ path[i] >= f + i /\ i >= 0 /\ i \in Int /\ f >= 0
    BY <1>1, <1>2
  <2>2. StackSize \in Nat
    BY Sizes
  <2>. QED  BY <1>1, <2>1, <2>2
<1>. QED  BY <1>3, Sizes

LEMMA InitCount == Init => CountInv
<1>. SUFFICES ASSUME Init PROVE CountInv
  OBVIOUS
<1>. DEFINE path == [i \in 0 .. 0 |-> BaseFrame]
<1>1. fp = BaseFrame /\ frame_count = 0 /\ token = None
  BY DEF Init, StartState
<1>2. Path(path, 0, stack, BaseFrame)
  BY Constants DEF Path
<1>. HIDE DEF path
<1>. QED  BY <1>1, <1>2 DEF CountInv

LEMMA SameFrameCount ==
  ASSUME Inv, CountInv, UNCHANGED <<fp, frame_count, token, catcher>>,
         \A c \in Cell : c > fp => stack'[c] = stack[c]
  PROVE  CountInv'
<1>1. PICK path :
        /\ Path(path, frame_count, stack, fp)
        /\ token # None => /\ token <= frame_count
                           /\ catcher = path[frame_count - token]
  BY DEF CountInv
<1>2. frame_count \in Nat
  BY CurrentFrame, WordsAreNumbers
<1>3. Path(path, frame_count, stack', fp)
  BY <1>1, <1>2, PathAbove
<1>. QED  BY <1>1, <1>3 DEF CountInv

LEMMA CatchCount ==
  ASSUME Inv, CountInv, UNCHANGED <<fp, frame_count>>,
         token' = frame_count, catcher' = fp,
         \A c \in Cell : c > fp => stack'[c] = stack[c]
  PROVE  CountInv'
<1>1. PICK path : Path(path, frame_count, stack, fp)
  BY DEF CountInv
<1>2. frame_count \in Nat
  BY CurrentFrame, WordsAreNumbers
<1>3. Path(path, frame_count, stack', fp)
  BY <1>1, <1>2, PathAbove
<1>4. path[frame_count - frame_count] = fp
  BY <1>1, <1>2 DEF Path
<1>. QED  BY <1>2, <1>3, <1>4 DEF CountInv

LEMMA CallCount ==
  ASSUME Inv, CountInv, UNCHANGED <<token, catcher>>,
         fp' \in Cell, fp' + 4 <= fp, stack'[fp' + 2] = fp,
         frame_count' = (frame_count + 1) % WordSize,
         \A c \in Cell : c > fp => stack'[c] = stack[c]
  PROVE  CountInv'
<1>1. PICK path :
        /\ Path(path, frame_count, stack, fp)
        /\ token # None => /\ token <= frame_count
                           /\ catcher = path[frame_count - token]
  BY DEF CountInv
<1>2. frame_count \in Nat
  BY CurrentFrame, WordsAreNumbers
<1>3. Path(path, frame_count, stack', fp) /\ frame_count < StackSize
  BY <1>1, <1>2, PathAbove, PathIsShort
<1>4. frame_count' = frame_count + 1
  <2>1. frame_count + 1 \in 0 .. WordSize - 1 /\ WordSize \in Nat \ {0}
    BY <1>2, <1>3, Sizes
  <2>. QED  BY <2>1
<1>. DEFINE n == frame_count'
            q == [i \in 0 .. n |-> IF i = 0 THEN fp' ELSE path[i - 1]]
<1>5. n \in Nat /\ n >= 1 /\ n - 1 = frame_count
  BY <1>2, <1>4
<1>. HIDE DEF n
<1>6. q[0] = fp' /\ \A i \in 1 .. n : q[i] = path[i - 1]
  BY <1>5
<1>7. q \in [0 .. n -> Cell]
  <2>1. \A i \in 1 .. n : i - 1 \in 0 .. frame_count
    BY <1>5
  <2>2. \A i \in 0 .. frame_count : path[i] \in Cell
    BY <1>3 DEF Path
  <2>3. \A i \in 0 .. n : i # 0 => i \in 1 .. n
    BY <1>5
  <2>. QED  BY <2>1, <2>2, <2>3
<1>. HIDE DEF q
<1>8. q[n] = BaseFrame
  <2>1. n \in 1 .. n
    BY <1>5
  <2>. QED  BY <1>3, <1>5, <1>6, <2>1 DEF Path
<1>9. ASSUME NEW i \in 0 .. n - 1
      PROVE  q[i + 1] = stack'[q[i] + 2] /\ q[i + 1] >= q[i] + 4
  <2>1. i + 1 \in 1 .. n /\ i + 1 - 1 = i
    BY <1>5
  <2>2. q[i + 1] = path[i]
    BY <1>6, <2>1
  <2>3. CASE i = 0
    <3>1. path[0] = fp
      BY <1>1 DEF Path
    <3>. QED  BY <1>6, <2>2, <2>3, <3>1
  <2>4. CASE i # 0
    <3>1. i \in 1 .. n /\ i - 1 \in 0 .. frame_count - 1 /\ i - 1 + 1 = i
      BY <1>5, <2>4
    <3>2. path[i - 1 + 1] = stack'[path[i - 1] + 2] /\ path[i - 1 + 1] >= path[i - 1] + 4
      BY <1>3, <3>1 DEF Path
    <3>. QED  BY <1>6, <2>2, <3>1, <3>2
  <2>. QED  BY <2>3, <2>4
<1>10. Path(q, n, stack', fp')
  BY <1>6, <1>7, <1>8, <1>9 DEF Path
<1>11. ASSUME token # None
       PROVE  token <= n /\ catcher = q[n - token]
  <2>1. token \in Nat /\ token <= frame_count
    BY <1>1, <1>11, CurrentFrame, WordsAreNumbers
  <2>2. n - token \in 1 .. n /\ n - token - 1 = frame_count - token /\ token <= n
    BY <1>2, <1>5, <2>1
  <2>3. q[n - token] = path[n - token - 1]
    BY <1>6, <2>2
  <2>. QED  BY <1>1, <1>11, <2>2, <2>3
<1>. QED  BY <1>10, <1>11 DEF CountInv, n
\* A return from frame j of the path leaves the path from there up.
LEMMA ReturnCount ==
  ASSUME Inv, NEW path, Path(path, frame_count, stack, fp),
         token # None => /\ token <= frame_count
                         /\ catcher = path[frame_count - token],
         NEW j \in Nat, j <= frame_count, path[j] # BaseFrame,
         NEW stk, \A c \in Cell : c > fp => stk[c] = stack[c],
         fp' = stk[path[j] + 2],
         frame_count' = (frame_count - j - 1) % WordSize,
         \A c \in Cell : c > fp' => stack'[c] = stk[c],
         IF catcher # None /\ catcher >= fp'
         THEN UNCHANGED ghosts
         ELSE token' = None /\ catcher' = None
  PROVE  CountInv'
<1>1. frame_count \in Nat
  BY CurrentFrame, WordsAreNumbers
<1>2. Path(path, frame_count, stk, fp) /\ frame_count < StackSize
  BY <1>1, PathAbove, PathIsShort
<1>3. j # frame_count
  BY DEF Path
<1>4. frame_count' = frame_count - j - 1
  <2>1. frame_count - j - 1 \in 0 .. WordSize - 1 /\ WordSize \in Nat \ {0}
    BY <1>1, <1>2, <1>3, Sizes
  <2>. QED  BY <2>1
<1>. DEFINE n == frame_count'
            q == [i \in 0 .. n |-> path[i + j + 1]]
<1>5. /\ n \in Nat /\ n + j + 1 = frame_count
      /\ \A i \in 0 .. n : i + j + 1 \in 0 .. frame_count
  BY <1>1, <1>3, <1>4
<1>. HIDE DEF n
<1>6. \A i \in 0 .. n : q[i] = path[i + j + 1]
  OBVIOUS
<1>7. q \in [0 .. n -> Cell]
  BY <1>2, <1>5 DEF Path
<1>. HIDE DEF q
<1>8. q[0] = fp'
  <2>1. q[0] = path[j + 1] /\ j \in 0 .. frame_count - 1
    BY <1>5, <1>6
  <2>. QED  BY <1>2, <2>1 DEF Path
<1>9. q[n] = BaseFrame
  BY <1>2, <1>5, <1>6 DEF Path
<1>10. ASSUME NEW i \in 0 .. n - 1
       PROVE  q[i + 1] = stk[q[i] + 2] /\ q[i + 1] >= q[i] + 4
  <2>1. /\ i \in 0 .. n /\ i + 1 \in 0 .. n
        /\ i + j + 1 \in 0 .. frame_count - 1 /\ i + 1 + j + 1 = i + j + 1 + 1
    BY <1>5
  <2>2. q[i] = path[i + j + 1] /\ q[i + 1] = path[i + j + 1 + 1]
    BY <1>6, <2>1
  <2>. DEFINE l == i + j + 1
  <2>3. l \in 0 .. frame_count - 1
    BY <2>1
  <2>4. q[i] = path[l] /\ q[i + 1] = path[l + 1]
    BY <2>2
  <2>. HIDE DEF l
  <2>. QED  BY <1>2, <2>3, <2>4 DEF Path
<1>11. Path(q, n, stk, fp')
  BY <1>7, <1>8, <1>9, <1>10 DEF Path
<1>12. Path(q, n, stack', fp')
  BY <1>5, <1>11, PathAbove
<1>13. ASSUME token' # None
       PROVE  token' <= n /\ catcher' = q[n - token']
  <2>1. token' = token /\ catcher' = catcher /\ catcher # None /\ catcher >= fp'
    BY <1>13 DEF ghosts
  <2>2. token # None /\ token <= frame_count /\ catcher = path[frame_count - token]
    BY <1>13, <2>1
  <2>3. token \in Nat
    BY <2>2, CurrentFrame, WordsAreNumbers
  <2>4. frame_count - token \in 0 .. frame_count /\ j + 1 \in 0 .. frame_count
    BY <1>1, <1>5, <2>2, <2>3
  <2>5. fp' = path[j + 1]
    BY <1>5, <1>6, <1>8
  <2>6. frame_count - token >= j + 1
    <3>. SUFFICES ASSUME frame_count - token < j + 1 PROVE FALSE
      BY <2>4
    <3>1. frame_count - token + 1 <= j + 1 /\ frame_count - token + 1 \in 0 .. frame_count
          /\ frame_count - token \in 0 .. frame_count - 1
      BY <1>1, <2>3, <2>4
    <3>. DEFINE m == frame_count - token
    <3>2. m + 1 <= j + 1 /\ m + 1 \in 0 .. frame_count /\ m \in 0 .. frame_count - 1
      BY <3>1
    <3>3. path[m] >= path[j + 1]
      BY <2>1, <2>2, <2>5
    <3>. HIDE DEF m
    <3>4. path[m + 1] >= path[m] + 4
      BY <3>2 DEF Path
    <3>5. path[j + 1] >= path[m + 1] + (j + 1 - (m + 1))
      BY <1>1, <2>4, <3>2, PathRises
    <3>6. path[m] \in Int /\ path[m + 1] \in Int /\ path[j + 1] \in Int
      <4>1. \A l \in 0 .. frame_count : path[l] \in Int
        BY Sizes DEF Path
      <4>2. m \in 0 .. frame_count
        BY <1>1, <3>2
      <4>. QED  BY <2>4, <3>2, <4>1, <4>2
    <3>7. m \in Int /\ j + 1 - (m + 1) \in Nat
      BY <3>2
    <3>. QED  BY <3>3, <3>4, <3>5, <3>6, <3>7
  <2>7. n - token \in 0 .. n /\ n - token + j + 1 = frame_count - token /\ token <= n
    BY <1>1, <1>5, <2>3, <2>6
  <2>. QED  BY <1>6, <2>1, <2>2, <2>7
<1>. QED  BY <1>12, <1>13 DEF CountInv, n
\* The loop of throw climbs the path.
LEMMA UnwoundIsPath ==
  ASSUME Inv, NEW path, Path(path, frame_count, stack, fp),
         NEW k \in 0 .. frame_count
  PROVE  Unwound(k) = path[k]
<1>0. frame_count \in Nat
  BY CurrentFrame, WordsAreNumbers
<1>1. k \in Nat /\ k < StackSize
  <2>1. frame_count < StackSize
    BY <1>0, PathIsShort
  <2>. QED  BY <1>0, <2>1, Sizes
<1>2. PICK up : IsUnwinding(up, k) /\ Unwound(k) = up[k]
  BY <1>1, UnwoundByStep
<1>. DEFINE S == {i \in Nat : i <= k => up[i] = path[i]}
<1>3. ASSUME NEW i \in Nat, 0 .. i - 1 \subseteq S
      PROVE  i \in S
  <2>. SUFFICES ASSUME i <= k PROVE up[i] = path[i]
    OBVIOUS
  <2>1. CASE i = 0
    BY <1>1, <1>2, <2>1 DEF IsUnwinding, Path
  <2>2. CASE i # 0
    <3>. DEFINE l == i - 1
    <3>1. l \in S /\ l <= k /\ i \in 0 .. k /\ l \in 0 .. frame_count - 1 /\ l + 1 = i
      BY <1>0, <1>1, <1>3, <2>2
    <3>2. up[i] = IF up[l] = None \/ up[l] >= BaseFrame THEN None
                  ELSE stack[up[l] + 2]
      BY <1>2, <2>2, <3>1 DEF IsUnwinding
    <3>3. up[l] = path[l]
      BY <3>1
    <3>. HIDE DEF l
    <3>4. /\ path[l + 1] = stack[path[l] + 2]
          /\ path[l + 1] >= path[l] + 4
      BY <3>1 DEF Path
    <3>5. path[l] \in Nat /\ path[l + 1] \in 0 .. StackSize - 1
      <4>1. \A m \in 0 .. frame_count : path[m] \in 0 .. StackSize - 1
        BY Sizes DEF Path
      <4>2. l \in 0 .. frame_count /\ l + 1 \in 0 .. frame_count
        BY <1>0, <3>1
      <4>3. path[l] \in 0 .. StackSize - 1 /\ path[l + 1] \in 0 .. StackSize - 1
        BY <4>1, <4>2
      <4>. QED  BY <4>3
    <3>6. path[l] # None /\ ~ (path[l] >= BaseFrame)
      <4>1. StackSize \in Nat /\ BaseFrame = StackSize - 1
        BY Sizes
      <4>2. ~ (path[l] >= StackSize - 1)
        BY <3>4, <3>5, <4>1
      <4>. QED  BY <3>5, <4>1, <4>2, CallStackAssumption
    <3>. QED  BY <3>1, <3>2, <3>3, <3>4, <3>6
  <2>. QED  BY <2>1, <2>2
<1>4. Nat \subseteq S
  <2>. HIDE DEF S
  <2>. QED  BY <1>3, Ladder
<1>. QED  BY <1>1, <1>2, <1>4

\* A return from the current frame takes the first frame off the path.
LEMMA ReturnFromTopCount ==
  ASSUME Inv, CountInv, fp # BaseFrame,
         NEW stk \in [Cell -> Word], \A c \in Cell : c > fp => stk[c] = stack[c],
         NEW data \in [Globals -> Word], NEW v \in Word,
         z_ret(stk, data, fp, frame_count, v)
  PROVE  CountInv'
<1>1. PICK F : Chain(F, stack, fp)
  BY DEF Inv, Framed
<1>2. stack \in [Cell -> Word] /\ fp \in Cell /\ frame_count \in Word
      /\ token \in Word \cup {None} /\ catcher \in Cell \cup {None}
      /\ (token = None <=> catcher = None)
  BY CurrentFrame
<1>3. Chain(F, stk, fp)
  BY <1>1, <1>2, ChainAbove
<1>4. /\ fp' = stk[fp + 2]
      /\ frame_count' = (frame_count - 1) % WordSize
      /\ \A c \in Cell : c > fp' => stack'[c] = stk[c]
  BY <1>2, <1>3, ReturnFramed
<1>5. IF catcher # None /\ catcher >= fp'
      THEN UNCHANGED ghosts
      ELSE token' = None /\ catcher' = None
  BY <1>4 DEF z_ret
<1>6. PICK path :
        /\ Path(path, frame_count, stack, fp)
        /\ token # None => /\ token <= frame_count
                           /\ catcher = path[frame_count - token]
  BY DEF CountInv
<1>7. frame_count \in Nat
  BY <1>2, WordsAreNumbers
<1>8. path[0] = fp /\ 0 \in Nat /\ 0 <= frame_count
      /\ frame_count' = (frame_count - 0 - 1) % WordSize
  BY <1>4, <1>6, <1>7 DEF Path
<1>9. path[0] # BaseFrame /\ fp' = stk[path[0] + 2]
  BY <1>4, <1>8
<1>. QED  BY <1>4, <1>5, <1>6, <1>8, <1>9, ReturnCount

\* A throw returns from the catcher, or ends in a fatal error.
LEMMA ThrowCount ==
  ASSUME Inv, CountInv, NEW v \in Values, z_throw(v)
  PROVE  /\ CountInv'
         /\ \/ token > fp /\ status' = "fatal"
            \/ fp' = stack[catcher + 2]
<1>. DEFINE k == IF token < frame_count THEN frame_count - token ELSE 0
            count == IF token < frame_count THEN token ELSE frame_count
<1>1. PICK path :
        /\ Path(path, frame_count, stack, fp)
        /\ token # None => /\ token <= frame_count
                           /\ catcher = path[frame_count - token]
  BY DEF CountInv
<1>2. frame_count \in Nat /\ frame_count \in Word
  BY CurrentFrame, WordsAreNumbers
<1>3. catcher # None /\ catcher # BaseFrame
  BY DEF z_throw
<1>4. token \in Nat /\ token \in Word /\ token <= frame_count
      /\ catcher = path[frame_count - token]
  BY <1>1, <1>3, CurrentFrame, WordsAreNumbers
<1>5. k = frame_count - token /\ k \in 0 .. frame_count /\ count = frame_count - k
      /\ k \in Nat /\ k <= frame_count /\ count \in Word
  BY <1>2, <1>4
<1>. HIDE DEF k, count
<1>6. Unwound(k) = catcher
  BY <1>1, <1>4, <1>5, UnwoundIsPath
<1>7. catcher \in Cell /\ catcher # None
  BY <1>3, CurrentFrame
<1>8. \/ token > fp /\ UNCHANGED <<machine, ghosts>> /\ status' = "fatal"
      \/ ~ (token > fp) /\ z_ret(stack, datap, catcher, count, v)
  BY <1>3, <1>6, <1>7 DEF z_throw, k, count
<1>9. CASE token > fp /\ UNCHANGED <<machine, ghosts>> /\ status' = "fatal"
  <2>1. CountInv'
    BY <1>9, SameFrameCount DEF machine, ghosts
  <2>. QED  BY <1>9, <2>1
<1>10. CASE ~ (token > fp) /\ z_ret(stack, datap, catcher, count, v)
  <2>1. PICK F : Chain(F, stack, fp)
    BY DEF Inv, Framed
  <2>2. stack \in [Cell -> Word] /\ fp \in Cell
        /\ token \in Word \cup {None} /\ catcher \in Cell \cup {None}
        /\ (token = None <=> catcher = None)
        /\ datap \in [Globals -> Word]
    BY CurrentFrame
  <2>3. catcher \in F
    BY <1>5, <1>6, <1>7, <2>1, UnwoundOnChain
  <2>. DEFINE G == {h \in F : h >= catcher}
  <2>4. Chain(G, stack, catcher)
    BY <2>1, <2>2, <2>3, ChainFrom
  <2>. HIDE DEF G
  <2>5. v \in Word
    BY StoryAssumption
  <2>6. /\ fp' = stack[catcher + 2]
        /\ frame_count' = (count - 1) % WordSize
        /\ \A c \in Cell : c > fp' => stack'[c] = stack[c]
    BY <1>3, <1>5, <1>7, <1>10, <2>2, <2>4, <2>5, ReturnFramed
  <2>7. IF catcher # None /\ catcher >= fp'
        THEN UNCHANGED ghosts
        ELSE token' = None /\ catcher' = None
    BY <1>10, <2>6 DEF z_ret
  <2>8. frame_count' = (frame_count - k - 1) % WordSize
    BY <1>5, <2>6
  <2>9. path[k] = catcher
    BY <1>4, <1>5
  <2>10. fp' = stack[path[k] + 2] /\ path[k] # BaseFrame
    BY <1>3, <2>6, <2>9
  <2>11. CountInv'
    BY <1>1, <1>5, <2>6, <2>7, <2>8, <2>10, ReturnCount
  <2>. QED  BY <2>6, <2>11
<1>. QED  BY <1>8, <1>9, <1>10
\* Saving for undo pushes below the frame pointer and counts nothing.
LEMMA SaveUndoCount ==
  ASSUME Inv, CountInv, NEW at \in Sites, z_save_undo(at)
  PROVE  CountInv'
<1>0. {0, 1, 2} \subseteq Word
  BY StoryAssumption
<1>1. UNCHANGED <<token, catcher>>
  BY DEF z_save_undo, ghosts
<1>2. CASE ~ UndoAvailable
  <2>1. /\ TakesResult(at)
        /\ store_operand(stack, sp, fp, datap, at, MINUS_ONE)
        /\ UNCHANGED <<fp, frame_count>>
    BY <1>2 DEF z_save_undo
  <2>2. MINUS_ONE \in Word
    BY StoryAssumption DEF MINUS_ONE, Word
  <2>. QED  BY <1>1, <2>1, <2>2, ResultStep, SameFrameCount
<1>3. CASE UndoAvailable /\ sp < 4
  <2>1. UNCHANGED machine
    BY <1>3 DEF z_save_undo
  <2>. QED  BY <1>1, <2>1, SameFrameCount DEF machine
<1>4. CASE UndoAvailable /\ ~ (sp < 4)
  <2>. DEFINE stk == UndoWords(at)
  <2>1. FinishUndo(stk, datap, 1)
    BY <1>4 DEF z_save_undo
  <2>2. /\ stk \in [Cell -> Word]
        /\ stk[0] = sp - 4 /\ sp - 4 \in 0 .. StackSize - 4
        /\ stk[sp - 3] = fp
        /\ Framed(stk, fp, sp)
        /\ \A c \in Cell : c > fp => stk[c] = stack[c]
    <3>1. sp >= 4
      BY <1>4, CurrentFrame
    <3>. QED  BY <3>1, SavedWords
  <2>. HIDE DEF stk
  <2>3. /\ stk[0] \in 0 .. StackSize - 4 /\ stk[stk[0] + 1] = fp
        /\ fp \in Cell /\ Framed(stk, stk[stk[0] + 1], stk[0] + 4)
    <3>1. sp - 4 + 1 = sp - 3 /\ sp - 4 + 4 = sp
      BY CurrentFrame
    <3>. QED  BY <2>2, <3>1, CurrentFrame
  <2>4. \/ UNCHANGED machine
        \/ /\ fp' = stk[stk[0] + 1]
           /\ \A c \in Cell : c > fp' => stack'[c] = stk[c]
    BY <1>0, <2>1, <2>2, <2>3, CurrentFrame, FinishStep
  <2>5. UNCHANGED frame_count
    BY <2>1 DEF FinishUndo, machine
  <2>6. fp' = fp /\ \A c \in Cell : c > fp => stack'[c] = stack[c]
    BY <2>2, <2>3, <2>4 DEF machine
  <2>. QED  BY <1>1, <2>5, <2>6, SameFrameCount
<1>. QED  BY <1>2, <1>3, <1>4

LEMMA RestartCount ==
  ASSUME z_restart
  PROVE  CountInv'
<1>. DEFINE path == [i \in 0 .. 0 |-> BaseFrame]
<1>1. fp' = BaseFrame /\ frame_count' = 0 /\ token' = None
  BY DEF z_restart
<1>2. Path(path, 0, stack', BaseFrame)
  BY Constants DEF Path
<1>. HIDE DEF path
<1>. QED  BY <1>1, <1>2 DEF CountInv

\* Every step keeps the count, and every throw that does not end in a fatal
\* error returns from the frame that executed the catch.
LEMMA NextCount ==
  ASSUME NoUndo, Inv, CountInv, [Next]_vars
  PROVE  CountInv'
<1>1. ASSUME NEW at \in Sites, NEW r \in Routines, NEW type \in CallTypes,
             NEW k \in 0 .. MaxArgs, NEW args \in [1 .. k -> Values],
             z_call(at, r, args, type)
      PROVE  CountInv'
  <2>1. /\ UNCHANGED <<token, catcher>>
        /\ frame_count' = (frame_count + 1) % WordSize
    BY <1>1 DEF z_call, ghosts
  <2>2. /\ Inv' /\ \A c \in Cell : c > fp => stack'[c] = stack[c]
        /\ fp' + 4 <= fp /\ stack'[fp' + 2] = fp
    BY <1>1, CallInv
  <2>3. fp' \in Cell
    BY <2>2 DEF Inv, TypeOK
  <2>. QED  BY <2>1, <2>2, <2>3, CallCount
<1>2. ASSUME NEW at \in Sites, call_zero(at)
      PROVE  CountInv'
  BY <1>2, CallZeroInv, SameFrameCount DEF call_zero, ghosts
<1>3. ASSUME NEW at \in Sites, NEW n \in Variables, z_load(at, n)
      PROVE  CountInv'
  BY <1>3, LoadInv, SameFrameCount DEF z_load, ghosts
<1>4. ASSUME NEW at \in Sites, z_catch(at)
      PROVE  CountInv'
  BY <1>4, CatchStepInv, CatchCount DEF z_catch
<1>5. ASSUME NEW at \in Sites, z_save_undo(at)
      PROVE  CountInv'
  BY <1>5, SaveUndoCount
<1>6. ASSUME NEW at \in Sites, z_restore_undo(at)
      PROVE  CountInv'
  <2>1. ~ UndoAvailable
    BY <1>6 DEF NoUndo, z_restore_undo, Executes
  <2>2. /\ TakesResult(at)
        /\ store_operand(stack, sp, fp, datap, at, MINUS_ONE)
        /\ UNCHANGED <<fp, frame_count, token, catcher>>
    BY <1>6, <2>1 DEF z_restore_undo, ghosts
  <2>3. MINUS_ONE \in Word
    BY StoryAssumption DEF MINUS_ONE, Word
  <2>. QED  BY <2>2, <2>3, ResultStep, SameFrameCount
<1>7. ASSUME NEW v \in Values, Return(v)
      PROVE  CountInv'
  <2>1. v \in Word
    BY StoryAssumption
  <2>. QED  BY <1>7, <2>1, CurrentFrame, ReturnFromTopCount DEF Return
<1>8. ASSUME NEW v \in Values, z_throw(v)
      PROVE  CountInv'
  BY <1>8, ThrowCount
<1>9. ASSUME NEW v \in Values, z_push(v)
      PROVE  CountInv'
  BY <1>9, PushInv, SameFrameCount DEF z_push, ghosts
<1>10. ASSUME NEW n \in Variables, NEW v \in Values, StoreVariable(n, v)
       PROVE  CountInv'
  BY <1>10, StoreVariableInv, SameFrameCount DEF StoreVariable, ghosts
<1>11. ASSUME NEW n \in Variables, z_pull(n)
       PROVE  CountInv'
  BY <1>11, PullInv, SameFrameCount DEF z_pull, ghosts
<1>12. ASSUME NEW n \in Variables, NEW by \in {1, -1}, z_inc(n, by)
       PROVE  CountInv'
  BY <1>12, IncInv, SameFrameCount DEF z_inc, ghosts
<1>13. ASSUME NEW n \in Variables, NEW by \in {1, -1}, NEW offset \in BranchReturns,
              z_inc_chk(n, by, offset)
       PROVE  CountInv'
  <2>. DEFINE v == Counted(n, by)
              stk == z_store(stack, sp, fp, n, v)
              data == SetGlobal(datap, n, v)
  <2>1. fp # BaseFrame /\ z_ret(stk, data, fp, frame_count, offset)
        /\ LegalVar(stack, fp, sp, n)
    BY <1>13 DEF z_inc_chk, CanCount
  <2>2. v \in Word /\ offset \in Word
    BY <1>13, CountedWord, StoryAssumption, CallStackAssumption DEF z_inc_chk
  <2>3. stk \in [Cell -> Word] /\ data \in [Globals -> Word]
        /\ \A c \in Cell : c > fp => stk[c] = stack[c]
    BY <2>1, <2>2, StoreStep
  <2>. HIDE DEF stk, data, v
  <2>. QED  BY <2>1, <2>2, <2>3, ReturnFromTopCount
<1>14. ASSUME NEW offset \in BranchReturns, conditional_jump(offset)
       PROVE  CountInv'
  <2>1. offset \in Word
    BY StoryAssumption, CallStackAssumption
  <2>. QED  BY <1>14, <2>1, CurrentFrame, ReturnFromTopCount DEF conditional_jump
<1>15. ret_popped => CountInv'
  <2>. SUFFICES ASSUME ret_popped PROVE CountInv'
    OBVIOUS
  <2>1. stack[sp] \in Word
    BY TopOfStack DEF ret_popped
  <2>. QED  BY <2>1, CurrentFrame, ReturnFromTopCount DEF ret_popped
<1>16. Discard => CountInv'
  BY DiscardInv, SameFrameCount DEF Discard, ghosts
<1>17. z_restart => CountInv'
  BY RestartCount
<1>18. z_quit \/ UNCHANGED vars => CountInv'
  BY SameFrameCount DEF z_quit, vars, machine, ghosts
<1>. QED
  BY <1>1, <1>2, <1>3, <1>4, <1>5, <1>6, <1>7, <1>8, <1>9, <1>10, <1>11, <1>12,
     <1>13, <1>14, <1>15, <1>16, <1>17, <1>18 DEF Next
-----------------------------------------------------------------------------
(* The callers of a frame *)

\* The callers of the frames from index m up, as CallersOf defines them.
IsCallers(u, stk, m) ==
    u = [g \in m .. StackSize - 1 |->
           IF HasCaller(stk, g)
           THEN Append(u[stk[g + 2]], FrameAt(stk, stk[g + 2], g + 5))
           ELSE <<>>]

\* The recursive function of CallersOf exists: it goes up.
LEMMA CallersExist ==
  ASSUME NEW stk \in [Cell -> Word], NEW m \in 0 .. StackSize
  PROVE  \E u : IsCallers(u, stk, m)
<1>0. StackSize \in Nat
  BY Sizes
<1>. DEFINE S == {n \in Nat : n <= StackSize => \E u : IsCallers(u, stk, StackSize - n)}
<1>1. ASSUME NEW n \in Nat, 0 .. n - 1 \subseteq S
      PROVE  n \in S
  <2>. SUFFICES ASSUME n <= StackSize PROVE \E u : IsCallers(u, stk, StackSize - n)
    OBVIOUS
  <2>1. CASE n = 0
    <3>1. IsCallers([g \in (StackSize - 0) .. StackSize - 1 |-> <<>>], stk, StackSize - 0)
      <4>1. (StackSize - 0) .. StackSize - 1 = {}
        BY <1>0
      <4>. QED  BY <4>1 DEF IsCallers
    <3>. QED  BY <2>1, <3>1
  <2>2. CASE n # 0
    <3>. DEFINE l == StackSize - n
    <3>1. n - 1 \in S /\ n - 1 <= StackSize /\ StackSize - (n - 1) = l + 1
          /\ l \in 0 .. StackSize - 1
      BY <1>0, <1>1, <2>2
    <3>2. PICK u : IsCallers(u, stk, l + 1)
      BY <3>1
    <3>. HIDE DEF l
    <3>. DEFINE first == IF HasCaller(stk, l)
                         THEN Append(u[stk[l + 2]], FrameAt(stk, stk[l + 2], l + 5))
                         ELSE <<>>
                w == [g \in l .. StackSize - 1 |-> IF g = l THEN first ELSE u[g]]
    <3>3. l \in l .. StackSize - 1 /\ \A g \in l + 1 .. StackSize - 1 :
                                        g \in l .. StackSize - 1 /\ g # l
      BY <1>0, <3>1
    <3>4. w[l] = first /\ \A g \in l + 1 .. StackSize - 1 : w[g] = u[g]
      BY <3>3
    <3>5. w = [g \in l .. StackSize - 1 |-> w[g]]
      OBVIOUS
    <3>. HIDE DEF w
    <3>6. ASSUME NEW g \in l .. StackSize - 1, HasCaller(stk, g)
          PROVE  w[stk[g + 2]] = u[stk[g + 2]]
      <4>1. g + 2 \in Cell
        BY <1>0, <3>1, <3>6, Sizes DEF HasCaller
      <4>2. stk[g + 2] \in Int
        BY <4>1, WordsAreNumbers
      <4>3. stk[g + 2] \in l + 1 .. StackSize - 1
        BY <1>0, <3>1, <3>6, <4>2 DEF HasCaller
      <4>. QED  BY <3>4, <4>3
    <3>7. ASSUME NEW g \in l .. StackSize - 1
          PROVE  w[g] = IF HasCaller(stk, g)
                        THEN Append(w[stk[g + 2]], FrameAt(stk, stk[g + 2], g + 5))
                        ELSE <<>>
      <4>1. CASE g = l
        BY <3>4, <3>6, <4>1
      <4>2. CASE g # l
        <5>1. g \in l + 1 .. StackSize - 1
          BY <3>1, <4>2
        <5>2. u[g] = IF HasCaller(stk, g)
                     THEN Append(u[stk[g + 2]], FrameAt(stk, stk[g + 2], g + 5))
                     ELSE <<>>
          BY <3>2, <5>1 DEF IsCallers
        <5>. QED  BY <3>4, <3>6, <5>1, <5>2
      <4>. QED  BY <4>1, <4>2
    <3>8. IsCallers(w, stk, l)
      BY <3>5, <3>7 DEF IsCallers
    <3>. QED  BY <3>8 DEF l
  <2>. QED  BY <2>1, <2>2
<1>2. Nat \subseteq S
  <2>. HIDE DEF S
  <2>. QED  BY <1>1, Ladder
<1>3. StackSize - m \in S /\ StackSize - (StackSize - m) = m /\ StackSize - m <= StackSize
  BY <1>0, <1>2
<1>. QED  BY <1>3

LEMMA CallersOfStep ==
  ASSUME NEW stk \in [Cell -> Word], NEW g \in Cell
  PROVE  CallersOf(stk)[g] =
           IF HasCaller(stk, g)
           THEN Append(CallersOf(stk)[stk[g + 2]], FrameAt(stk, stk[g + 2], g + 5))
           ELSE <<>>
<1>. DEFINE u == CHOOSE w : IsCallers(w, stk, 0)
<1>1. 0 \in 0 .. StackSize
  BY Sizes
<1>2. IsCallers(u, stk, 0)
  BY <1>1, CallersExist
<1>3. CallersOf(stk) = u
  BY Sizes DEF CallersOf, IsCallers
<1>. HIDE DEF u
<1>4. g \in 0 .. StackSize - 1
  BY Sizes
<1>5. u[g] = IF HasCaller(stk, g)
             THEN Append(u[stk[g + 2]], FrameAt(stk, stk[g + 2], g + 5))
             ELSE <<>>
  BY <1>2, <1>4 DEF IsCallers
<1>. QED  BY <1>3, <1>5
\* There are as many callers as there are steps to the main routine.
LEMMA CallersOnPath ==
  ASSUME NEW stk \in [Cell -> Word], NEW n \in Nat, NEW f, NEW path,
         Path(path, n, stk, f)
  PROVE  \E T : CallersOf(stk)[f] \in Seq(T) /\ Len(CallersOf(stk)[f]) = n
<1>. DEFINE T == {FrameAt(stk, h, low) : h \in Cell, low \in Int}
            callers == CallersOf(stk)
            S == {k \in Nat : k <= n =>
                    callers[path[n - k]] \in Seq(T) /\ Len(callers[path[n - k]]) = k}
<1>0. \A k \in 0 .. n : path[k] \in Cell /\ path[k] \in 0 .. StackSize - 1
  BY Sizes DEF Path
<1>1. ASSUME NEW k \in Nat, 0 .. k - 1 \subseteq S
      PROVE  k \in S
  <2>. SUFFICES ASSUME k <= n
                PROVE  callers[path[n - k]] \in Seq(T) /\ Len(callers[path[n - k]]) = k
    OBVIOUS
  <2>1. CASE k = 0
    <3>1. path[n - k] = BaseFrame
      BY <2>1 DEF Path
    <3>2. ~ HasCaller(stk, BaseFrame)
      <4>1. ~ (BaseFrame + 4 < StackSize)
        BY Sizes
      <4>. QED  BY <4>1 DEF HasCaller
    <3>3. callers[BaseFrame] = <<>>
      BY <3>2, Constants, CallersOfStep
    <3>. HIDE DEF callers, T
    <3>. QED  BY <2>1, <3>1, <3>3
  <2>2. CASE k # 0
    <3>. DEFINE l == n - k
                g == path[l]
                up == path[l + 1]
    <3>1. k - 1 \in S /\ k - 1 <= n /\ n - (k - 1) = l + 1 /\ l \in 0 .. n - 1
          /\ l \in 0 .. n /\ l + 1 \in 0 .. n
      <4>1. k - 1 \in 0 .. k - 1 /\ k - 1 <= n /\ n - (k - 1) = l + 1
            /\ l \in 0 .. n - 1 /\ l \in 0 .. n /\ l + 1 \in 0 .. n
        BY <2>2
      <4>. HIDE DEF S, l
      <4>. QED  BY <1>1, <4>1
    <3>2. callers[up] \in Seq(T) /\ Len(callers[up]) = k - 1
      BY <3>1
    <3>3. g \in Cell /\ g \in 0 .. StackSize - 1
          /\ up \in Cell /\ up \in 0 .. StackSize - 1
      BY <1>0, <3>1
    <3>4. up = stk[g + 2] /\ up >= g + 4
      BY <3>1 DEF Path
    <3>. HIDE DEF l, g, up
    <3>5. HasCaller(stk, g)
      <4>1. StackSize \in Nat
        BY Sizes
      <4>2. g + 4 < StackSize /\ up > g /\ up < StackSize
        BY <3>3, <3>4, <4>1
      <4>. QED  BY <3>4, <4>2 DEF HasCaller
    <3>6. callers[g] = Append(callers[up], FrameAt(stk, up, g + 5))
      BY <3>3, <3>4, <3>5, CallersOfStep
    <3>7. FrameAt(stk, up, g + 5) \in T
      <4>1. g + 5 \in Int
        BY <3>3
      <4>. QED  BY <3>3, <4>1
    <3>. HIDE DEF callers, T
    <3>8. callers[g] \in Seq(T) /\ Len(callers[g]) = k - 1 + 1
      BY <3>2, <3>6, <3>7
    <3>. QED  BY <3>8 DEF g, l
  <2>. QED  BY <2>1, <2>2
<1>2. Nat \subseteq S
  <2>. HIDE DEF S
  <2>. QED  BY <1>1, Ladder
<1>3. n - n = 0 /\ path[0] = f
  BY DEF Path
<1>4. callers[f] \in Seq(T) /\ Len(callers[f]) = n
  BY <1>2, <1>3
<1>. QED  BY <1>4

THEOREM CountInvariance == NoUndo /\ Spec => [](Inv /\ CountInv)
<1>. SUFFICES ASSUME NoUndo PROVE Spec => [](Inv /\ CountInv)
  OBVIOUS
<1>1. Inv /\ CountInv /\ [Next]_vars => Inv' /\ CountInv'
  BY NextInv, NextCount
<1>2. Init => Inv /\ CountInv
  BY InitInv, InitCount
<1>. QED  BY <1>1, <1>2, PTL DEF Spec

\* Without undo, frame_count is the number of frames the array of words holds,
\* however deep the calls and however often they are unwound.
THEOREM FramesAreCounted == NoUndo /\ Spec => []FrameCountIsDepth
<1>1. Inv /\ CountInv => FrameCountIsDepth
  <2>. SUFFICES ASSUME Inv, CountInv PROVE FrameCountIsDepth
    OBVIOUS
  <2>1. PICK path : Path(path, frame_count, stack, fp)
    BY DEF CountInv
  <2>2. frame_count \in Nat /\ stack \in [Cell -> Word]
    BY CurrentFrame, WordsAreNumbers
  <2>3. PICK T : CallersOf(stack)[fp] \in Seq(T) /\ Len(CallersOf(stack)[fp]) = frame_count
    BY <2>1, <2>2, CallersOnPath
  <2>. DEFINE callers == CallersOf(stack)[fp]
              frame == FrameAt(stack, fp, sp)
  <2>4. callers \in Seq(T \cup {frame}) /\ frame \in T \cup {frame}
    BY <2>3
  <2>. HIDE DEF callers, frame
  <2>5. Len(callers) = frame_count
    BY <2>3 DEF callers
  <2>6. Len(Append(callers, frame)) = frame_count + 1
    BY <2>4, <2>5
  <2>7. FramesOf(stack, fp, sp) = Append(callers, frame)
    BY DEF FramesOf, callers, frame
  <2>. QED  BY <2>2, <2>6, <2>7 DEF FrameCountIsDepth
<1>. QED  BY <1>1, CountInvariance, PTL

\* Without undo, a throw the interpreter carries out returns from the frame that
\* executed the catch, whatever was called and returned from in between.  The
\* fatal error is z_throw's comparison of a frame number with a stack index.
THEOREM ThrowFindsCatcher ==
  NoUndo /\ Spec =>
    [][\A v \in Values : z_throw(v) => \/ token > fp /\ status' = "fatal"
                                       \/ fp' = stack[catcher + 2]]_vars
<1>1. Inv /\ CountInv =>
        [\A v \in Values : z_throw(v) => \/ token > fp /\ status' = "fatal"
                                         \/ fp' = stack[catcher + 2]]_vars
  BY ThrowCount
<1>. QED  BY <1>1, CountInvariance, PTL

-----------------------------------------------------------------------------
(* CallStack implements FrameStack *)

Frame == [type : Nat, args : Nat, ret : Nat, locals : Seq(Word), eval : Seq(Word)]

-----------------------------------------------------------------------------
(* The frame on top of a sequence of frames *)

LEMMA SeqOfFunction ==
  ASSUME NEW S, NEW n \in Nat, NEW s \in [1 .. n -> S]
  PROVE  /\ s \in Seq(S)
         /\ Len(s) = n
OBVIOUS

LEMMA TopFrame ==
  ASSUME NEW cs \in Seq(Frame), NEW fr \in Frame
  PROVE  /\ Append(cs, fr) \in Seq(Frame)
         /\ Len(Append(cs, fr)) = Len(cs) + 1
         /\ Append(cs, fr)[Len(Append(cs, fr))] = fr
         /\ Abstract!TopOf(Append(cs, fr)) = fr
         /\ Abstract!Pop(Append(cs, fr)) = cs
         /\ Abstract!Depth(Append(cs, fr)) = Len(cs)
<1>. DEFINE fs == Append(cs, fr)
<1>1. fs \in Seq(Frame) /\ Len(fs) = Len(cs) + 1 /\ Len(cs) \in Nat
      /\ fs[Len(cs) + 1] = fr
      /\ \A i \in 1 .. Len(cs) : fs[i] = cs[i]
  BY AppendProperties, LenProperties
<1>2. Len(fs) - 1 = Len(cs)
  BY <1>1
<1>3. SubSeq(fs, 1, Len(cs)) = cs
  <2>1. \A i \in 1 .. Len(cs) : fs[i] \in Frame
    BY <1>1, ElementOfSeq
  <2>2. SubSeq(fs, 1, Len(cs)) \in Seq(Frame) /\ Len(SubSeq(fs, 1, Len(cs))) = Len(cs)
        /\ \A i \in 1 .. Len(cs) : SubSeq(fs, 1, Len(cs))[i] = fs[i]
    BY <1>1, <2>1, SubSeqProperties
  <2>. QED  BY <1>1, <2>2, SeqEqual
<1>. QED  BY <1>1, <1>2, <1>3 DEF Abstract!TopOf, Abstract!Pop, Abstract!Depth

LEMMA TopReplaced ==
  ASSUME NEW cs \in Seq(Frame), NEW fr \in Frame, NEW fr2 \in Frame
  PROVE  [Append(cs, fr) EXCEPT ![Len(Append(cs, fr))] = fr2] = Append(cs, fr2)
<1>. DEFINE fs == Append(cs, fr)
            gs == Append(cs, fr2)
            hs == [fs EXCEPT ![Len(fs)] = fr2]
<1>1. Len(cs) \in Nat
  BY LenProperties
<1>2. fs \in Seq(Frame) /\ Len(fs) = Len(cs) + 1
      /\ \A i \in 1 .. Len(cs) : fs[i] = cs[i]
  BY AppendProperties
<1>3. gs \in Seq(Frame) /\ Len(gs) = Len(cs) + 1 /\ gs[Len(cs) + 1] = fr2
      /\ \A i \in 1 .. Len(cs) : gs[i] = cs[i]
  BY AppendProperties
<1>. HIDE DEF fs, gs
<1>4. Len(fs) \in 1 .. Len(fs) /\ fs \in Seq(Frame)
  BY <1>1, <1>2
<1>5. hs \in Seq(Frame) /\ Len(hs) = Len(fs)
      /\ \A j \in 1 .. Len(fs) : hs[j] = IF j = Len(fs) THEN fr2 ELSE fs[j]
  <2>. DEFINE n == Len(fs)
  <2>1. n \in 1 .. n /\ n \in 1 .. Len(fs)
    BY <1>4
  <2>2. DOMAIN fs = 1 .. n /\ n \in Nat
    BY <1>4, LenProperties
  <2>. HIDE DEF n
  <2>3. fs \in [1 .. n -> Frame]
    BY <1>4, <2>2
  <2>4. [fs EXCEPT ![n] = fr2] \in [1 .. n -> Frame]
    BY <2>3
  <2>5. \A j \in 1 .. n : [fs EXCEPT ![n] = fr2][j] = IF j = n THEN fr2 ELSE fs[j]
    BY <2>3
  <2>6. hs \in Seq(Frame) /\ Len(hs) = n
    BY <2>2, <2>4, SeqOfFunction DEF n
  <2>. QED  BY <2>5, <2>6 DEF n
<1>6. \A j \in 1 .. Len(fs) : hs[j] = gs[j]
  <2>. HIDE DEF hs
  <2>. QED  BY <1>1, <1>2, <1>3, <1>5
<1>. HIDE DEF hs
<1>7. hs = gs
  BY <1>2, <1>3, <1>5, <1>6, SeqEqual
<1>. QED  BY <1>7 DEF fs, gs, hs

\* What the operators of FrameStack do to the frame on top.
LEMMA TopOperators ==
  ASSUME NEW cs \in Seq(Frame), NEW fr \in Frame
  PROVE  /\ \A v \in Word :
              Abstract!PushValue(Append(cs, fr), v) =
                Append(cs, [fr EXCEPT !.eval = Append(fr.eval, v)])
         /\ fr.eval # <<>> =>
              Abstract!PopValue(Append(cs, fr)) =
                Append(cs, [fr EXCEPT !.eval = SubSeq(fr.eval, 1, Len(fr.eval) - 1)])
         /\ Abstract!TopValue(Append(cs, fr)) = fr.eval[Len(fr.eval)]
         /\ \A n \in LocalNumbers, v \in Word :
              n <= Len(fr.locals) =>
                Abstract!PutVar(Append(cs, fr), n, v) =
                  Append(cs, [fr EXCEPT !.locals[n] = v])
<1>. DEFINE fs == Append(cs, fr)
<1>1. fs[Len(fs)] = fr /\ Abstract!TopOf(fs) = fr /\ fs \in Seq(Frame)
      /\ Len(fs) \in 1 .. Len(fs)
  <2>1. Len(cs) \in Nat
    BY LenProperties
  <2>. QED  BY <2>1, TopFrame
<1>2. ASSUME NEW e \in Seq(Word)
      PROVE  /\ [fr EXCEPT !.eval = e] \in Frame
             /\ [fs EXCEPT ![Len(fs)] = [fr EXCEPT !.eval = e]]
                  = Append(cs, [fr EXCEPT !.eval = e])
  <2>1. [fr EXCEPT !.eval = e] \in Frame
    BY DEF Frame
  <2>. QED  BY <2>1, TopReplaced
<1>3. fr.eval \in Seq(Word) /\ fr.locals \in Seq(Word)
  BY DEF Frame
<1>4. ASSUME NEW v \in Word
      PROVE  Abstract!PushValue(fs, v) =
               Append(cs, [fr EXCEPT !.eval = Append(fr.eval, v)])
  <2>1. Append(fr.eval, v) \in Seq(Word)
    BY <1>3, AppendProperties
  <2>2. Abstract!PushValue(fs, v) =
          [fs EXCEPT ![Len(fs)] = [fr EXCEPT !.eval = Append(fr.eval, v)]]
    <3>. HIDE DEF fs
    <3>. QED  BY <1>1 DEF Abstract!PushValue
  <2>. QED  BY <1>2, <2>1, <2>2
<1>5. ASSUME fr.eval # <<>>
      PROVE  Abstract!PopValue(fs) =
               Append(cs, [fr EXCEPT !.eval = SubSeq(fr.eval, 1, Len(fr.eval) - 1)])
  <2>. DEFINE e == SubSeq(fr.eval, 1, Len(fr.eval) - 1)
  <2>1. e \in Seq(Word)
    <3>1. \A i \in 1 .. Len(fr.eval) - 1 : fr.eval[i] \in Word
      BY <1>3, LenProperties, ElementOfSeq
    <3>. QED  BY <1>3, <3>1, LenProperties, SubSeqProperties
  <2>2. Abstract!PopValue(fs) = [fs EXCEPT ![Len(fs)] = [fr EXCEPT !.eval = e]]
    <3>. HIDE DEF fs
    <3>. QED  BY <1>1 DEF Abstract!PopValue
  <2>. HIDE DEF e
  <2>. QED  BY <1>2, <2>1, <2>2 DEF e
<1>6. Abstract!TopValue(fs) = fr.eval[Len(fr.eval)]
  BY <1>1 DEF Abstract!TopValue
<1>7. ASSUME NEW n \in LocalNumbers, NEW v \in Word, n <= Len(fr.locals)
      PROVE  Abstract!PutVar(fs, n, v) = Append(cs, [fr EXCEPT !.locals[n] = v])
  <2>. DEFINE l == [fr.locals EXCEPT ![n] = v]
              fr2 == [fr EXCEPT !.locals = l]
  <2>0. n # 0 /\ n \in 1 .. 15 /\ Len(fr.locals) \in Nat
    BY <1>3, LenProperties DEF LocalNumbers
  <2>1. l \in Seq(Word)
    <3>1. n \in 1 .. Len(fr.locals)
      BY <1>7, <2>0
    <3>. QED  BY <1>3, <3>1, ExceptSeq
  <2>2. fr2 \in Frame /\ fr2 = [fr EXCEPT !.locals[n] = v]
    BY <2>1 DEF Frame
  <2>4. Abstract!PutVar(fs, n, v) = [fs EXCEPT ![Len(fs)].locals[n] = v]
    BY <2>0 DEF Abstract!PutVar, Abstract!LocalNumbers
  <2>5. [fs EXCEPT ![Len(fs)].locals[n] = v] = [fs EXCEPT ![Len(fs)] = fr2]
    <3>. HIDE DEF fs
    <3>. QED  BY <1>1
  <2>6. [fs EXCEPT ![Len(fs)] = fr2] = Append(cs, fr2)
    <3>1. fr2 \in Frame
      BY <2>2
    <3>. HIDE DEF fr2
    <3>. QED  BY <3>1, TopReplaced
  <2>. HIDE DEF fr2, fs
  <2>. QED  BY <2>2, <2>4, <2>5, <2>6
<1>. QED  BY <1>4, <1>5, <1>6, <1>7
-----------------------------------------------------------------------------
(* The words of a frame *)

LEMMA WordsOfStack ==
  ASSUME NEW stk \in [Cell -> Word], NEW hi \in Int, NEW lo \in Nat,
         hi < StackSize, lo <= hi + 1
  PROVE  /\ WordsDown(stk, hi, lo) \in Seq(Word)
         /\ Len(WordsDown(stk, hi, lo)) = hi - lo + 1
         /\ \A i \in 1 .. hi - lo + 1 : /\ hi - i + 1 \in Cell
                                        /\ WordsDown(stk, hi, lo)[i] = stk[hi - i + 1]
<1>. DEFINE n == hi - lo + 1
<1>1. n \in Nat
  OBVIOUS
<1>2. \A i \in 1 .. n : hi - i + 1 \in Cell
  <2>. SUFFICES ASSUME NEW i \in 1 .. n PROVE hi - i + 1 \in 0 .. StackSize - 1
    BY Sizes
  <2>1. StackSize \in Nat
    BY Sizes
  <2>. QED  BY <2>1
<1>3. WordsDown(stk, hi, lo) = [i \in 1 .. n |-> stk[hi - i + 1]]
  BY DEF WordsDown
<1>4. [i \in 1 .. n |-> stk[hi - i + 1]] \in [1 .. n -> Word]
  BY <1>2
<1>. HIDE DEF n
<1>5. WordsDown(stk, hi, lo) \in Seq(Word) /\ Len(WordsDown(stk, hi, lo)) = n
  BY <1>1, <1>3, <1>4, SeqOfFunction
<1>. QED  BY <1>2, <1>3, <1>5 DEF n

\* Where the parts of the frame in use lie.
LEMMA FrameBounds ==
  ASSUME NEW stk \in [Cell -> Word], NEW f \in Cell, NEW s \in 0 .. StackSize,
         Framed(stk, f, s)
  PROVE  /\ VarsOfFrame(stk, f) \in 0 .. 15
         /\ f \in 0 .. StackSize - 1
         /\ s <= f + 1 - VarsOfFrame(stk, f)
         /\ f # BaseFrame =>
              /\ f + 1 \in Cell /\ f + 2 \in Cell /\ f + 3 \in Cell /\ f + 4 \in Cell
              /\ stk[f + 2] \in Cell
              /\ VarsOfFrame(stk, stk[f + 2]) \in 0 .. 15
              /\ f + 4 + VarsOfFrame(stk, stk[f + 2]) <= stk[f + 2]
              /\ Framed(stk, stk[f + 2], f + 5)
              /\ ResultFits(stk, f) /\ CallFits(stk, f)
<1>1. VarsOfFrame(stk, f) \in 0 .. 15 /\ f \in 0 .. StackSize - 1
      /\ s <= f + 1 - VarsOfFrame(stk, f)
  BY VarsOfFrameInRange, Sizes DEF Framed
<1>2. ASSUME f # BaseFrame
      PROVE  /\ f + 1 \in Cell /\ f + 2 \in Cell /\ f + 3 \in Cell /\ f + 4 \in Cell
             /\ stk[f + 2] \in Cell
             /\ VarsOfFrame(stk, stk[f + 2]) \in 0 .. 15
             /\ f + 4 + VarsOfFrame(stk, stk[f + 2]) <= stk[f + 2]
             /\ Framed(stk, stk[f + 2], f + 5)
             /\ ResultFits(stk, f) /\ CallFits(stk, f)
  <2>. DEFINE c == stk[f + 2]
              m == VarsOfFrame(stk, c)
  <2>1. PICK F : Chain(F, stk, f)
    BY DEF Framed
  <2>2. f \in F /\ ResultFits(stk, f) /\ CallFits(stk, f)
    BY <1>2, <2>1 DEF Chain
  <2>3. /\ f + 4 \in Cell /\ c \in Cell
        /\ m \in 0 .. 15
        /\ f + 4 + m <= c
        /\ Chain({h \in F : h >= c}, stk, c)
    BY <1>2, <2>1, <2>2, ChainOfCaller
  <2>. HIDE DEF c, m
  <2>4. /\ f + 1 \in 0 .. StackSize - 1 /\ f + 2 \in 0 .. StackSize - 1
        /\ f + 3 \in 0 .. StackSize - 1
        /\ f + 5 <= c + 1 - m
    <3>1. f \in Nat /\ f + 4 \in 0 .. StackSize - 1 /\ c \in Nat /\ StackSize \in Nat
      BY <1>1, <2>3, Sizes
    <3>. QED  BY <2>3, <3>1
  <2>5. Framed(stk, c, f + 5)
    BY <2>3, <2>4 DEF Framed, m
  <2>. QED  BY <2>2, <2>3, <2>4, <2>5, Sizes DEF c, m
<1>. QED  BY <1>1, <1>2

\* The parts of the frame in use.
LEMMA FrameParts ==
  ASSUME NEW stk \in [Cell -> Word], NEW f \in Cell, NEW s \in 0 .. StackSize,
         Framed(stk, f, s)
  PROVE  LET n  == VarsOfFrame(stk, f)
             fr == FrameAt(stk, f, s) IN
         /\ fr \in Frame
         /\ fr.locals = WordsDown(stk, f, f - n + 1)
         /\ fr.locals \in Seq(Word)
         /\ Len(fr.locals) = n
         /\ \A i \in 1 .. n : f - i + 1 \in Cell /\ fr.locals[i] = stk[f - i + 1]
         /\ fr.eval = WordsDown(stk, f - n, s)
         /\ fr.eval \in Seq(Word)
         /\ Len(fr.eval) = EvalSize(stk, f, s)
         /\ EvalSize(stk, f, s) \in Nat
         /\ \A i \in 1 .. EvalSize(stk, f, s) :
              f - n - i + 1 \in Cell /\ fr.eval[i] = stk[f - n - i + 1]
         /\ f # BaseFrame => fr.type = TypeOf(stk[f + 1]) /\ fr.ret = ReturnsTo(stk, f)
<1>. DEFINE n  == VarsOfFrame(stk, f)
            fr == FrameAt(stk, f, s)
            m  == EvalSize(stk, f, s)
<1>1. n \in 0 .. 15 /\ f \in 0 .. StackSize - 1 /\ s <= f + 1 - n
  BY FrameBounds
<1>2. m = f + 1 - n - s
  BY DEF EvalSize
<1>. HIDE DEF n, m
<1>3. /\ f - n + 1 \in Nat /\ f < StackSize /\ f - n + 1 <= f + 1
      /\ f - (f - n + 1) + 1 = n
      /\ f \in Int
      /\ s \in Nat /\ f - n < StackSize /\ s <= f - n + 1
      /\ f - n - s + 1 = m
      /\ m \in Nat /\ f - n \in Int
  <2>1. StackSize \in Nat
    BY Sizes
  <2>. QED  BY <1>1, <1>2, <2>1
<1>4. /\ WordsDown(stk, f, f - n + 1) \in Seq(Word)
      /\ Len(WordsDown(stk, f, f - n + 1)) = n
      /\ \A i \in 1 .. n : /\ f - i + 1 \in Cell
                           /\ WordsDown(stk, f, f - n + 1)[i] = stk[f - i + 1]
  <2>. DEFINE lo == f - n + 1
  <2>1. lo \in Nat /\ lo <= f + 1 /\ f - lo + 1 = n
    BY <1>3
  <2>. HIDE DEF lo
  <2>2. /\ WordsDown(stk, f, lo) \in Seq(Word)
        /\ Len(WordsDown(stk, f, lo)) = f - lo + 1
        /\ \A i \in 1 .. f - lo + 1 : /\ f - i + 1 \in Cell
                                      /\ WordsDown(stk, f, lo)[i] = stk[f - i + 1]
    BY <1>3, <2>1, WordsOfStack
  <2>. QED  BY <2>1, <2>2 DEF lo
<1>5. /\ WordsDown(stk, f - n, s) \in Seq(Word)
      /\ Len(WordsDown(stk, f - n, s)) = m
      /\ \A i \in 1 .. m : /\ f - n - i + 1 \in Cell
                           /\ WordsDown(stk, f - n, s)[i] = stk[f - n - i + 1]
  <2>. DEFINE hi == f - n
  <2>1. hi \in Int /\ hi < StackSize /\ s <= hi + 1 /\ hi - s + 1 = m
    BY <1>3
  <2>. HIDE DEF hi
  <2>2. /\ WordsDown(stk, hi, s) \in Seq(Word)
        /\ Len(WordsDown(stk, hi, s)) = hi - s + 1
        /\ \A i \in 1 .. hi - s + 1 : /\ hi - i + 1 \in Cell
                                      /\ WordsDown(stk, hi, s)[i] = stk[hi - i + 1]
    BY <1>3, <2>1, WordsOfStack
  <2>3. /\ Len(WordsDown(stk, hi, s)) = m
        /\ \A i \in 1 .. m : /\ hi - i + 1 \in Cell
                             /\ WordsDown(stk, hi, s)[i] = stk[hi - i + 1]
    BY <2>1, <2>2
  <2>. QED  BY <2>2, <2>3 DEF hi
<1>6. fr.locals = WordsDown(stk, f, f - n + 1) /\ fr.eval = WordsDown(stk, f - n, s)
  BY DEF FrameAt, n
<1>7. f # BaseFrame => fr.type = TypeOf(stk[f + 1]) /\ fr.ret = ReturnsTo(stk, f)
  BY DEF FrameAt, ReturnsTo
<1>8. fr \in Frame
  <2>1. CASE f = BaseFrame
    BY <1>4, <1>5, <2>1 DEF FrameAt, Frame, PROCEDURE, n
  <2>2. CASE f # BaseFrame
    <3>1. stk[f + 1] \in Nat /\ stk[f + 3] \in Nat /\ stk[f + 4] \in Nat
      BY <2>2, FrameBounds, WordsAreNumbers
    <3>2. TypeOf(stk[f + 1]) \in Nat /\ ArgsOf(stk[f + 1]) \in Nat
      BY <3>1 DEF TypeOf, ArgsOf
    <3>3. stk[f + 3] + stk[f + 4] * PageSize \in Nat
      <4>1. PageSize \in Nat
        BY CallStackAssumption, Constants
      <4>. QED  BY <3>1, <4>1
    <3>. QED  BY <1>4, <1>5, <2>2, <3>2, <3>3 DEF FrameAt, Frame, n
  <2>. QED  BY <2>1, <2>2
<1>. HIDE DEF fr
<1>. QED  BY <1>3, <1>4, <1>5, <1>6, <1>7, <1>8 DEF fr, n, m
\* What is below the evaluation stack of a frame is not part of it.
LEMMA FrameKeptAs ==
  ASSUME NEW stk \in [Cell -> Word], NEW stk2 \in [Cell -> Word],
         NEW f \in Cell, NEW s \in 0 .. StackSize, Framed(stk, f, s),
         \A c \in Cell : c >= s => stk2[c] = stk[c]
  PROVE  FrameAt(stk2, f, s) = FrameAt(stk, f, s)
<1>. DEFINE n == VarsOfFrame(stk, f)
<1>1. n \in 0 .. 15 /\ f \in 0 .. StackSize - 1 /\ s <= f + 1 - n
      /\ (f # BaseFrame => f + 1 \in Cell /\ f + 3 \in Cell /\ f + 4 \in Cell)
  BY FrameBounds
<1>2. f # BaseFrame => /\ stk2[f + 1] = stk[f + 1] /\ stk2[f + 3] = stk[f + 3]
                       /\ stk2[f + 4] = stk[f + 4]
  <2>. HIDE DEF n
  <2>1. f + 1 >= s /\ f + 3 >= s /\ f + 4 >= s
    BY <1>1
  <2>. QED  BY <1>1, <2>1
<1>3. VarsOfFrame(stk2, f) = n
  BY <1>2 DEF VarsOfFrame
<1>. HIDE DEF n
<1>4. ASSUME NEW hi \in Int, NEW lo \in Int, s <= lo, hi < StackSize
      PROVE  WordsDown(stk2, hi, lo) = WordsDown(stk, hi, lo)
  <2>1. ASSUME NEW i \in 1 .. hi - lo + 1
        PROVE  stk2[hi - i + 1] = stk[hi - i + 1]
    <3>1. hi - i + 1 \in 0 .. StackSize - 1 /\ hi - i + 1 >= s
      <4>1. StackSize \in Nat
        BY Sizes
      <4>. QED  BY <1>4, <4>1
    <3>. QED  BY <3>1, Sizes
  <2>. QED  BY <2>1 DEF WordsDown
<1>5. WordsDown(stk2, f, f - n + 1) = WordsDown(stk, f, f - n + 1)
  <2>1. f \in Int /\ f - n + 1 \in Int /\ s <= f - n + 1 /\ f < StackSize
    BY <1>1, Sizes
  <2>. QED  BY <1>4, <2>1
<1>6. WordsDown(stk2, f - n, s) = WordsDown(stk, f - n, s)
  <2>1. f - n \in Int /\ s \in Int /\ s <= s /\ f - n < StackSize
    BY <1>1, Sizes
  <2>. QED  BY <1>4, <2>1
<1>. QED  BY <1>2, <1>3, <1>5, <1>6 DEF FrameAt, n

-----------------------------------------------------------------------------
(* The frames of a chain *)

\* What holds for the main routine, and for a frame when it holds for its
\* caller, holds on the whole chain.
LEMMA ChainInduction ==
  ASSUME NEW stk \in [Cell -> Word], NEW f \in Cell, NEW F, Chain(F, stk, f),
         NEW S, BaseFrame \in S,
         \A g \in F \ {BaseFrame} : stk[g + 2] \in S => g \in S
  PROVE  F \subseteq S
<1>. DEFINE T == {n \in Nat : \A g \in F : BaseFrame - g = n => g \in S}
<1>1. ASSUME NEW n \in Nat, 0 .. n - 1 \subseteq T
      PROVE  n \in T
  <2>. SUFFICES ASSUME NEW g \in F, BaseFrame - g = n, g # BaseFrame
                PROVE  g \in S
    OBVIOUS
  <2>1. stk[g + 2] \in F /\ g + 4 + VarsOfFrame(stk, stk[g + 2]) <= stk[g + 2]
        /\ F \subseteq Cell
    BY DEF Chain
  <2>. DEFINE c == stk[g + 2]
              m == VarsOfFrame(stk, c)
  <2>2. c \in F /\ c \in 0 .. StackSize - 1 /\ g \in 0 .. StackSize - 1
        /\ m \in 0 .. 15 /\ g + 4 + m <= c
    <3>1. c \in Cell /\ g \in Cell
      BY <2>1
    <3>2. m \in 0 .. 15
      BY <3>1, VarsOfFrameInRange
    <3>. QED  BY <2>1, <3>1, <3>2, Sizes
  <2>. HIDE DEF c, m
  <2>3. BaseFrame - c \in 0 .. n - 1
    <3>1. BaseFrame = StackSize - 1 /\ StackSize \in Nat
      BY Sizes
    <3>. QED  BY <2>2, <3>1
  <2>4. BaseFrame - c \in T
    <3>. HIDE DEF T
    <3>. QED  BY <1>1, <2>3
  <2>5. c \in S
    BY <2>2, <2>4
  <2>. QED  BY <2>5 DEF c
<1>2. Nat \subseteq T
  <2>. HIDE DEF T
  <2>. QED  BY <1>1, Ladder
<1>3. ASSUME NEW g \in F
      PROVE  g \in S
  <2>1. g \in 0 .. StackSize - 1
    BY Sizes DEF Chain
  <2>2. BaseFrame - g \in Nat
    BY <2>1, Sizes
  <2>. QED  BY <1>2, <2>2
<1>. QED  BY <1>3

\* The callers of a frame are the frames of its caller.
LEMMA FramesOfCaller ==
  ASSUME NEW stk \in [Cell -> Word], NEW f \in Cell, NEW F, Chain(F, stk, f),
         NEW g \in F
  PROVE  CallersOf(stk)[g] = IF g = BaseFrame THEN <<>>
                             ELSE FramesOf(stk, stk[g + 2], g + 5)
<1>0. g \in Cell
  BY DEF Chain
<1>1. CASE g = BaseFrame
  <2>1. ~ (BaseFrame + 4 < StackSize)
    BY Sizes
  <2>2. ~ HasCaller(stk, BaseFrame)
    BY <2>1 DEF HasCaller
  <2>. QED  BY <1>1, <2>2, Constants, CallersOfStep
<1>2. CASE g # BaseFrame
  <2>1. stk[g + 2] \in F /\ g + 4 + VarsOfFrame(stk, stk[g + 2]) <= stk[g + 2]
        /\ F \subseteq Cell
    BY <1>2 DEF Chain
  <2>. DEFINE c == stk[g + 2]
              m == VarsOfFrame(stk, c)
  <2>2. c \in 0 .. StackSize - 1 /\ g \in 0 .. StackSize - 1
        /\ m \in 0 .. 15 /\ g + 4 + m <= c
    <3>1. c \in Cell
      BY <2>1
    <3>2. m \in 0 .. 15
      BY <3>1, VarsOfFrameInRange
    <3>. QED  BY <1>0, <2>1, <3>1, <3>2, Sizes
  <2>. HIDE DEF c, m
  <2>3. g + 4 < StackSize /\ c > g /\ c < StackSize
    <3>1. StackSize \in Nat
      BY Sizes
    <3>. QED  BY <2>2, <3>1
  <2>4. HasCaller(stk, g)
    BY <2>3 DEF HasCaller, c
  <2>5. CallersOf(stk)[g] = Append(CallersOf(stk)[c], FrameAt(stk, c, g + 5))
    BY <1>0, <2>4, CallersOfStep DEF c
  <2>. QED  BY <1>2, <2>5 DEF FramesOf, c
<1>. QED  BY <1>1, <1>2

\* The frame of a caller, with the evaluation stack it has while it waits.
LEMMA WaitingFrame ==
  ASSUME NEW stk \in [Cell -> Word], NEW f \in Cell, NEW F, Chain(F, stk, f),
         NEW g \in F \ {BaseFrame}
  PROVE  /\ g \in Cell /\ stk[g + 2] \in F /\ stk[g + 2] \in Cell
         /\ g + 5 \in 0 .. StackSize
         /\ Framed(stk, stk[g + 2], g + 5)
<1>1. g \in Cell
  BY DEF Chain
<1>2. Chain({h \in F : h >= g}, stk, g)
  BY ChainFrom
<1>4. /\ stk[g + 2] \in F /\ stk[g + 2] \in Cell /\ g + 4 \in Cell
      /\ VarsOfFrame(stk, stk[g + 2]) \in 0 .. 15
      /\ g + 4 + VarsOfFrame(stk, stk[g + 2]) <= stk[g + 2]
      /\ Chain({h \in {h \in F : h >= g} : h >= stk[g + 2]}, stk, stk[g + 2])
  <2>1. g \in {h \in F : h >= g}
    BY <1>2 DEF Chain
  <2>2. stk[g + 2] \in F
    BY DEF Chain
  <2>. QED  BY <1>1, <1>2, <2>1, <2>2, ChainOfCaller
<1>. DEFINE c == stk[g + 2]
            m == VarsOfFrame(stk, c)
<1>5. g + 5 \in 0 .. StackSize /\ g + 5 <= c + 1 - m
  <2>1. c \in 0 .. StackSize - 1 /\ g + 4 \in 0 .. StackSize - 1 /\ g \in 0 .. StackSize - 1
        /\ m \in 0 .. 15 /\ g + 4 + m <= c /\ StackSize \in Nat
    BY <1>1, <1>4, Sizes
  <2>. HIDE DEF c, m
  <2>. QED  BY <2>1
<1>6. Framed(stk, c, g + 5)
  BY <1>4, <1>5 DEF Framed
<1>. QED  BY <1>1, <1>4, <1>5, <1>6

LEMMA CallersTyped ==
  ASSUME NEW stk \in [Cell -> Word], NEW f \in Cell, NEW F, Chain(F, stk, f)
  PROVE  \A g \in F : CallersOf(stk)[g] \in Seq(Frame)
<1>. DEFINE S == {g \in F : CallersOf(stk)[g] \in Seq(Frame)}
<1>1. BaseFrame \in S
  <2>1. BaseFrame \in F
    BY DEF Chain
  <2>2. CallersOf(stk)[BaseFrame] = <<>>
    BY <2>1, FramesOfCaller
  <2>3. <<>> \in Seq(Frame)
    OBVIOUS
  <2>. QED  BY <2>1, <2>2, <2>3
<1>2. ASSUME NEW g \in F \ {BaseFrame}, stk[g + 2] \in S
      PROVE  g \in S
  <2>. DEFINE c == stk[g + 2]
  <2>1. CallersOf(stk)[g] = Append(CallersOf(stk)[c], FrameAt(stk, c, g + 5))
    BY FramesOfCaller DEF FramesOf
  <2>2. FrameAt(stk, c, g + 5) \in Frame
    BY WaitingFrame, FrameParts
  <2>3. CallersOf(stk)[c] \in Seq(Frame)
    BY <1>2
  <2>. DEFINE callers == CallersOf(stk)[c]
              fr      == FrameAt(stk, c, g + 5)
  <2>4. callers \in Seq(Frame) /\ fr \in Frame /\ CallersOf(stk)[g] = Append(callers, fr)
    BY <2>1, <2>2, <2>3
  <2>. HIDE DEF callers, fr
  <2>5. CallersOf(stk)[g] \in Seq(Frame)
    BY <2>4, AppendProperties
  <2>. QED  BY <2>5
<1>3. F \subseteq S
  <2>. HIDE DEF S
  <2>. QED  BY <1>1, <1>2, ChainInduction
<1>. QED  BY <1>3

\* A frame of the chain and its callers depend on the words above it only.
LEMMA CallersKept ==
  ASSUME NEW stk \in [Cell -> Word], NEW stk2 \in [Cell -> Word],
         NEW f \in Cell, NEW F, Chain(F, stk, f),
         \A c \in Cell : c > f => stk2[c] = stk[c]
  PROVE  \A g \in F : CallersOf(stk2)[g] = CallersOf(stk)[g]
<1>. DEFINE S == {g \in F : CallersOf(stk2)[g] = CallersOf(stk)[g]}
<1>0. Chain(F, stk2, f)
  BY ChainAbove
<1>1. BaseFrame \in S
  <2>1. BaseFrame \in F
    BY DEF Chain
  <2>. QED  BY <1>0, <2>1, FramesOfCaller
<1>2. ASSUME NEW g \in F \ {BaseFrame}, stk[g + 2] \in S
      PROVE  g \in S
  <2>. DEFINE c == stk[g + 2]
  <2>1. /\ g \in Cell /\ c \in F /\ c \in Cell /\ g + 5 \in 0 .. StackSize
        /\ Framed(stk, c, g + 5)
    BY WaitingFrame
  <2>2. g >= f /\ f \in 0 .. StackSize - 1 /\ g \in 0 .. StackSize - 1
        /\ c \in 0 .. StackSize - 1
    BY <2>1, Sizes DEF Chain
  <2>3. stk2[g + 2] = c
    <3>1. g + 4 \in Cell
      <4>1. f = BaseFrame => g = BaseFrame
        BY <2>2, Sizes
      <4>. QED  BY <4>1, ChainOfCaller
    <3>2. g + 2 \in Cell /\ g + 2 > f
      <4>1. g + 4 \in 0 .. StackSize - 1 /\ StackSize \in Nat
        BY <3>1, Sizes
      <4>2. g + 2 \in 0 .. StackSize - 1 /\ g + 2 > f
        BY <2>2, <4>1
      <4>. QED  BY <4>2, Sizes
    <3>. QED  BY <3>2
  <2>4. CallersOf(stk)[g] = Append(CallersOf(stk)[c], FrameAt(stk, c, g + 5))
    BY FramesOfCaller DEF FramesOf
  <2>5. CallersOf(stk2)[g] = Append(CallersOf(stk2)[c], FrameAt(stk2, c, g + 5))
    BY <1>0, <2>3, FramesOfCaller DEF FramesOf
  <2>6. CallersOf(stk2)[c] = CallersOf(stk)[c]
    BY <1>2
  <2>. HIDE DEF c
  <2>7. FrameAt(stk2, c, g + 5) = FrameAt(stk, c, g + 5)
    <3>1. \A d \in Cell : d >= g + 5 => stk2[d] = stk[d]
      <4>. SUFFICES ASSUME NEW d \in Cell, d >= g + 5 PROVE d > f
        OBVIOUS
      <4>1. d \in Int
        BY Sizes
      <4>. QED  BY <2>2, <4>1
    <3>. QED  BY <2>1, <3>1, FrameKeptAs
  <2>. QED  BY <2>4, <2>5, <2>6, <2>7
<1>3. F \subseteq S
  <2>. HIDE DEF S
  <2>. QED  BY <1>1, <1>2, ChainInduction
<1>. QED  BY <1>3
LEMMA FramesTyped ==
  ASSUME NEW stk \in [Cell -> Word], NEW f \in Cell, NEW s \in 0 .. StackSize,
         Framed(stk, f, s)
  PROVE  /\ CallersOf(stk)[f] \in Seq(Frame)
         /\ FrameAt(stk, f, s) \in Frame
         /\ CallersOf(stk)[f] = IF f = BaseFrame THEN <<>>
                                ELSE FramesOf(stk, stk[f + 2], f + 5)
<1>1. PICK F : Chain(F, stk, f)
  BY DEF Framed
<1>2. f \in F
  BY <1>1 DEF Chain
<1>. QED  BY <1>1, <1>2, CallersTyped, FramesOfCaller, FrameParts

LEMMA FramesKept ==
  ASSUME NEW stk \in [Cell -> Word], NEW stk2 \in [Cell -> Word],
         NEW f \in Cell, NEW s \in 0 .. StackSize, Framed(stk, f, s),
         \A c \in Cell : c >= s => stk2[c] = stk[c]
  PROVE  FramesOf(stk2, f, s) = FramesOf(stk, f, s)
<1>1. PICK F : Chain(F, stk, f)
  BY DEF Framed
<1>2. f \in F
  BY <1>1 DEF Chain
<1>3. \A c \in Cell : c > f => stk2[c] = stk[c]
  <2>. SUFFICES ASSUME NEW c \in Cell, c > f PROVE c >= s
    OBVIOUS
  <2>. DEFINE n == VarsOfFrame(stk, f)
  <2>1. n \in 0 .. 15 /\ f \in 0 .. StackSize - 1 /\ s <= f + 1 - n /\ c \in Int
    BY FrameBounds, Sizes
  <2>. HIDE DEF n
  <2>. QED  BY <2>1
<1>4. CallersOf(stk2)[f] = CallersOf(stk)[f]
  BY <1>1, <1>2, <1>3, CallersKept
<1>. QED  BY <1>4, FrameKeptAs DEF FramesOf

-----------------------------------------------------------------------------
(* What an instruction does to the frame in use *)

\* Pushing a word.
LEMMA PushRefines ==
  ASSUME NEW stk \in [Cell -> Word], NEW f \in Cell, NEW s \in 1 .. StackSize,
         Framed(stk, f, s), NEW v \in Word
  PROVE  FramesOf([stk EXCEPT ![s - 1] = v], f, s - 1)
           = Abstract!PushValue(FramesOf(stk, f, s), v)
<1>. DEFINE stk2 == [stk EXCEPT ![s - 1] = v]
            n  == VarsOfFrame(stk, f)
            fr == FrameAt(stk, f, s)
            fr2 == FrameAt(stk2, f, s - 1)
<1>1. /\ n \in 0 .. 15 /\ f \in 0 .. StackSize - 1 /\ s <= f + 1 - n /\ f \in Nat
      /\ (f # BaseFrame => f + 1 \in Cell /\ f + 3 \in Cell /\ f + 4 \in Cell)
      /\ s \in 0 .. StackSize
  BY FrameBounds
<1>2. s - 1 \in 0 .. StackSize - 1 /\ s - 1 \in 0 .. StackSize /\ s - 1 < f + 1 - n
      /\ StackSize \in Nat
  <2>. HIDE DEF n
  <2>. QED  BY <1>1, Sizes
<1>3. stk2 \in [Cell -> Word] /\ stk2[s - 1] = v
      /\ \A c \in Cell : c # s - 1 => stk2[c] = stk[c]
  <2>1. s - 1 \in Cell
    BY <1>2, Sizes
  <2>. QED  BY <2>1
<1>. HIDE DEF stk2
<1>4. \A c \in Cell : c >= s => stk2[c] = stk[c]
  BY <1>2, <1>3, Sizes
<1>5. FramesOf(stk2, f, s) = FramesOf(stk, f, s)
  BY <1>1, <1>3, <1>4, FramesKept
<1>6. CallersOf(stk2)[f] = CallersOf(stk)[f] /\ VarsOfFrame(stk2, f) = n
      /\ Framed(stk2, f, s - 1)
  <2>1. PICK F : Chain(F, stk, f)
    BY DEF Framed
  <2>2. f \in F
    BY <2>1 DEF Chain
  <2>3. \A c \in Cell : c > f => stk2[c] = stk[c]
    <3>. HIDE DEF n
    <3>1. \A c \in Cell : c > f => c >= s
      BY <1>1, Sizes
    <3>. QED  BY <1>4, <3>1
  <2>4. VarsOfFrame(stk2, f) = n /\ Chain(F, stk2, f) /\ CallersOf(stk2)[f] = CallersOf(stk)[f]
    BY <1>3, <2>1, <2>2, <2>3, ChainAbove, CallersKept
  <2>5. s - 1 <= f + 1 - n
    <3>. HIDE DEF n
    <3>. QED  BY <1>1, <1>2
  <2>. QED  BY <2>4, <2>5 DEF Framed
<1>7. fr2 = [fr EXCEPT !.eval = Append(fr.eval, v)]
  <2>. DEFINE m == EvalSize(stk, f, s)
  <2>1. /\ fr \in Frame
        /\ fr.eval \in Seq(Word)
        /\ Len(fr.eval) = m /\ m \in Nat
        /\ \A i \in 1 .. m : f - n - i + 1 \in Cell /\ fr.eval[i] = stk[f - n - i + 1]
    BY <1>1, FrameParts
  <2>2. /\ EvalSize(stk2, f, s - 1) = m + 1 /\ m = f + 1 - n - s
    <3>1. EvalSize(stk2, f, s - 1) = f + 1 - n - (s - 1) /\ m = f + 1 - n - s
      BY <1>6 DEF EvalSize
    <3>. HIDE DEF n, m
    <3>. QED  BY <1>1, <3>1
  <2>3. /\ fr2.eval \in Seq(Word)
        /\ Len(fr2.eval) = m + 1
        /\ \A i \in 1 .. m + 1 : /\ f - n - i + 1 \in Cell
                                 /\ fr2.eval[i] = stk2[f - n - i + 1]
    BY <1>2, <1>3, <1>6, <2>2, FrameParts
  <2>. HIDE DEF m
  <2>4. /\ Append(fr.eval, v) \in Seq(Word) /\ Len(Append(fr.eval, v)) = m + 1
        /\ Append(fr.eval, v)[m + 1] = v
        /\ \A i \in 1 .. m : Append(fr.eval, v)[i] = fr.eval[i]
    BY <2>1, AppendProperties
  <2>5. ASSUME NEW i \in 1 .. m + 1
        PROVE  fr2.eval[i] = Append(fr.eval, v)[i]
    <3>. DEFINE c == f - n - i + 1
    <3>1. c \in Cell /\ fr2.eval[i] = stk2[c]
      BY <2>3
    <3>2. CASE i = m + 1
      <4>. HIDE DEF n
      <4>1. c = s - 1
        BY <1>1, <2>2, <3>2
      <4>. QED  BY <1>3, <2>4, <3>1, <3>2, <4>1
    <3>3. CASE i # m + 1
      <4>1. i \in 1 .. m
        BY <2>1, <3>3
      <4>2. c # s - 1
        <5>. HIDE DEF n
        <5>. QED  BY <1>1, <2>1, <2>2, <4>1
      <4>3. stk2[c] = stk[c]
        BY <1>3, <3>1, <4>2
      <4>4. fr.eval[i] = stk[c]
        BY <2>1, <4>1
      <4>. QED  BY <2>4, <3>1, <4>1, <4>3, <4>4
    <3>. QED  BY <3>2, <3>3
  <2>6. fr2.eval = Append(fr.eval, v)
    BY <2>3, <2>4, <2>5, SeqEqual
  <2>7. FrameAt(stk2, f, s) = fr
    BY <1>1, <1>3, <1>4, FrameKeptAs
  <2>8. fr2 = [FrameAt(stk2, f, s) EXCEPT !.eval = fr2.eval]
    BY DEF FrameAt
  <2>. QED  BY <2>6, <2>7, <2>8
<1>. DEFINE cs == CallersOf(stk)[f]
<1>8. cs \in Seq(Frame) /\ fr \in Frame
  BY <1>1, FramesTyped
<1>9. FramesOf(stk, f, s) = Append(cs, fr) /\ FramesOf(stk2, f, s - 1) = Append(cs, fr2)
  BY <1>6 DEF FramesOf
<1>. HIDE DEF cs, fr, fr2
<1>10. Abstract!PushValue(Append(cs, fr), v)
         = Append(cs, [fr EXCEPT !.eval = Append(fr.eval, v)])
  BY <1>8, TopOperators
<1>. QED  BY <1>7, <1>9, <1>10 DEF stk2

\* Taking the word on top.
LEMMA PopRefines ==
  ASSUME NEW stk \in [Cell -> Word], NEW f \in Cell, NEW s \in 0 .. StackSize,
         Framed(stk, f, s), EvalSize(stk, f, s) > 0
  PROVE  /\ s \in Cell /\ s + 1 \in 1 .. StackSize
         /\ Framed(stk, f, s + 1)
         /\ FramesOf(stk, f, s + 1) = Abstract!PopValue(FramesOf(stk, f, s))
         /\ Abstract!TopValue(FramesOf(stk, f, s)) = stk[s]
         /\ Abstract!TopOf(FramesOf(stk, f, s)).eval # <<>>
<1>. DEFINE n  == VarsOfFrame(stk, f)
            m  == EvalSize(stk, f, s)
            fr == FrameAt(stk, f, s)
            fr2 == FrameAt(stk, f, s + 1)
            cs == CallersOf(stk)[f]
<1>1. n \in 0 .. 15 /\ f \in 0 .. StackSize - 1 /\ s <= f + 1 - n /\ f \in Nat
  BY FrameBounds
<1>2. m = f + 1 - n - s /\ m > 0
  BY DEF EvalSize
<1>3. s \in 0 .. StackSize - 1 /\ s + 1 \in 1 .. StackSize /\ s + 1 \in 0 .. StackSize
      /\ s + 1 <= f + 1 - n /\ m \in Nat \ {0} /\ m \in 1 .. m
      /\ f - n - m + 1 = s
  <2>1. StackSize \in Nat
    BY Sizes
  <2>. HIDE DEF n, m
  <2>. QED  BY <1>1, <1>2, <2>1
<1>4. Framed(stk, f, s + 1)
  BY <1>3 DEF Framed
<1>5. /\ fr \in Frame /\ fr.eval \in Seq(Word) /\ Len(fr.eval) = m
      /\ \A i \in 1 .. m : fr.eval[i] = stk[f - n - i + 1]
  BY FrameParts
<1>6. EvalSize(stk, f, s + 1) = m - 1
  <2>1. EvalSize(stk, f, s + 1) = f + 1 - n - (s + 1)
    BY DEF EvalSize
  <2>. HIDE DEF n, m
  <2>. QED  BY <1>1, <1>2, <2>1
<1>7. /\ fr2 \in Frame /\ fr2.eval \in Seq(Word) /\ Len(fr2.eval) = m - 1
      /\ \A i \in 1 .. m - 1 : fr2.eval[i] = stk[f - n - i + 1]
  BY <1>3, <1>4, <1>6, FrameParts
<1>8. fr2 = [fr EXCEPT !.eval = fr2.eval]
  BY DEF FrameAt
<1>9. cs \in Seq(Frame) /\ fr \in Frame
  BY FramesTyped
<1>10. FramesOf(stk, f, s) = Append(cs, fr) /\ FramesOf(stk, f, s + 1) = Append(cs, fr2)
  BY DEF FramesOf
<1>. HIDE DEF m, cs, fr, fr2
<1>11. fr2.eval = SubSeq(fr.eval, 1, Len(fr.eval) - 1)
  <2>. DEFINE e == SubSeq(fr.eval, 1, m - 1)
  <2>1. \A i \in 1 .. m - 1 : fr.eval[i] \in Word
    BY <1>3, <1>5, ElementOfSeq
  <2>2. e \in Seq(Word) /\ Len(e) = m - 1 /\ \A i \in 1 .. m - 1 : e[i] = fr.eval[i]
    <3>1. 1 \in 1 .. Len(fr.eval) + 1 /\ m - 1 \in 0 .. Len(fr.eval)
      BY <1>3, <1>5
    <3>2. 1 + (m - 1) - 1 = m - 1
      BY <1>3
    <3>. QED  BY <1>3, <1>5, <2>1, <3>1, <3>2, SubSeqProperties
  <2>3. \A i \in 1 .. m - 1 : fr2.eval[i] = e[i]
    BY <1>3, <1>5, <1>7, <2>2
  <2>. HIDE DEF e
  <2>4. fr2.eval = e
    BY <1>7, <2>2, <2>3, SeqEqual
  <2>. QED  BY <1>5, <2>4 DEF e
<1>12. fr.eval # <<>>
  BY <1>3, <1>5
<1>13. fr.eval[Len(fr.eval)] = stk[s]
  BY <1>3, <1>5
<1>14. /\ Abstract!PopValue(Append(cs, fr))
            = Append(cs, [fr EXCEPT !.eval = SubSeq(fr.eval, 1, Len(fr.eval) - 1)])
       /\ Abstract!TopValue(Append(cs, fr)) = fr.eval[Len(fr.eval)]
       /\ Abstract!TopOf(Append(cs, fr)) = fr
  BY <1>9, <1>12, TopOperators, TopFrame
<1>15. fr2 = [fr EXCEPT !.eval = SubSeq(fr.eval, 1, Len(fr.eval) - 1)]
  BY <1>8, <1>11
<1>16. s \in Cell
  BY <1>3, Sizes
<1>17. FramesOf(stk, f, s + 1) = Abstract!PopValue(FramesOf(stk, f, s))
  BY <1>10, <1>14, <1>15
<1>18. /\ Abstract!TopValue(FramesOf(stk, f, s)) = stk[s]
       /\ Abstract!TopOf(FramesOf(stk, f, s)).eval # <<>>
  BY <1>10, <1>12, <1>13, <1>14
<1>. QED  BY <1>3, <1>4, <1>16, <1>17, <1>18

\* Reading and writing a local variable.
LEMMA LocalRefines ==
  ASSUME NEW stk \in [Cell -> Word], NEW f \in Cell, NEW s \in 0 .. StackSize,
         Framed(stk, f, s), NEW n \in LocalNumbers, n <= VarsOfFrame(stk, f),
         NEW v \in Word
  PROVE  /\ FramesOf([stk EXCEPT ![f - (n - 1)] = v], f, s)
              = Abstract!PutVar(FramesOf(stk, f, s), n, v)
         /\ n <= Len(Abstract!TopOf(FramesOf(stk, f, s)).locals)
         /\ Abstract!TopOf(FramesOf(stk, f, s)).locals[n] = stk[f - (n - 1)]
<1>. DEFINE k  == VarsOfFrame(stk, f)
            c0 == f - (n - 1)
            stk2 == [stk EXCEPT ![c0] = v]
            fr == FrameAt(stk, f, s)
            fr2 == FrameAt(stk2, f, s)
            cs == CallersOf(stk)[f]
<1>1. /\ k \in 0 .. 15 /\ f \in 0 .. StackSize - 1 /\ s <= f + 1 - k /\ f \in Nat
      /\ (f # BaseFrame => f + 1 \in Cell /\ f + 3 \in Cell /\ f + 4 \in Cell)
  BY FrameBounds
<1>2. n \in 1 .. k /\ c0 \in 0 .. StackSize - 1 /\ c0 <= f /\ c0 = f - n + 1 /\ c0 > f - k
      /\ n \in Int
  <2>1. n \in 1 .. 15 /\ n <= k /\ StackSize \in Nat
    BY Sizes DEF LocalNumbers
  <2>. HIDE DEF k
  <2>. QED  BY <1>1, <2>1
<1>3. stk2 \in [Cell -> Word] /\ stk2[c0] = v /\ \A c \in Cell : c # c0 => stk2[c] = stk[c]
  <2>1. c0 \in Cell
    BY <1>2, Sizes
  <2>. QED  BY <2>1
<1>. HIDE DEF stk2
<1>4. CallersOf(stk2)[f] = cs /\ VarsOfFrame(stk2, f) = k /\ Framed(stk2, f, s)
      /\ \A c \in Cell : c > f => stk2[c] = stk[c]
  <2>1. PICK F : Chain(F, stk, f)
    BY DEF Framed
  <2>2. f \in F
    BY <2>1 DEF Chain
  <2>3. \A c \in Cell : c > f => stk2[c] = stk[c]
    <3>1. \A c \in Cell : c > f => c # c0
      <4>. HIDE DEF c0
      <4>. QED  BY <1>1, <1>2, Sizes
    <3>. QED  BY <1>3, <3>1
  <2>4. VarsOfFrame(stk2, f) = k /\ Chain(F, stk2, f) /\ CallersOf(stk2)[f] = cs
    BY <1>3, <2>1, <2>2, <2>3, ChainAbove, CallersKept
  <2>. QED  BY <1>1, <2>3, <2>4 DEF Framed
<1>5. /\ fr \in Frame /\ fr.locals \in Seq(Word) /\ Len(fr.locals) = k
      /\ \A i \in 1 .. k : f - i + 1 \in Cell /\ fr.locals[i] = stk[f - i + 1]
  BY FrameParts
<1>6. /\ fr2.locals \in Seq(Word) /\ Len(fr2.locals) = k
      /\ \A i \in 1 .. k : f - i + 1 \in Cell /\ fr2.locals[i] = stk2[f - i + 1]
  BY <1>3, <1>4, FrameParts
<1>7. fr2.eval = fr.eval
  <2>1. fr2.eval = WordsDown(stk2, f - k, s) /\ fr.eval = WordsDown(stk, f - k, s)
    BY <1>4 DEF FrameAt
  <2>2. ASSUME NEW i \in 1 .. (f - k) - s + 1
        PROVE  stk2[(f - k) - i + 1] = stk[(f - k) - i + 1]
    <3>. HIDE DEF k, c0
    <3>1. (f - k) - i + 1 \in 0 .. StackSize - 1 /\ (f - k) - i + 1 # c0
      <4>1. StackSize \in Nat /\ c0 \in Int
        BY <1>2, Sizes
      <4>. QED  BY <1>1, <1>2, <4>1
    <3>. QED  BY <1>3, <3>1, Sizes
  <2>. QED  BY <2>1, <2>2 DEF WordsDown
<1>8. fr2.type = fr.type /\ fr2.args = fr.args /\ fr2.ret = fr.ret
  <2>1. CASE f = BaseFrame
    BY <2>1 DEF FrameAt
  <2>2. CASE f # BaseFrame
    <3>1. /\ stk2[f + 1] = stk[f + 1] /\ stk2[f + 3] = stk[f + 3]
          /\ stk2[f + 4] = stk[f + 4]
      <4>1. f + 1 > f /\ f + 3 > f /\ f + 4 > f
        BY <1>1
      <4>. QED  BY <1>1, <1>4, <2>2, <4>1
    <3>. QED  BY <2>2, <3>1 DEF FrameAt
  <2>. QED  BY <2>1, <2>2
<1>9. fr2.locals = [fr.locals EXCEPT ![n] = v]
  <2>. DEFINE l == [fr.locals EXCEPT ![n] = v]
  <2>1. l \in Seq(Word) /\ Len(l) = k
        /\ \A j \in 1 .. k : l[j] = IF j = n THEN v ELSE fr.locals[j]
    BY <1>2, <1>5, ExceptSeq
  <2>2. ASSUME NEW j \in 1 .. k PROVE fr2.locals[j] = l[j]
    <3>1. CASE j = n
      BY <1>2, <1>3, <1>6, <2>1, <3>1
    <3>2. CASE j # n
      <4>1. f - j + 1 # c0
        <5>1. j \in Int
          OBVIOUS
        <5>. HIDE DEF k, c0
        <5>. QED  BY <1>1, <1>2, <3>2, <5>1
      <4>. QED  BY <1>3, <1>5, <1>6, <2>1, <3>2, <4>1
    <3>. QED  BY <3>1, <3>2
  <2>. HIDE DEF l
  <2>3. fr2.locals = l
    BY <1>6, <2>1, <2>2, SeqEqual
  <2>. QED  BY <2>3 DEF l
<1>10. fr2 = [fr EXCEPT !.locals = fr2.locals]
  <2>1. fr2 = [type |-> fr2.type, args |-> fr2.args, ret |-> fr2.ret,
               locals |-> fr2.locals, eval |-> fr2.eval]
    BY DEF FrameAt
  <2>2. fr = [type |-> fr.type, args |-> fr.args, ret |-> fr.ret,
              locals |-> fr.locals, eval |-> fr.eval]
    BY DEF FrameAt
  <2>. HIDE DEF fr, fr2
  <2>. QED  BY <1>7, <1>8, <2>1, <2>2
<1>11. cs \in Seq(Frame) /\ fr \in Frame
  BY FramesTyped
<1>12. FramesOf(stk, f, s) = Append(cs, fr) /\ FramesOf(stk2, f, s) = Append(cs, fr2)
  BY <1>4 DEF FramesOf
<1>. HIDE DEF cs, fr, fr2
<1>13. fr2 = [fr EXCEPT !.locals[n] = v]
  BY <1>9, <1>10
<1>14. /\ n <= Len(fr.locals) /\ fr.locals[n] = stk[c0]
       /\ Abstract!TopOf(Append(cs, fr)) = fr
  BY <1>2, <1>5, <1>11, TopFrame
<1>15. Abstract!PutVar(Append(cs, fr), n, v) = Append(cs, [fr EXCEPT !.locals[n] = v])
  <2>1. \A i \in LocalNumbers, w \in Word :
          i <= Len(fr.locals) =>
            Abstract!PutVar(Append(cs, fr), i, w) = Append(cs, [fr EXCEPT !.locals[i] = w])
    BY <1>11, TopOperators
  <2>. QED  BY <1>14, <2>1
<1>. QED  BY <1>12, <1>13, <1>14, <1>15 DEF stk2
\* Storing in any variable the frame in use has.
LEMMA StoreRefines ==
  ASSUME NEW stk \in [Cell -> Word], NEW f \in Cell, NEW s \in 0 .. StackSize,
         Framed(stk, f, s), NEW n, LegalVar(stk, f, s, n), NEW v \in Word
  PROVE  FramesOf(z_store(stk, s, f, n, v), f, s)
           = Abstract!PutVar(FramesOf(stk, f, s), n, v)
<1>1. CASE n = 0
  <2>1. EvalSize(stk, f, s) > 0 /\ z_store(stk, s, f, n, v) = [stk EXCEPT ![s] = v]
    BY <1>1 DEF LegalVar, z_store, LocalNumbers
  <2>2. /\ s + 1 \in 1 .. StackSize /\ s + 1 \in 0 .. StackSize
        /\ Framed(stk, f, s + 1)
        /\ FramesOf(stk, f, s + 1) = Abstract!PopValue(FramesOf(stk, f, s))
    <3>1. s + 1 \in 1 .. StackSize /\ Framed(stk, f, s + 1)
          /\ FramesOf(stk, f, s + 1) = Abstract!PopValue(FramesOf(stk, f, s))
      BY <2>1, PopRefines
    <3>. QED  BY <3>1, Sizes
  <2>3. (s + 1) - 1 = s
    OBVIOUS
  <2>. DEFINE t == s + 1
  <2>4. FramesOf([stk EXCEPT ![t - 1] = v], f, t - 1)
          = Abstract!PushValue(FramesOf(stk, f, t), v)
    <3>1. t \in 1 .. StackSize /\ Framed(stk, f, t)
      BY <2>2
    <3>. HIDE DEF t
    <3>. QED  BY <3>1, PushRefines
  <2>5. Abstract!PutVar(FramesOf(stk, f, s), n, v)
          = Abstract!PushValue(Abstract!PopValue(FramesOf(stk, f, s)), v)
    BY <1>1 DEF Abstract!PutVar, Abstract!LocalNumbers
  <2>. QED  BY <2>1, <2>2, <2>3, <2>4, <2>5
<1>2. CASE n \in LocalNumbers
  <2>0. n # 0
    BY <1>2 DEF LocalNumbers
  <2>1. n <= VarsOfFrame(stk, f) /\ z_store(stk, s, f, n, v) = [stk EXCEPT ![f - (n - 1)] = v]
    <3>1. n <= VarsOfFrame(stk, f)
      BY <1>2, <2>0 DEF LegalVar
    <3>2. z_store(stk, s, f, n, v) = [stk EXCEPT ![f - (n - 1)] = v]
      BY <1>2, <2>0 DEF z_store
    <3>. QED  BY <3>1, <3>2
  <2>2. FramesOf([stk EXCEPT ![f - (n - 1)] = v], f, s)
          = Abstract!PutVar(FramesOf(stk, f, s), n, v)
    <3>1. \A i \in LocalNumbers : i <= VarsOfFrame(stk, f) =>
            FramesOf([stk EXCEPT ![f - (i - 1)] = v], f, s)
              = Abstract!PutVar(FramesOf(stk, f, s), i, v)
      BY LocalRefines
    <3>. QED  BY <1>2, <2>1, <3>1, Zenon
  <2>. QED  BY <2>1, <2>2
<1>3. CASE n # 0 /\ n \notin LocalNumbers
  <2>1. z_store(stk, s, f, n, v) = stk
    BY <1>3 DEF z_store
  <2>2. Abstract!PutVar(FramesOf(stk, f, s), n, v) = FramesOf(stk, f, s)
    BY <1>3 DEF Abstract!PutVar, Abstract!LocalNumbers, LocalNumbers
  <2>. QED  BY <2>1, <2>2
<1>. QED  BY <1>1, <1>2, <1>3

\* The variables the story may name are those its frame has.
LEMMA VariableRefines ==
  ASSUME NEW stk \in [Cell -> Word], NEW f \in Cell, NEW s \in 0 .. StackSize,
         Framed(stk, f, s), NEW n, LegalVar(stk, f, s, n),
         datap \in [Globals -> Word]
  PROVE  /\ Abstract!HasVar(FramesOf(stk, f, s), n)
         /\ stk = stack /\ f = fp /\ s = sp =>
              Abstract!GetVar(FramesOf(stack, fp, sp), n) = load_variable(n)
<1>1. CASE n = 0
  <2>1. EvalSize(stk, f, s) > 0
    BY <1>1 DEF LegalVar, LocalNumbers
  <2>2. /\ Abstract!TopValue(FramesOf(stk, f, s)) = stk[s]
        /\ Abstract!TopOf(FramesOf(stk, f, s)).eval # <<>>
    BY <2>1, PopRefines
  <2>3. Abstract!HasVar(FramesOf(stk, f, s), n)
    BY <1>1, <2>2 DEF Abstract!HasVar, Abstract!LocalNumbers
  <2>4. load_variable(n) = stack[sp]
    BY <1>1 DEF load_variable, LocalNumbers
  <2>5. Abstract!GetVar(FramesOf(stack, fp, sp), n) = Abstract!TopValue(FramesOf(stack, fp, sp))
    BY <1>1 DEF Abstract!GetVar, Abstract!LocalNumbers
  <2>. QED  BY <2>2, <2>3, <2>4, <2>5
<1>2. CASE n \in LocalNumbers
  <2>1. n <= VarsOfFrame(stk, f) /\ n # 0
    BY <1>2 DEF LegalVar, LocalNumbers
  <2>2. 0 \in Word
    BY StoryAssumption
  <2>3. /\ n <= Len(Abstract!TopOf(FramesOf(stk, f, s)).locals)
        /\ Abstract!TopOf(FramesOf(stk, f, s)).locals[n] = stk[f - (n - 1)]
    BY <1>2, <2>1, <2>2, LocalRefines
  <2>4. Abstract!HasVar(FramesOf(stk, f, s), n)
    BY <1>2, <2>1, <2>3 DEF Abstract!HasVar, Abstract!LocalNumbers, LocalNumbers
  <2>5. load_variable(n) = stack[fp - (n - 1)]
    BY <1>2, <2>1 DEF load_variable, LocalNumbers
  <2>6. Abstract!GetVar(FramesOf(stack, fp, sp), n)
          = Abstract!TopOf(FramesOf(stack, fp, sp)).locals[n]
    BY <1>2, <2>1 DEF Abstract!GetVar, Abstract!LocalNumbers, LocalNumbers
  <2>. QED  BY <2>3, <2>4, <2>5, <2>6
<1>3. CASE n # 0 /\ n \notin LocalNumbers
  <2>1. n \in Globals
    BY <1>3 DEF LegalVar
  <2>2. DOMAIN datap = Globals
    OBVIOUS
  <2>3. Abstract!HasVar(FramesOf(stk, f, s), n)
    BY <1>3, <2>1, <2>2 DEF Abstract!HasVar, Abstract!LocalNumbers, LocalNumbers
  <2>4. load_variable(n) = datap[n]
    BY <1>3 DEF load_variable
  <2>5. Abstract!GetVar(FramesOf(stack, fp, sp), n) = datap[n]
    BY <1>3 DEF Abstract!GetVar, Abstract!LocalNumbers, LocalNumbers
  <2>. QED  BY <2>3, <2>4, <2>5
<1>. QED  BY <1>1, <1>2, <1>3

\* An instruction that gives the frame at f a result.
LEMMA ResultRefines ==
  ASSUME NEW stk \in [Cell -> Word], NEW f \in Cell, NEW s \in 0 .. StackSize,
         Framed(stk, f, s), NEW data, NEW at, NEW v \in Word,
         Storable(ResultVar[at], VarsOfFrame(stk, f)),
         ResultVar[at] = 0 => s >= 1,
         store_operand(stk, s, f, data, at, v), fp' = f
  PROVE  Abstract!Result(FramesOf(stk, f, s), data, at, v)
<1>. DEFINE n == ResultVar[at]
<1>1. datap' = SetGlobal(data, n, v) /\ pc' = at + 1
  BY DEF store_operand
<1>2. FramesOf(stack', f, sp') = Abstract!PutResult(FramesOf(stk, f, s), n, v)
  <2>1. CASE n = 0
    <3>1. stack' = [stk EXCEPT ![s - 1] = v] /\ sp' = s - 1 /\ s \in 1 .. StackSize
      BY <2>1 DEF store_operand
    <3>2. FramesOf([stk EXCEPT ![s - 1] = v], f, s - 1)
            = Abstract!PushValue(FramesOf(stk, f, s), v)
      BY <3>1, PushRefines
    <3>. QED  BY <2>1, <3>1, <3>2 DEF Abstract!PutResult
  <2>2. CASE n # 0
    <3>1. stack' = z_store(stk, s, f, n, v) /\ sp' = s
      BY <2>2 DEF store_operand
    <3>2. LegalVar(stk, f, s, n)
      <4>1. CASE n \in LocalNumbers
        <5>1. n \notin Globals
          BY <4>1, StoryAssumption DEF LocalNumbers
        <5>2. n <= VarsOfFrame(stk, f)
          BY <2>2, <4>1, <5>1 DEF Storable
        <5>. QED  BY <2>2, <4>1, <5>2 DEF LegalVar
      <4>2. CASE n \notin LocalNumbers
        BY <2>2, <4>2 DEF Storable, LegalVar
      <4>. QED  BY <4>1, <4>2
    <3>. HIDE DEF n
    <3>3. FramesOf(z_store(stk, s, f, n, v), f, s) = Abstract!PutVar(FramesOf(stk, f, s), n, v)
      BY <3>2, StoreRefines
    <3>. QED  BY <2>2, <3>1, <3>3 DEF Abstract!PutResult
  <2>. QED  BY <2>1, <2>2
<1>3. Abstract!SetGlobal(data, n, v) = SetGlobal(data, n, v)
  BY DEF Abstract!SetGlobal, SetGlobal
<1>. QED  BY <1>1, <1>2, <1>3 DEF Abstract!Result

\* The return from the frame at f, with what the return does to the catch result.
LEMMA ReturnRefines ==
  ASSUME NEW stk \in [Cell -> Word], NEW f \in Cell, NEW s \in 0 .. StackSize,
         Framed(stk, f, s), f # BaseFrame,
         NEW data, NEW count, NEW v \in Word,
         z_ret(stk, data, f, count, v),
         catcher # None /\ catcher >= stk[f + 2]
           <=> token # None /\ token <= Len(CallersOf(stk)[stk[f + 2]])
  PROVE  Abstract!ReturnFrom(FramesOf(stk, f, s), data, v)
<1>. DEFINE caller == stk[f + 2]
            fs == FramesOf(stk, f, s)
            rest == FramesOf(stk, caller, f + 5)
            fr == FrameAt(stk, f, s)
            back == ReturnsTo(stk, f)
<1>1. /\ caller \in Cell /\ Framed(stk, caller, f + 5) /\ ResultFits(stk, f)
      /\ f + 5 \in 0 .. StackSize /\ f + 5 >= 1
  <2>1. caller \in Cell /\ f + 4 \in Cell /\ Framed(stk, caller, f + 5) /\ ResultFits(stk, f)
    BY FrameBounds
  <2>2. f + 5 \in 0 .. StackSize /\ f + 5 >= 1
    <3>1. f + 4 \in 0 .. StackSize - 1 /\ StackSize \in Nat /\ f \in 0 .. StackSize - 1
      BY <2>1, Sizes
    <3>. QED  BY <3>1
  <2>. QED  BY <2>1, <2>2
<1>2. CallersOf(stk)[f] = rest /\ rest \in Seq(Frame) /\ fr \in Frame
      /\ rest = Append(CallersOf(stk)[caller], FrameAt(stk, caller, f + 5))
      /\ fs = Append(rest, fr)
  BY FramesTyped DEF FramesOf
<1>3. CallersOf(stk)[caller] \in Seq(Frame) /\ FrameAt(stk, caller, f + 5) \in Frame
  BY <1>1, FramesTyped
<1>4. fr.type = TypeOf(stk[f + 1]) /\ fr.ret = back
  BY FrameParts
<1>5. fp' = caller
  BY DEF z_ret
<1>. HIDE DEF fr
<1>6. /\ Abstract!TopOf(fs) = fr /\ Abstract!Pop(fs) = rest
      /\ Abstract!Depth(fs) = Len(rest) /\ Len(rest) = Len(CallersOf(stk)[caller]) + 1
      /\ Abstract!Depth(rest) = Len(CallersOf(stk)[caller])
      /\ Len(CallersOf(stk)[caller]) \in Nat
  <2>. DEFINE cs == CallersOf(stk)[caller]
              up == FrameAt(stk, caller, f + 5)
  <2>1. cs \in Seq(Frame) /\ up \in Frame /\ rest = Append(cs, up) /\ Len(cs) \in Nat
    BY <1>2, <1>3, LenProperties
  <2>. HIDE DEF cs, up, rest, fs
  <2>2. Len(rest) = Len(cs) + 1 /\ Abstract!Depth(rest) = Len(cs)
    BY <2>1, TopFrame
  <2>3. /\ Abstract!TopOf(fs) = fr /\ Abstract!Pop(fs) = rest
        /\ Abstract!Depth(fs) = Len(rest)
    BY <1>2, TopFrame
  <2>. QED  BY <2>1, <2>2, <2>3 DEF cs
<1>7. token' = Abstract!Live(rest)
  <2>1. token' = IF catcher # None /\ catcher >= caller THEN token ELSE None
    BY DEF z_ret, ghosts
  <2>2. Abstract!Live(rest)
          = IF token # None /\ token <= Len(CallersOf(stk)[caller]) THEN token ELSE None
    BY <1>6 DEF Abstract!Live
  <2>. QED  BY <2>1, <2>2
<1>8. IF fr.type = Abstract!FUNCTION
      THEN Abstract!Result(rest, data, back, v)
      ELSE /\ FramesOf(stack', fp', sp') = rest
           /\ datap' = data /\ pc' = back
  <2>1. CASE TypeOf(stk[f + 1]) = FUNCTION
    <3>1. store_operand(stk, f + 5, caller, data, back, v)
      BY <2>1 DEF z_ret, ReturnsTo
    <3>2. Storable(ResultVar[back], VarsOfFrame(stk, caller))
      BY <1>1, <2>1 DEF ResultFits
    <3>3. Abstract!Result(rest, data, back, v)
      <4>. HIDE DEF back, caller, rest
      <4>. QED  BY <1>1, <1>5, <3>1, <3>2, ResultRefines DEF rest
    <3>. QED  BY <1>4, <2>1, <3>3 DEF Abstract!FUNCTION, FUNCTION
  <2>2. CASE TypeOf(stk[f + 1]) # FUNCTION
    <3>1. sp' = f + 5 /\ pc' = back /\ stack' = stk /\ datap' = data
      BY <2>2 DEF z_ret, ReturnsTo
    <3>. QED  BY <1>4, <1>5, <2>2, <3>1 DEF Abstract!FUNCTION, FUNCTION
  <2>. QED  BY <2>1, <2>2
<1>. HIDE DEF rest, fs, back, caller
<1>9. Abstract!Depth(fs) > 0
  BY <1>6
<1>. QED  BY <1>4, <1>6, <1>7, <1>8, <1>9 DEF Abstract!ReturnFrom, fs
-----------------------------------------------------------------------------
(* The frames a throw unwinds *)

LEMMA PathFrom ==
  ASSUME NEW stk, NEW n \in Nat, NEW f, NEW path, Path(path, n, stk, f),
         NEW j \in 0 .. n
  PROVE  Path([i \in 0 .. n - j |-> path[i + j]], n - j, stk, path[j])
<1>. DEFINE q == [i \in 0 .. n - j |-> path[i + j]]
<1>1. n - j \in Nat /\ 0 \in 0 .. n - j /\ n - j \in 0 .. n - j /\ 0 + j = j /\ (n - j) + j = n
  OBVIOUS
<1>2. \A i \in 0 .. n - j : i + j \in 0 .. n
  OBVIOUS
<1>3. q \in [0 .. n - j -> Cell] /\ q[0] = path[j] /\ q[n - j] = BaseFrame
  BY <1>1, <1>2 DEF Path
<1>4. ASSUME NEW i \in 0 .. (n - j) - 1
      PROVE  q[i + 1] = stk[q[i] + 2] /\ q[i + 1] >= q[i] + 4
  <2>1. i + j \in 0 .. n - 1 /\ i \in 0 .. n - j /\ i + 1 \in 0 .. n - j
        /\ (i + 1) + j = (i + j) + 1
    OBVIOUS
  <2>2. q[i] = path[i + j] /\ q[i + 1] = path[(i + j) + 1]
    BY <2>1
  <2>. QED  BY <2>1, <2>2 DEF Path
<1>. QED  BY <1>3, <1>4 DEF Path

\* How many callers the frames of the path have.
LEMMA DepthOnPath ==
  ASSUME NEW stk \in [Cell -> Word], NEW n \in Nat, NEW f, NEW path,
         Path(path, n, stk, f), NEW j \in 0 .. n
  PROVE  Len(CallersOf(stk)[path[j]]) = n - j
<1>. DEFINE q == [i \in 0 .. n - j |-> path[i + j]]
<1>1. Path(q, n - j, stk, path[j]) /\ n - j \in Nat
  BY PathFrom
<1>. HIDE DEF q
<1>. QED  BY <1>1, CallersOnPath

\* A return keeps the catch result if it does not end the frame it names.
LEMMA CatchLives ==
  ASSUME NEW stk \in [Cell -> Word], NEW n \in Nat, NEW f, NEW path,
         Path(path, n, stk, f),
         token \in Word \cup {None}, (token = None <=> catcher = None),
         token # None => token <= n /\ catcher = path[n - token],
         NEW j \in 0 .. n, path[j] # BaseFrame
  PROVE  catcher # None /\ catcher >= stk[path[j] + 2]
           <=> token # None /\ token <= Len(CallersOf(stk)[stk[path[j] + 2]])
<1>1. j \in 0 .. n - 1 /\ j + 1 \in 0 .. n
  BY DEF Path
<1>2. stk[path[j] + 2] = path[j + 1]
  BY <1>1 DEF Path
<1>3. Len(CallersOf(stk)[path[j + 1]]) = n - (j + 1)
  BY <1>1, DepthOnPath
<1>4. CASE token = None
  BY <1>4
<1>5. CASE token # None
  <2>1. token \in Nat /\ token <= n /\ catcher = path[n - token] /\ catcher # None
        /\ n - token \in 0 .. n
    <3>1. token \in Nat
      BY <1>5, WordsAreNumbers
    <3>. QED  BY <1>5, <3>1
  <2>2. path[n - token] \in Int /\ path[j + 1] \in Int
    BY <1>1, <2>1, Sizes DEF Path
  <2>3. CASE token <= n - (j + 1)
    <3>1. j + 1 <= n - token
      BY <1>1, <2>1, <2>3
    <3>2. path[n - token] >= path[j + 1] + ((n - token) - (j + 1))
      BY <1>1, <2>1, <3>1, PathRises
    <3>3. path[n - token] >= path[j + 1]
      BY <1>1, <2>1, <2>2, <3>1, <3>2
    <3>. QED  BY <1>2, <1>3, <1>5, <2>1, <2>3, <3>3
  <2>4. CASE ~ (token <= n - (j + 1))
    <3>1. n - token <= j + 1 /\ (j + 1) - (n - token) > 0
      BY <1>1, <2>1, <2>4
    <3>2. path[j + 1] >= path[n - token] + ((j + 1) - (n - token))
      BY <1>1, <2>1, <3>1, PathRises
    <3>3. ~ (path[n - token] >= path[j + 1])
      BY <1>1, <2>1, <2>2, <3>1, <3>2
    <3>. QED  BY <1>2, <1>3, <1>5, <2>1, <2>4, <3>3
  <2>. QED  BY <2>3, <2>4
<1>. QED  BY <1>4, <1>5

LEMMA SubSeqTwice ==
  ASSUME NEW S, NEW fs \in Seq(S), NEW m \in Nat, m + 1 <= Len(fs)
  PROVE  SubSeq(SubSeq(fs, 1, m + 1), 1, m) = SubSeq(fs, 1, m)
<1>. DEFINE gs == SubSeq(fs, 1, m + 1)
<1>1. Len(fs) \in Nat /\ \A i \in 1 .. Len(fs) : fs[i] \in S
  BY LenProperties, ElementOfSeq
<1>2. gs \in Seq(S) /\ Len(gs) = m + 1 /\ \A i \in 1 .. m + 1 : gs[i] = fs[i]
  <2>1. 1 \in 1 .. Len(fs) + 1 /\ m + 1 \in 0 .. Len(fs)
        /\ \A i \in 1 .. m + 1 : fs[i] \in S
    BY <1>1
  <2>. QED  BY <2>1, SubSeqProperties
<1>. HIDE DEF gs
<1>3. SubSeq(gs, 1, m) \in Seq(S) /\ Len(SubSeq(gs, 1, m)) = m
      /\ \A i \in 1 .. m : SubSeq(gs, 1, m)[i] = gs[i]
  <2>1. m \in 0 .. Len(gs) /\ \A i \in 1 .. m : gs[i] \in S
    BY <1>1, <1>2
  <2>. QED  BY <1>2, <2>1, SubSeqProperties
<1>4. SubSeq(fs, 1, m) \in Seq(S) /\ Len(SubSeq(fs, 1, m)) = m
      /\ \A i \in 1 .. m : SubSeq(fs, 1, m)[i] = fs[i]
  <2>1. m \in 0 .. Len(fs) /\ \A i \in 1 .. m : fs[i] \in S
    BY <1>1
  <2>. QED  BY <2>1, SubSeqProperties
<1>5. \A i \in 1 .. m : SubSeq(gs, 1, m)[i] = SubSeq(fs, 1, m)[i]
  BY <1>2, <1>3, <1>4
<1>6. SubSeq(gs, 1, m) = SubSeq(fs, 1, m)
  BY <1>3, <1>4, <1>5, SeqEqual
<1>. QED  BY <1>6 DEF gs

\* The frames from the main routine to frame j of the path are a prefix.
LEMMA FramesOnPath ==
  ASSUME NEW stk \in [Cell -> Word], NEW f \in Cell, NEW s \in 0 .. StackSize,
         Framed(stk, f, s),
         NEW n \in Nat, NEW path, Path(path, n, stk, f), NEW k \in 0 .. n
  PROVE  \E low \in 0 .. StackSize :
           /\ Framed(stk, path[k], low)
           /\ SubSeq(FramesOf(stk, f, s), 1, n - k + 1) = FramesOf(stk, path[k], low)
<1>. DEFINE fs == FramesOf(stk, f, s)
            S == {j \in Nat : j <= n =>
                    \E low \in 0 .. StackSize :
                      /\ Framed(stk, path[j], low)
                      /\ SubSeq(fs, 1, n - j + 1) = FramesOf(stk, path[j], low)}
<1>1. fs \in Seq(Frame) /\ Len(fs) = n + 1
  <2>1. Len(CallersOf(stk)[f]) = n
    <3>1. Len(CallersOf(stk)[path[0]]) = n - 0 /\ path[0] = f
      BY DepthOnPath DEF Path
    <3>. QED  BY <3>1
  <2>. QED  BY <2>1, FramesTyped, TopFrame DEF FramesOf
<1>2. ASSUME NEW j \in Nat, 0 .. j - 1 \subseteq S
      PROVE  j \in S
  <2>. SUFFICES ASSUME j <= n
                PROVE  \E low \in 0 .. StackSize :
                         /\ Framed(stk, path[j], low)
                         /\ SubSeq(fs, 1, n - j + 1) = FramesOf(stk, path[j], low)
    OBVIOUS
  <2>1. CASE j = 0
    <3>1. path[j] = f /\ n - j + 1 = n + 1
      BY <2>1 DEF Path
    <3>2. SubSeq(fs, 1, n + 1) = fs
      <4>1. n + 1 \in 0 .. Len(fs) /\ \A i \in 1 .. n + 1 : fs[i] \in Frame
        BY <1>1, ElementOfSeq
      <4>2. SubSeq(fs, 1, n + 1) \in Seq(Frame) /\ Len(SubSeq(fs, 1, n + 1)) = n + 1
            /\ \A i \in 1 .. n + 1 : SubSeq(fs, 1, n + 1)[i] = fs[i]
        <5>. HIDE DEF fs
        <5>. QED  BY <1>1, <4>1, SubSeqProperties
      <4>. HIDE DEF fs
      <4>. QED  BY <1>1, <4>2, SeqEqual
    <3>. QED  BY <3>1, <3>2
  <2>2. CASE j # 0
    <3>. DEFINE l == j - 1
                g == path[l]
                up == path[j]
                m == n - j + 1
    <3>1. l \in 0 .. j - 1 /\ l <= n /\ l \in 0 .. n - 1 /\ l + 1 = j /\ l \in 0 .. n
          /\ j \in 0 .. n /\ n - l + 1 = m + 1 /\ m \in Nat /\ m + 1 <= n + 1
      BY <2>2
    <3>2. l \in S
      <4>. HIDE DEF S
      <4>. QED  BY <1>2, <3>1
    <3>. HIDE DEF m
    <3>3. PICK low \in 0 .. StackSize :
            /\ Framed(stk, g, low)
            /\ SubSeq(fs, 1, m + 1) = FramesOf(stk, g, low)
      BY <3>1, <3>2
    <3>4. g \in Cell /\ up \in Cell /\ up = stk[g + 2] /\ up >= g + 4
      BY <3>1 DEF Path
    <3>. HIDE DEF g, up, l
    <3>5. g # BaseFrame
      <4>1. g \in 0 .. StackSize - 1 /\ up \in 0 .. StackSize - 1 /\ StackSize \in Nat
            /\ BaseFrame = StackSize - 1
        BY <3>4, Sizes
      <4>. QED  BY <3>4, <4>1
    <3>6. Framed(stk, up, g + 5) /\ g + 4 \in Cell
      BY <3>3, <3>4, <3>5, FrameBounds
    <3>7. g + 5 \in 0 .. StackSize
      <4>1. g + 4 \in 0 .. StackSize - 1 /\ g \in 0 .. StackSize - 1 /\ StackSize \in Nat
        BY <3>4, <3>6, Sizes
      <4>. QED  BY <4>1
    <3>8. /\ CallersOf(stk)[g] = FramesOf(stk, up, g + 5)
          /\ CallersOf(stk)[g] \in Seq(Frame) /\ FrameAt(stk, g, low) \in Frame
      BY <3>3, <3>4, <3>5, FramesTyped
    <3>. DEFINE cs == CallersOf(stk)[g]
                fr == FrameAt(stk, g, low)
    <3>9. FramesOf(stk, g, low) = Append(cs, fr)
      BY DEF FramesOf
    <3>10. cs \in Seq(Frame) /\ fr \in Frame
      BY <3>8
    <3>. HIDE DEF cs, fr, fs
    <3>11. Len(cs) = m
      <4>1. Len(SubSeq(fs, 1, m + 1)) = m + 1
        <5>1. \A i \in 1 .. m + 1 : fs[i] \in Frame
          BY <1>1, <3>1, ElementOfSeq
        <5>2. 1 \in 1 .. Len(fs) + 1 /\ m + 1 \in 0 .. Len(fs)
          BY <1>1, <3>1
        <5>. QED  BY <1>1, <3>1, <5>1, <5>2, SubSeqProperties
      <4>2. Len(Append(cs, fr)) = Len(cs) + 1 /\ Len(cs) \in Nat
        BY <3>10, TopFrame, LenProperties
      <4>. QED  BY <3>1, <3>3, <3>9, <4>1, <4>2
    <3>12. SubSeq(fs, 1, m) = cs
      <4>1. SubSeq(SubSeq(fs, 1, m + 1), 1, m) = SubSeq(fs, 1, m)
        BY <1>1, <3>1, SubSeqTwice
      <4>2. Abstract!Pop(Append(cs, fr)) = cs /\ Len(Append(cs, fr)) = Len(cs) + 1
        BY <3>10, TopFrame
      <4>3. SubSeq(Append(cs, fr), 1, m) = cs
        <5>1. Len(Append(cs, fr)) - 1 = m
          BY <3>1, <3>11, <4>2
        <5>. QED  BY <4>2, <5>1 DEF Abstract!Pop
      <4>. QED  BY <3>3, <3>9, <4>1, <4>3
    <3>13. SubSeq(fs, 1, m) = FramesOf(stk, up, g + 5)
      BY <3>8, <3>12 DEF cs
    <3>. QED  BY <3>6, <3>7, <3>13 DEF up, m
  <2>. QED  BY <2>1, <2>2
<1>3. Nat \subseteq S
  <2>. HIDE DEF S
  <2>. QED  BY <1>2, Ladder
<1>. QED  BY <1>3
-----------------------------------------------------------------------------
(* The invariant of the refinement *)

\* An undo gives back a stack that begins with the release number, at a place
\* that the index in its lowest word leaves alone, and a frame that takes the
\* result of the save.
UndoSaved ==
    undo_valid =>
      LET s    == undo_stack[0]
          back == undo_stack[s + 2] + undo_stack[s + 3] * PageSize IN
      /\ s > 0
      /\ undo_stack[s] = Release
      /\ Storable(ResultVar[back], VarsOfFrame(undo_stack, undo_stack[s + 1]))
      /\ ResultVar[back] = 0 => s > 1

\* The frame count is right, or nobody asks for it.
Counting ==
    \/ NoUndo /\ CountInv
    \/ "catch" \notin Opcodes /\ token = None /\ undo_token[1] = None

RefInv ==
    /\ Inv
    /\ sp > 4
    /\ UndoSaved
    /\ Counting

\* The words the story leaves free are enough for the words of an undo.
Roomy == Reserve > 4

LEMMA UndoUntouched ==
  ASSUME UNCHANGED undo
  PROVE  /\ UndoneState' = UndoneState
         /\ UndoSaved => UndoSaved'
<1>1. /\ undo_valid' = undo_valid /\ undo_stack' = undo_stack
      /\ undo_datap' = undo_datap /\ undo_token' = undo_token
  BY DEF undo
<1>2. UndoneState' = UndoneState
  BY <1>1 DEF UndoneState
<1>3. UndoSaved => UndoSaved'
  BY <1>1 DEF UndoSaved
<1>. QED  BY <1>2, <1>3

LEMMA FrameInUse ==
  ASSUME Inv
  PROVE  /\ Framed(stack, fp, sp)
         /\ stack \in [Cell -> Word] /\ fp \in Cell /\ sp \in 0 .. StackSize
         /\ datap \in [Globals -> Word]
BY CurrentFrame DEF Inv

\* An instruction with a result: the story leaves room for it.
LEMMA ResultTaken ==
  ASSUME RefInv, Roomy, NEW at \in Sites, TakesResult(at)
  PROVE  /\ Storable(ResultVar[at], VarsOfFrame(stack, fp))
         /\ ResultVar[at] = 0 => sp - 1 > 4
         /\ Abstract!TakesResult(FramesOf(stack, fp, sp), at)
<1>. DEFINE n == ResultVar[at]
<1>1. n \in {0} \cup LocalNumbers \cup Globals
  BY StoryAssumption
<1>2. CASE n = 0
  <2>1. sp - 1 >= Reserve /\ Reserve > 4 /\ Reserve \in Nat /\ sp \in Nat
    BY <1>2, CurrentFrame, Sizes DEF TakesResult, RoomToPush, Room, Roomy, RefInv
  <2>2. sp - 1 > 4
    BY <2>1
  <2>. QED  BY <1>2, <2>2 DEF Storable, Abstract!TakesResult
<1>3. CASE n # 0
  <2>1. LegalVar(stack, fp, sp, n)
    BY <1>3 DEF TakesResult
  <2>2. Storable(n, VarsOfFrame(stack, fp))
    BY <1>1, <1>3, <2>1 DEF LegalVar, Storable
  <2>3. Abstract!HasVar(FramesOf(stack, fp, sp), n)
    <3>. HIDE DEF n
    <3>. QED  BY <2>1, FrameInUse, VariableRefines DEF RefInv
  <2>. QED  BY <1>3, <2>2, <2>3 DEF Abstract!TakesResult
<1>. QED  BY <1>2, <1>3

\* Giving the frame in use a result.
LEMMA ResultGiven ==
  ASSUME RefInv, Roomy, NEW at \in Sites, NEW v \in Word, TakesResult(at),
         store_operand(stack, sp, fp, datap, at, v), UNCHANGED fp
  PROVE  /\ sp' > 4
         /\ Abstract!TakesResult(FramesOf(stack, fp, sp), at)
         /\ Abstract!Result(FramesOf(stack, fp, sp), datap, at, v)
<1>0. sp \in Nat /\ sp > 4
  BY CurrentFrame DEF RefInv
<1>1. /\ Storable(ResultVar[at], VarsOfFrame(stack, fp))
      /\ (ResultVar[at] = 0 => sp - 1 > 4)
      /\ Abstract!TakesResult(FramesOf(stack, fp, sp), at)
  BY ResultTaken
<1>2. ResultVar[at] = 0 => sp >= 1
  BY <1>0
<1>3. sp' > 4
  BY <1>0, <1>1 DEF store_operand
<1>4. Abstract!Result(FramesOf(stack, fp, sp), datap, at, v)
  BY <1>1, <1>2, FrameInUse, ResultRefines DEF RefInv
<1>. QED  BY <1>1, <1>3, <1>4

-----------------------------------------------------------------------------
(* One lemma for each instruction: it keeps the room for an undo and what an *)
(* undo needs, and it is a step of FrameStack.                               *)

LEMMA CallZeroStep ==
  ASSUME RefInv, Roomy, NEW at \in Sites, call_zero(at)
  PROVE  sp' > 4 /\ UndoSaved' /\ Abstract!Compute(at, FALSE_WORD)
<1>1. /\ status = "run" /\ TakesResult(at)
      /\ store_operand(stack, sp, fp, datap, at, FALSE_WORD)
      /\ UNCHANGED <<fp, undo, token, catcher, status>>
  BY DEF call_zero, Executes, ghosts
<1>2. FALSE_WORD \in Word /\ Abstract!FALSE_WORD = FALSE_WORD
  BY StoryAssumption DEF FALSE_WORD, Abstract!FALSE_WORD
<1>3. /\ sp' > 4
      /\ Abstract!TakesResult(FramesOf(stack, fp, sp), at)
      /\ Abstract!Result(FramesOf(stack, fp, sp), datap, at, FALSE_WORD)
  BY <1>1, <1>2, ResultGiven
<1>4. UndoneState' = UndoneState /\ UndoSaved'
  BY <1>1, UndoUntouched DEF RefInv
<1>. QED  BY <1>1, <1>3, <1>4 DEF Abstract!Compute

LEMMA LoadStep ==
  ASSUME RefInv, Roomy, NEW at \in Sites, NEW n \in Variables, z_load(at, n)
  PROVE  sp' > 4 /\ UndoSaved' /\ Abstract!Load(at, n)
<1>. DEFINE v == load_variable(n)
<1>1. /\ status = "run" /\ TakesResult(at) /\ LegalVar(stack, fp, sp, n)
      /\ store_operand(stack, sp, fp, datap, at, v)
      /\ UNCHANGED <<fp, undo, token, catcher, status>>
  BY DEF z_load, Executes, ghosts
<1>2. v \in Word
  BY <1>1, LoadedWord DEF RefInv
<1>3. /\ Abstract!HasVar(FramesOf(stack, fp, sp), n)
      /\ Abstract!GetVar(FramesOf(stack, fp, sp), n) = v
  BY <1>1, FrameInUse, VariableRefines DEF RefInv
<1>. HIDE DEF v
<1>4. /\ sp' > 4
      /\ Abstract!TakesResult(FramesOf(stack, fp, sp), at)
      /\ Abstract!Result(FramesOf(stack, fp, sp), datap, at, v)
  BY <1>1, <1>2, ResultGiven
<1>5. UndoneState' = UndoneState /\ UndoSaved'
  BY <1>1, UndoUntouched DEF RefInv
<1>6. Abstract!Compute(at, v)
  BY <1>1, <1>4, <1>5 DEF Abstract!Compute
<1>. QED  BY <1>3, <1>4, <1>5, <1>6 DEF Abstract!Load

LEMMA CatchStep ==
  ASSUME RefInv, Roomy, NEW at \in Sites, z_catch(at)
  PROVE  sp' > 4 /\ UndoSaved' /\ Abstract!Catch(at)
<1>1. /\ status = "run" /\ "catch" \in Opcodes /\ TakesResult(at)
      /\ store_operand(stack, sp, fp, datap, at, frame_count)
      /\ token' = frame_count
      /\ UNCHANGED <<fp, undo, status>>
  BY DEF z_catch, Executes
<1>2. frame_count \in Word
  BY CurrentFrame DEF RefInv
<1>3. Abstract!Depth(FramesOf(stack, fp, sp)) = frame_count
  <2>1. CountInv
    BY <1>1 DEF RefInv, Counting
  <2>2. PICK path : Path(path, frame_count, stack, fp)
    BY <2>1 DEF CountInv
  <2>3. frame_count \in Nat /\ path[0] = fp
    BY <1>2, <2>2, WordsAreNumbers DEF Path
  <2>4. Len(CallersOf(stack)[path[0]]) = frame_count - 0
    BY <2>2, <2>3, FrameInUse, DepthOnPath DEF RefInv
  <2>5. Abstract!Depth(FramesOf(stack, fp, sp)) = Len(CallersOf(stack)[fp])
    BY FrameInUse, FramesTyped, TopFrame DEF FramesOf, RefInv
  <2>. QED  BY <2>3, <2>4, <2>5
<1>4. /\ sp' > 4
      /\ Abstract!TakesResult(FramesOf(stack, fp, sp), at)
      /\ Abstract!Result(FramesOf(stack, fp, sp), datap, at, frame_count)
  BY <1>1, <1>2, ResultGiven
<1>5. UndoneState' = UndoneState /\ UndoSaved'
  BY <1>1, UndoUntouched DEF RefInv
<1>. QED  BY <1>1, <1>3, <1>4, <1>5 DEF Abstract!Catch

LEMMA PushStep ==
  ASSUME RefInv, Roomy, NEW v \in Values, z_push(v)
  PROVE  sp' > 4 /\ UndoSaved' /\ Abstract!Push(v)
<1>1. /\ status = "run" /\ sp' = sp - 1 /\ stack' = [stack EXCEPT ![sp - 1] = v]
      /\ sp - 1 >= Reserve
      /\ UNCHANGED <<fp, pc, datap, undo, token, catcher, status>>
  BY DEF z_push, Executes, ghosts, RoomToPush, Room
<1>2. v \in Word
  BY StoryAssumption
<1>3. sp' > 4 /\ sp \in 1 .. StackSize
  <2>1. sp \in 0 .. StackSize /\ sp \in Nat /\ Reserve > 4 /\ Reserve \in Nat
    BY CurrentFrame, Sizes DEF RefInv, Roomy
  <2>. QED  BY <1>1, <2>1
<1>4. FramesOf(stack', fp, sp') = Abstract!PushValue(FramesOf(stack, fp, sp), v)
  BY <1>1, <1>2, <1>3, FrameInUse, PushRefines DEF RefInv
<1>5. UndoneState' = UndoneState /\ UndoSaved'
  BY <1>1, UndoUntouched DEF RefInv
<1>. QED  BY <1>1, <1>3, <1>4, <1>5 DEF Abstract!Push

LEMMA DiscardStep ==
  ASSUME RefInv, Discard
  PROVE  sp' > 4 /\ UndoSaved' /\ Abstract!Discard
<1>1. /\ status = "run" /\ sp' = sp + 1 /\ LegalVar(stack, fp, sp, 0)
      /\ UNCHANGED <<stack, fp, pc, datap, undo, token, catcher, status>>
  BY DEF Discard, Executes, ghosts
<1>2. EvalSize(stack, fp, sp) > 0
  BY <1>1 DEF LegalVar, LocalNumbers
<1>3. FramesOf(stack, fp, sp + 1) = Abstract!PopValue(FramesOf(stack, fp, sp))
  BY <1>2, FrameInUse, PopRefines DEF RefInv
<1>4. Abstract!HasVar(FramesOf(stack, fp, sp), 0)
  BY <1>1, FrameInUse, VariableRefines DEF RefInv
<1>5. UndoneState' = UndoneState /\ UndoSaved'
  BY <1>1, UndoUntouched DEF RefInv
<1>6. sp' > 4
  BY <1>1, CurrentFrame DEF RefInv
<1>. QED  BY <1>1, <1>3, <1>4, <1>5, <1>6 DEF Abstract!Discard

LEMMA StoreVariableStep ==
  ASSUME RefInv, NEW n \in Variables, NEW v \in Word,
         status = "run", LegalVar(stack, fp, sp, n),
         stack' = z_store(stack, sp, fp, n, v), datap' = SetGlobal(datap, n, v),
         UNCHANGED <<sp, fp, pc, undo, token, status>>
  PROVE  sp' > 4 /\ UndoSaved' /\ Abstract!Store(n, v)
<1>1. FramesOf(stack', fp, sp') = Abstract!PutVar(FramesOf(stack, fp, sp), n, v)
  BY FrameInUse, StoreRefines DEF RefInv
<1>2. Abstract!HasVar(FramesOf(stack, fp, sp), n)
  BY FrameInUse, VariableRefines DEF RefInv
<1>3. UndoneState' = UndoneState /\ UndoSaved' /\ sp' > 4
  BY UndoUntouched DEF RefInv
<1>4. Abstract!SetGlobal(datap, n, v) = SetGlobal(datap, n, v)
  BY DEF Abstract!SetGlobal, SetGlobal
<1>. QED  BY <1>1, <1>2, <1>3, <1>4 DEF Abstract!Store

LEMMA CountStep ==
  ASSUME RefInv, NEW n \in Variables, NEW by \in {1, -1}, z_inc(n, by)
  PROVE  sp' > 4 /\ UndoSaved' /\ Abstract!Count(n, by)
<1>. DEFINE v == Counted(n, by)
<1>1. /\ status = "run" /\ LegalVar(stack, fp, sp, n) /\ CanCount(n, by)
      /\ stack' = z_store(stack, sp, fp, n, v) /\ datap' = SetGlobal(datap, n, v)
      /\ UNCHANGED <<sp, fp, pc, undo, token, status>>
  BY DEF z_inc, Executes, ghosts, CanCount
<1>2. v \in Word
  BY <1>1, CountedWord DEF RefInv
<1>3. /\ Abstract!HasVar(FramesOf(stack, fp, sp), n)
      /\ Abstract!GetVar(FramesOf(stack, fp, sp), n) = load_variable(n)
  BY <1>1, FrameInUse, VariableRefines DEF RefInv
<1>4. Abstract!Counted(n, by) = v
  BY <1>3 DEF Abstract!Counted, Counted
<1>. HIDE DEF v
<1>5. sp' > 4 /\ UndoSaved' /\ Abstract!Store(n, v)
  BY <1>1, <1>2, StoreVariableStep
<1>. QED  BY <1>3, <1>4, <1>5 DEF Abstract!Count
\* The main routine before anything is pushed.
LEMMA MainFrameAlone ==
  ASSUME NEW stk \in [Cell -> Word]
  PROVE  FramesOf(stk, BaseFrame, StackSize) = <<Abstract!MainFrame>>
<1>1. CallersOf(stk)[BaseFrame] = <<>>
  <2>1. ~ (BaseFrame + 4 < StackSize)
    BY Sizes
  <2>2. ~ HasCaller(stk, BaseFrame)
    BY <2>1 DEF HasCaller
  <2>. QED  BY <2>2, Constants, CallersOfStep
<1>2. VarsOfFrame(stk, BaseFrame) = 0
  BY DEF VarsOfFrame
<1>3. WordsDown(stk, BaseFrame, BaseFrame - 0 + 1) = <<>>
      /\ WordsDown(stk, BaseFrame - 0, StackSize) = <<>>
  <2>1. BaseFrame - (BaseFrame - 0 + 1) + 1 = 0 /\ BaseFrame - 0 - StackSize + 1 = 0
    BY Sizes
  <2>2. 1 .. 0 = {}
    OBVIOUS
  <2>3. WordsDown(stk, BaseFrame, BaseFrame - 0 + 1)
          = [i \in 1 .. 0 |-> stk[BaseFrame - i + 1]]
        /\ WordsDown(stk, BaseFrame - 0, StackSize)
             = [i \in 1 .. 0 |-> stk[BaseFrame - 0 - i + 1]]
    BY <2>1 DEF WordsDown
  <2>. QED  BY <2>2, <2>3
<1>4. FrameAt(stk, BaseFrame, StackSize) = Abstract!MainFrame
  BY <1>2, <1>3 DEF FrameAt, Abstract!MainFrame, PROCEDURE, Abstract!PROCEDURE
<1>. HIDE DEF Abstract!MainFrame
<1>5. Append(<<>>, Abstract!MainFrame) = <<Abstract!MainFrame>>
  OBVIOUS
<1>. QED  BY <1>1, <1>4, <1>5 DEF FramesOf

LEMMA PullStep ==
  ASSUME RefInv, NEW n \in Variables, z_pull(n)
  PROVE  sp' > 4 /\ UndoSaved' /\ Abstract!Pull(n)
<1>. DEFINE v == stack[sp]
            fs == FramesOf(stack, fp, sp)
<1>1. /\ status = "run" /\ LegalVar(stack, fp, sp, 0) /\ LegalVar(stack, fp, sp + 1, n)
      /\ sp' = sp + 1
      /\ stack' = z_store(stack, sp + 1, fp, n, v)
      /\ datap' = SetGlobal(datap, n, v)
      /\ UNCHANGED <<fp, pc, undo, token, status>>
  BY DEF z_pull, Executes, ghosts
<1>2. EvalSize(stack, fp, sp) > 0
  BY <1>1 DEF LegalVar, LocalNumbers
<1>3. /\ sp + 1 \in 1 .. StackSize /\ Framed(stack, fp, sp + 1)
      /\ FramesOf(stack, fp, sp + 1) = Abstract!PopValue(fs)
      /\ Abstract!TopValue(fs) = v
  BY <1>2, FrameInUse, PopRefines DEF RefInv
<1>4. v \in Word /\ sp + 1 \in 0 .. StackSize
  <2>1. v \in Word
    BY <1>1, TopOfStack DEF RefInv
  <2>. QED  BY <1>3, <2>1, Sizes
<1>. DEFINE t == sp + 1
<1>5. /\ t \in 0 .. StackSize /\ Framed(stack, fp, t) /\ LegalVar(stack, fp, t, n)
      /\ stack' = z_store(stack, t, fp, n, v) /\ sp' = t
  BY <1>1, <1>3, <1>4
<1>. HIDE DEF t, v
<1>6. FramesOf(stack', fp, sp') = Abstract!PutVar(FramesOf(stack, fp, t), n, v)
  BY <1>4, <1>5, FrameInUse, StoreRefines DEF RefInv
<1>7. Abstract!HasVar(FramesOf(stack, fp, t), n)
  BY <1>5, FrameInUse, VariableRefines DEF RefInv
<1>8. Abstract!HasVar(fs, 0)
  BY <1>1, FrameInUse, VariableRefines DEF RefInv
<1>9. UndoneState' = UndoneState /\ UndoSaved' /\ sp' > 4
  BY <1>1, UndoUntouched, CurrentFrame DEF RefInv
<1>10. FramesOf(stack, fp, t) = Abstract!PopValue(fs)
  BY <1>3 DEF t
<1>11. Abstract!SetGlobal(datap, n, v) = SetGlobal(datap, n, v)
  BY DEF Abstract!SetGlobal, SetGlobal
<1>. QED  BY <1>1, <1>3, <1>6, <1>7, <1>8, <1>9, <1>10, <1>11 DEF Abstract!Pull

\* A return keeps the catch result if the frame it names is still there.
LEMMA CatchKept ==
  ASSUME RefInv, fp # BaseFrame,
         NEW stk \in [Cell -> Word], \A c \in Cell : c > fp => stk[c] = stack[c]
  PROVE  catcher # None /\ catcher >= stk[fp + 2]
           <=> token # None /\ token <= Len(CallersOf(stk)[stk[fp + 2]])
<1>1. token \in Word \cup {None} /\ (token = None <=> catcher = None)
      /\ frame_count \in Nat
  BY CurrentFrame, WordsAreNumbers DEF RefInv
<1>2. CASE CountInv
  <2>1. PICK path :
          /\ Path(path, frame_count, stack, fp)
          /\ token # None => /\ token <= frame_count
                             /\ catcher = path[frame_count - token]
    BY <1>2 DEF CountInv
  <2>2. Path(path, frame_count, stk, fp) /\ path[0] = fp /\ 0 \in 0 .. frame_count
    <3>1. Path(path, frame_count, stack, fp)
      BY <2>1
    <3>2. Path(path, frame_count, stk, fp)
      BY <1>1, <3>1, PathAbove
    <3>. QED  BY <1>1, <3>1, <3>2 DEF Path
  <2>3. path[0] # BaseFrame
    BY <2>2
  <2>4. catcher # None /\ catcher >= stk[path[0] + 2]
           <=> token # None /\ token <= Len(CallersOf(stk)[stk[path[0] + 2]])
    BY <1>1, <2>1, <2>2, <2>3, CatchLives
  <2>. QED  BY <2>2, <2>4
<1>3. CASE token = None
  BY <1>1, <1>3
<1>. QED  BY <1>2, <1>3 DEF RefInv, Counting

\* A return leaves sp above the frame that ended, or one below for a result.
LEMMA ReturnPointer ==
  ASSUME NEW stk, NEW data, NEW f \in Int, NEW count, NEW v, z_ret(stk, data, f, count, v)
  PROVE  sp' = f + 5 \/ sp' = f + 5 - 1
<1>1. CASE TypeOf(stk[f + 1]) = FUNCTION
  <2>1. store_operand(stk, f + 5, stk[f + 2], data, stk[f + 3] + stk[f + 4] * PageSize, v)
    BY <1>1 DEF z_ret
  <2>. DEFINE s == f + 5
              at == stk[f + 3] + stk[f + 4] * PageSize
  <2>2. store_operand(stk, s, stk[f + 2], data, at, v)
    BY <2>1
  <2>. HIDE DEF s, at
  <2>3. sp' = s - 1 \/ sp' = s
    BY <2>2 DEF store_operand
  <2>. QED  BY <2>3 DEF s
<1>2. CASE TypeOf(stk[f + 1]) # FUNCTION
  BY <1>2 DEF z_ret
<1>. QED  BY <1>1, <1>2

\* A return from the frame in use, whatever was done to it before.
LEMMA ReturnTaken ==
  ASSUME RefInv, fp # BaseFrame,
         NEW stk \in [Cell -> Word], \A c \in Cell : c > fp => stk[c] = stack[c],
         NEW s \in 0 .. StackSize, Framed(stk, fp, s),
         NEW data, NEW v \in Word,
         z_ret(stk, data, fp, frame_count, v), UNCHANGED <<undo, status>>
  PROVE  /\ sp' > 4 /\ UndoSaved' /\ UndoneState' = UndoneState
         /\ Abstract!ReturnFrom(FramesOf(stk, fp, s), data, v)
<1>1. catcher # None /\ catcher >= stk[fp + 2]
        <=> token # None /\ token <= Len(CallersOf(stk)[stk[fp + 2]])
  BY CatchKept
<1>2. fp \in Cell
  BY FrameInUse DEF RefInv
<1>3. Abstract!ReturnFrom(FramesOf(stk, fp, s), data, v)
  BY <1>1, <1>2, ReturnRefines
<1>4. sp' > 4
  <2>1. sp' = fp + 5 \/ sp' = fp + 5 - 1
    BY CurrentFrame, ReturnPointer DEF RefInv
  <2>2. sp <= fp + 1 - VarsOfFrame(stack, fp) /\ VarsOfFrame(stack, fp) \in 0 .. 15
        /\ sp > 4 /\ sp \in Nat /\ fp \in Nat
    BY CurrentFrame DEF RefInv
  <2>. DEFINE m == VarsOfFrame(stack, fp)
  <2>3. fp >= 4
    <3>1. m \in 0 .. 15 /\ sp <= fp + 1 - m
      BY <2>2
    <3>. HIDE DEF m
    <3>. QED  BY <2>2, <3>1
  <2>. QED  BY <2>1, <2>2, <2>3
<1>5. UndoneState' = UndoneState /\ UndoSaved'
  BY UndoUntouched DEF RefInv
<1>. QED  BY <1>3, <1>4, <1>5

\* ret, and a branch that returns.
LEMMA ReturnsStep ==
  ASSUME RefInv, status = "run", fp # BaseFrame, NEW v \in Word,
         z_ret(stack, datap, fp, frame_count, v), UNCHANGED <<undo, status>>
  PROVE  sp' > 4 /\ UndoSaved' /\ Abstract!Return(v)
<1>1. /\ sp' > 4 /\ UndoSaved' /\ UndoneState' = UndoneState
      /\ Abstract!ReturnFrom(FramesOf(stack, fp, sp), datap, v)
  BY FrameInUse, ReturnTaken DEF RefInv
<1>. QED  BY <1>1 DEF Abstract!Return

LEMMA RetPoppedStep ==
  ASSUME RefInv, ret_popped
  PROVE  sp' > 4 /\ UndoSaved' /\ Abstract!ReturnPopped
<1>1. /\ status = "run" /\ fp # BaseFrame /\ LegalVar(stack, fp, sp, 0)
      /\ z_ret(stack, datap, fp, frame_count, stack[sp])
      /\ UNCHANGED <<undo, status>>
  BY DEF ret_popped, Executes
<1>2. EvalSize(stack, fp, sp) > 0 /\ stack[sp] \in Word
  BY <1>1, TopOfStack DEF LegalVar, LocalNumbers, RefInv
<1>. DEFINE t == sp + 1
<1>3. /\ t \in 1 .. StackSize /\ Framed(stack, fp, t)
      /\ FramesOf(stack, fp, t) = Abstract!PopValue(FramesOf(stack, fp, sp))
      /\ Abstract!TopValue(FramesOf(stack, fp, sp)) = stack[sp]
  BY <1>2, FrameInUse, PopRefines DEF RefInv
<1>. HIDE DEF t
<1>4. t \in 0 .. StackSize
  BY <1>3, Sizes
<1>5. /\ sp' > 4 /\ UndoSaved' /\ UndoneState' = UndoneState
      /\ Abstract!ReturnFrom(FramesOf(stack, fp, t), datap, stack[sp])
  BY <1>1, <1>2, <1>3, <1>4, FrameInUse, ReturnTaken DEF RefInv
<1>6. Abstract!HasVar(FramesOf(stack, fp, sp), 0)
  BY <1>1, FrameInUse, VariableRefines DEF RefInv
<1>. QED  BY <1>1, <1>3, <1>5, <1>6 DEF Abstract!ReturnPopped

LEMMA CountAndReturnStep ==
  ASSUME RefInv, NEW n \in Variables, NEW by \in {1, -1}, NEW offset \in BranchReturns,
         z_inc_chk(n, by, offset)
  PROVE  sp' > 4 /\ UndoSaved' /\ Abstract!CountAndReturn(n, by, offset)
<1>. DEFINE v == Counted(n, by)
            stk == z_store(stack, sp, fp, n, v)
            data == SetGlobal(datap, n, v)
<1>1. /\ status = "run" /\ fp # BaseFrame /\ LegalVar(stack, fp, sp, n) /\ CanCount(n, by)
      /\ z_ret(stk, data, fp, frame_count, offset)
      /\ UNCHANGED <<undo, status>>
  BY DEF z_inc_chk, Executes, CanCount
<1>2. v \in Word /\ offset \in Word
  BY <1>1, CountedWord, StoryAssumption, CallStackAssumption DEF RefInv
<1>3. /\ Abstract!HasVar(FramesOf(stack, fp, sp), n)
      /\ Abstract!GetVar(FramesOf(stack, fp, sp), n) = load_variable(n)
  BY <1>1, FrameInUse, VariableRefines DEF RefInv
<1>4. Abstract!Counted(n, by) = v
  BY <1>3 DEF Abstract!Counted, Counted
<1>. HIDE DEF v
<1>5. /\ stk \in [Cell -> Word] /\ Framed(stk, fp, sp)
      /\ \A c \in Cell : c > fp => stk[c] = stack[c]
  BY <1>1, <1>2, StoreStep DEF RefInv
<1>6. FramesOf(stk, fp, sp) = Abstract!PutVar(FramesOf(stack, fp, sp), n, v)
  BY <1>1, <1>2, FrameInUse, StoreRefines DEF RefInv
<1>7. Abstract!SetGlobal(datap, n, v) = data
  BY DEF Abstract!SetGlobal, SetGlobal
<1>. HIDE DEF stk, data
<1>8. /\ sp' > 4 /\ UndoSaved' /\ UndoneState' = UndoneState
      /\ Abstract!ReturnFrom(FramesOf(stk, fp, sp), data, offset)
  BY <1>1, <1>2, <1>5, FrameInUse, ReturnTaken DEF RefInv
<1>. QED  BY <1>1, <1>3, <1>4, <1>6, <1>7, <1>8 DEF Abstract!CountAndReturn

LEMMA RestartStep ==
  ASSUME RefInv, z_restart
  PROVE  sp' > 4 /\ UndoSaved' /\ Abstract!Restart
<1>1. /\ status = "run"
      /\ pc' = StartPC /\ sp' = StackSize /\ fp' = BaseFrame
      /\ datap' = [g \in Globals |-> 0] /\ token' = None
      /\ UNCHANGED <<stack, undo, status>>
  BY DEF z_restart, Executes
<1>2. FramesOf(stack, BaseFrame, StackSize) = <<Abstract!MainFrame>>
  BY FrameInUse, MainFrameAlone DEF RefInv
<1>3. UndoneState' = UndoneState /\ UndoSaved' /\ sp' > 4
  BY <1>1, UndoUntouched, Sizes DEF RefInv
<1>. QED  BY <1>1, <1>2, <1>3 DEF Abstract!Restart

LEMMA QuitStep ==
  ASSUME RefInv, status = "run", status' # "run",
         UNCHANGED <<machine, undo, ghosts>>
  PROVE  sp' > 4 /\ UndoSaved' /\ Abstract!Quit
<1>1. UNCHANGED <<stack, sp, fp, pc, datap, token>>
  BY DEF machine, ghosts
<1>2. UndoneState' = UndoneState /\ UndoSaved' /\ sp' > 4
  BY <1>1, UndoUntouched DEF RefInv
<1>. QED  BY <1>1, <1>2 DEF Abstract!Quit

LEMMA ThrowStep ==
  ASSUME RefInv, NEW v \in Values, z_throw(v)
  PROVE  sp' > 4 /\ UndoSaved' /\ (Abstract!Throw(v) \/ Abstract!Quit)
<1>. DEFINE k == IF token < frame_count THEN frame_count - token ELSE 0
            count == IF token < frame_count THEN token ELSE frame_count
<1>1. /\ status = "run" /\ catcher # None /\ catcher # BaseFrame /\ UNCHANGED undo
  BY DEF z_throw, Executes
<1>2. CASE UNCHANGED <<machine, ghosts>> /\ status' # "run"
  BY <1>1, <1>2, QuitStep DEF machine, ghosts
<1>3. CASE /\ ~ (token > fp)
           /\ z_ret(stack, datap, Unwound(k), count, v) /\ UNCHANGED status
  <2>1. token # None /\ token \in Word /\ token \in Nat
        /\ frame_count \in Nat /\ (token = None <=> catcher = None)
    BY <1>1, CurrentFrame, WordsAreNumbers DEF RefInv
  <2>2. PICK path :
          /\ Path(path, frame_count, stack, fp)
          /\ token # None => /\ token <= frame_count
                             /\ catcher = path[frame_count - token]
    BY <2>1 DEF RefInv, Counting, CountInv
  <2>3. k = frame_count - token /\ k \in 0 .. frame_count /\ path[k] = catcher
        /\ frame_count - k + 1 = token + 1
    BY <2>1, <2>2
  <2>. HIDE DEF k, count
  <2>4. Unwound(k) = catcher
    BY <2>2, <2>3, UnwoundIsPath DEF RefInv
  <2>5. catcher \in Cell /\ v \in Word
    BY <1>1, CurrentFrame, StoryAssumption DEF RefInv
  <2>6. PICK low \in 0 .. StackSize :
          /\ Framed(stack, path[k], low)
          /\ SubSeq(FramesOf(stack, fp, sp), 1, frame_count - k + 1)
               = FramesOf(stack, path[k], low)
    <3>1. Framed(stack, fp, sp) /\ stack \in [Cell -> Word] /\ fp \in Cell
          /\ sp \in 0 .. StackSize
      BY FrameInUse DEF RefInv
    <3>2. frame_count \in Nat /\ Path(path, frame_count, stack, fp) /\ k \in 0 .. frame_count
      BY <2>1, <2>2, <2>3
    <3>. QED  BY <3>1, <3>2, FramesOnPath
  <2>7. catcher # None /\ catcher >= stack[path[k] + 2]
          <=> token # None /\ token <= Len(CallersOf(stack)[stack[path[k] + 2]])
    <3>1. path[k] # BaseFrame
      BY <1>1, <2>3
    <3>. QED  BY <2>1, <2>2, <2>3, <3>1, FrameInUse, CatchLives DEF RefInv
  <2>8. Abstract!ReturnFrom(FramesOf(stack, catcher, low), datap, v)
    BY <1>1, <1>3, <2>3, <2>4, <2>5, <2>6, <2>7, FrameInUse, ReturnRefines DEF RefInv
  <2>9. sp' > 4
    <3>1. sp' = catcher + 5 \/ sp' = catcher + 5 - 1
      <4>1. catcher \in Int
        BY <2>5, Sizes
      <4>. QED  BY <1>3, <2>4, <4>1, ReturnPointer
    <3>2. path[k] >= path[0] + (k - 0) /\ path[0] = fp
      <4>1. 0 \in 0 .. frame_count /\ 0 <= k /\ path[0] = fp
        BY <2>1, <2>2, <2>3 DEF Path
      <4>. QED  BY <2>1, <2>2, <2>3, <4>1, PathRises
    <3>3. sp <= fp + 1 - VarsOfFrame(stack, fp) /\ VarsOfFrame(stack, fp) \in 0 .. 15
          /\ sp > 4 /\ sp \in Nat /\ fp \in Nat
      BY CurrentFrame DEF RefInv
    <3>. DEFINE m == VarsOfFrame(stack, fp)
    <3>4. fp >= 4
      <4>1. m \in 0 .. 15 /\ sp <= fp + 1 - m
        BY <3>3
      <4>. HIDE DEF m
      <4>. QED  BY <3>3, <4>1
    <3>5. catcher >= 4 /\ catcher \in Int
      <4>1. catcher \in 0 .. StackSize - 1 /\ k \in Nat /\ fp \in Nat
        BY <2>3, <2>5, <3>3, Sizes
      <4>. QED  BY <2>3, <3>2, <3>4, <4>1
    <3>. QED  BY <3>1, <3>5
  <2>10. UndoneState' = UndoneState /\ UndoSaved'
    BY <1>1, UndoUntouched DEF RefInv
  <2>11. Abstract!Throw(v)
    BY <1>1, <1>3, <2>1, <2>3, <2>6, <2>8, <2>10 DEF Abstract!Throw
  <2>. QED  BY <2>9, <2>10, <2>11
<1>4. \/ UNCHANGED <<machine, ghosts>> /\ status' # "run"
      \/ /\ ~ (token > fp)
         /\ z_ret(stack, datap, Unwound(k), count, v) /\ UNCHANGED status
  BY DEF z_throw
<1>. QED  BY <1>2, <1>3, <1>4
\* A call puts a new frame on top of the frames there are.
LEMMA CallStep ==
  ASSUME RefInv, Roomy, NEW at \in Sites, NEW r \in Routines, NEW type \in CallTypes,
         NEW k \in 0 .. MaxArgs, NEW args \in [1 .. k -> Values],
         z_call(at, r, args, type)
  PROVE  sp' > 4 /\ UndoSaved' /\ Abstract!Call(at, r, args, type)
<1>. DEFINE n == NLocals[r]
            f == sp - 5
            t == sp - 4 - n
            h == Header(type, n, Len(args))
            locals == [i \in 1 .. n |-> IF i <= Len(args) THEN args[i]
                                                          ELSE LocalDefault(r, i)]
            new == [type |-> type, args |-> Len(args), ret |-> at,
                    locals |-> locals, eval |-> <<>>]
            m == VarsOfFrame(stack, fp)
<1>1. /\ status = "run"
      /\ sp - (4 + n) >= Reserve
      /\ (type = FUNCTION => TakesResult(at))
      /\ stack' = CallStackWords(at, r, args, type)
      /\ fp' = f /\ sp' = t
      /\ pc' = Entry[r]
      /\ UNCHANGED <<datap, undo, token, status>>
  BY DEF z_call, Executes, Room, ghosts
<1>2. /\ Inv' /\ stack'[f + 2] = fp /\ stack' \in [Cell -> Word]
      /\ Framed(stack', f, t) /\ f \in Cell /\ t \in 0 .. StackSize
  <2>1. Inv' /\ stack'[fp' + 2] = fp
    BY CallInv DEF RefInv
  <2>2. stack' \in [Cell -> Word] /\ Framed(stack', fp', sp') /\ fp' \in Cell
        /\ sp' \in 0 .. StackSize
    BY <2>1 DEF Inv, TypeOK
  <2>. QED  BY <1>1, <2>1, <2>2
<1>3. n \in 0 .. 15 /\ Len(args) = k /\ k \in 0 .. 7
  BY StoryAssumption
<1>4. VarsOf(h) = n /\ TypeOf(h) = type /\ ArgsOf(h) = Len(args)
  <2>1. type \in {0, 1}
    BY DEF CallTypes, FUNCTION, PROCEDURE
  <2>. QED  BY <1>3, <2>1, HeaderParts
<1>. HIDE DEF n, m
<1>5. /\ sp \in Int /\ sp <= StackSize /\ t > 4 /\ StackSize \in Nat
      /\ sp - 5 \in 0 .. StackSize - 2 /\ t \in Nat
      /\ sp <= fp + 1 /\ fp \in 0 .. StackSize - 1
  <2>1. m \in 0 .. 15 /\ fp \in 0 .. StackSize - 1 /\ sp \in 0 .. StackSize
        /\ sp <= fp + 1 - m /\ Reserve > 4 /\ Reserve \in Nat /\ StackSize \in Nat
    BY CurrentFrame, Sizes DEF RefInv, Roomy, m
  <2>. QED  BY <1>1, <1>3, <2>1
<1>6. /\ sp - 1 \in Cell /\ sp - 2 \in Cell /\ sp - 3 \in Cell /\ sp - 4 \in Cell
      /\ f + 1 = sp - 4 /\ f + 3 = sp - 2 /\ f + 4 = sp - 1 /\ f + 5 = sp
      /\ f # BaseFrame
  <2>1. /\ sp - 1 \in 0 .. StackSize - 1 /\ sp - 2 \in 0 .. StackSize - 1
        /\ sp - 3 \in 0 .. StackSize - 1 /\ sp - 4 \in 0 .. StackSize - 1
        /\ f + 1 = sp - 4 /\ f + 3 = sp - 2 /\ f + 4 = sp - 1 /\ f + 5 = sp
        /\ f # StackSize - 1
    BY <1>5
  <2>. QED  BY <2>1, Sizes
<1>7. stack'[sp - 4] = h /\ stack'[sp - 2] = at % PageSize
      /\ stack'[sp - 1] = at \div PageSize
  <2>1. Header(type, NLocals[r], Len(args)) = h
    BY DEF n
  <2>2. stack' = CallStackWords(at, r, args, type)
    BY <1>1
  <2>3. sp - 2 # sp - 1 /\ sp - 4 # sp - 1 /\ sp - 4 # sp - 2 /\ sp - 4 # sp - 3
    BY <1>5
  <2>. DEFINE page == at \div PageSize
              offset == at % PageSize
              w(c) == CASE c = sp - 1 -> page
                        [] c = sp - 2 -> offset
                        [] c = sp - 3 -> fp
                        [] c = sp - 4 -> Header(type, NLocals[r], Len(args))
                        [] c < sp - 4 /\ c >= sp - 4 - NLocals[r] ->
                             LET i == sp - 4 - c IN
                             IF i <= Len(args) THEN args[i] ELSE LocalDefault(r, i)
                        [] OTHER -> stack[c]
  <2>7. stack' = [c \in Cell |-> w(c)]
    BY <2>2 DEF CallStackWords
  <2>. HIDE DEF h, f, t, locals, page, offset
  <2>4. stack'[sp - 1] = page
    <3>1. w(sp - 1) = page
      BY <1>3, <1>5
    <3>. HIDE DEF w
    <3>. QED  BY <1>6, <2>7, <3>1
  <2>5. stack'[sp - 2] = offset
    <3>1. w(sp - 2) = offset
      BY <1>3, <1>5, <2>3
    <3>. HIDE DEF w
    <3>. QED  BY <1>6, <2>7, <3>1
  <2>6. stack'[sp - 4] = Header(type, NLocals[r], Len(args))
    BY <1>6, <2>2, <2>3 DEF CallStackWords
  <2>. QED  BY <2>1, <2>4, <2>5, <2>6 DEF page, offset
<1>8. \A c \in Cell : c >= sp => stack'[c] = stack[c]
  <2>. SUFFICES ASSUME NEW c \in Cell, c >= sp
                PROVE  stack'[c] = stack[c]
    OBVIOUS
  <2>1. c \in Int /\ c # sp - 1 /\ c # sp - 2 /\ c # sp - 3 /\ c # sp - 4 /\ ~ (c < sp - 4)
    BY <1>5, Sizes
  <2>. QED  BY <1>1, <2>1 DEF CallStackWords
<1>9. ASSUME NEW i \in 1 .. n
      PROVE  f - i + 1 \in Cell /\ stack'[f - i + 1] = locals[i]
  <2>. DEFINE c == f - i + 1
  <2>1. c \in Cell
    <3>1. c \in 0 .. StackSize - 1
      BY <1>3, <1>5
    <3>. QED  BY <3>1, Sizes
  <2>2. c < sp - 4 /\ c >= sp - 4 - NLocals[r] /\ sp - 4 - c = i
        /\ c # sp - 1 /\ c # sp - 2 /\ c # sp - 3 /\ c # sp - 4
    <3>1. c < sp - 4 /\ c >= sp - 4 - n /\ sp - 4 - c = i
          /\ c # sp - 1 /\ c # sp - 2 /\ c # sp - 3 /\ c # sp - 4
      BY <1>3, <1>5
    <3>. QED  BY <3>1 DEF n
  <2>. HIDE DEF c
  <2>3. stack'[c] = IF i <= Len(args) THEN args[i] ELSE LocalDefault(r, i)
    BY <1>1, <2>1, <2>2 DEF CallStackWords
  <2>. QED  BY <2>1, <2>3 DEF c
<1>10. VarsOfFrame(stack', f) = n
  BY <1>4, <1>6, <1>7 DEF VarsOfFrame
<1>11. FrameAt(stack', f, t) = new
  <2>1. WordsDown(stack', f, f - n + 1) = locals
    <3>1. f - (f - n + 1) + 1 = n
      BY <1>3, <1>5
    <3>2. WordsDown(stack', f, f - n + 1) = [i \in 1 .. n |-> stack'[f - i + 1]]
      BY <3>1 DEF WordsDown
    <3>. QED  BY <1>9, <3>2
  <2>2. WordsDown(stack', f - n, t) = <<>>
    <3>1. f - n - t + 1 = 0
      BY <1>3, <1>5
    <3>2. WordsDown(stack', f - n, t) = [i \in 1 .. 0 |-> stack'[f - n - i + 1]]
      BY <3>1 DEF WordsDown
    <3>3. 1 .. 0 = {}
      OBVIOUS
    <3>. QED  BY <3>2, <3>3
  <2>3. stack'[f + 3] + stack'[f + 4] * PageSize = at
    BY <1>6, <1>7, AddressJoined
  <2>4. TypeOf(stack'[f + 1]) = type /\ ArgsOf(stack'[f + 1]) = Len(args)
    BY <1>4, <1>6, <1>7
  <2>. HIDE DEF locals, f, t
  <2>. QED  BY <1>6, <1>10, <2>1, <2>2, <2>3, <2>4 DEF FrameAt
<1>. HIDE DEF new
<1>12. CallersOf(stack')[f] = FramesOf(stack, fp, sp)
  <2>1. CallersOf(stack')[f] = FramesOf(stack', fp, sp)
    <3>1. CallersOf(stack')[f] = FramesOf(stack', stack'[f + 2], f + 5)
      <4>. HIDE DEF f, t
      <4>. QED  BY <1>2, <1>6, FramesTyped
    <3>. QED  BY <1>2, <1>6, <3>1
  <2>2. FramesOf(stack', fp, sp) = FramesOf(stack, fp, sp)
    BY <1>2, <1>8, FrameInUse, FramesKept DEF RefInv
  <2>. QED  BY <2>1, <2>2
<1>13. FramesOf(stack', fp', sp') = Append(FramesOf(stack, fp, sp), new)
  <2>1. FramesOf(stack', fp', sp') = FramesOf(stack', f, t)
    BY <1>1
  <2>. HIDE DEF f, t
  <2>. QED  BY <1>11, <1>12, <2>1 DEF FramesOf
<1>14. type = FUNCTION => Abstract!TakesResult(FramesOf(stack, fp, sp), at)
  BY <1>1, ResultTaken
<1>15. UndoneState' = UndoneState /\ UndoSaved' /\ sp' > 4
  BY <1>1, <1>5, UndoUntouched DEF RefInv
<1>16. new = [type |-> type, args |-> Len(args), ret |-> at,
              locals |-> [i \in 1 .. NLocals[r] |->
                            IF i <= Len(args) THEN args[i]
                            ELSE Abstract!LocalDefault(r, i)],
              eval |-> <<>>]
  BY DEF new, n, LocalDefault, Abstract!LocalDefault
<1>17. Abstract!FUNCTION = FUNCTION
  BY DEF Abstract!FUNCTION, FUNCTION
<1>. QED  BY <1>1, <1>13, <1>14, <1>15, <1>16, <1>17 DEF Abstract!Call

-----------------------------------------------------------------------------
(* Undo *)

\* Where undo cannot do anything, it only gives a result.
LEMMA NoUndoStep ==
  ASSUME RefInv, Roomy, NEW at \in Sites, NEW v \in Word, status = "run",
         TakesResult(at), store_operand(stack, sp, fp, datap, at, v),
         UNCHANGED <<fp, undo, ghosts, status>>
  PROVE  sp' > 4 /\ UndoSaved' /\ Abstract!Compute(at, v)
<1>1. /\ sp' > 4
      /\ Abstract!TakesResult(FramesOf(stack, fp, sp), at)
      /\ Abstract!Result(FramesOf(stack, fp, sp), datap, at, v)
  BY ResultGiven
<1>2. UndoneState' = UndoneState /\ UndoSaved' /\ token' = token
  BY UndoUntouched DEF RefInv, ghosts
<1>. QED  BY <1>1, <1>2 DEF Abstract!Compute

LEMMA SaveUndoStep ==
  ASSUME RefInv, Roomy, NEW at \in Sites, z_save_undo(at)
  PROVE  /\ sp' > 4 /\ UndoSaved'
         /\ Abstract!SaveUndo(at) \/ Abstract!Compute(at, MINUS_ONE)
<1>0. {0, 1, 2} \subseteq Word /\ MINUS_ONE \in Word
  BY StoryAssumption DEF MINUS_ONE, Word
<1>1. status = "run" /\ TakesResult(at) /\ UNCHANGED ghosts /\ token' = token
  BY DEF z_save_undo, Executes, ghosts
<1>2. CASE ~ UndoAvailable
  <2>1. store_operand(stack, sp, fp, datap, at, MINUS_ONE) /\ UNCHANGED <<fp, undo, status>>
    BY <1>2 DEF z_save_undo
  <2>. QED  BY <1>0, <1>1, <2>1, NoUndoStep
<1>3. CASE UndoAvailable
  <2>. DEFINE stk == UndoWords(at)
              s == stk[0]
  <2>1. sp \in Nat /\ sp > 4 /\ ~ (sp < 4) /\ sp >= 4
    BY CurrentFrame DEF RefInv
  <2>2. /\ undo_valid' = TRUE /\ undo_stack' = stk /\ undo_datap' = datap
        /\ undo_token' = <<token, catcher>>
        /\ FinishUndo(stk, datap, 1)
    BY <1>3, <2>1 DEF z_save_undo
  <2>3. /\ stk \in [Cell -> Word]
        /\ s = sp - 4 /\ stk[sp - 3] = fp
        /\ Framed(stk, fp, sp)
        /\ \A c \in Cell : c > fp => stk[c] = stack[c]
    BY <2>1, SavedWords DEF RefInv
  <2>4. /\ sp - 1 \in Cell /\ sp - 2 \in Cell /\ sp - 3 \in Cell /\ sp - 4 \in Cell
        /\ 0 \in Cell
    <3>1. sp \in 0 .. StackSize /\ StackSize \in Nat
      BY CurrentFrame, Sizes DEF RefInv
    <3>2. /\ sp - 1 \in 0 .. StackSize - 1 /\ sp - 2 \in 0 .. StackSize - 1
          /\ sp - 3 \in 0 .. StackSize - 1 /\ sp - 4 \in 0 .. StackSize - 1
          /\ 0 \in 0 .. StackSize - 1
      BY <2>1, <3>1
    <3>. QED  BY <3>2, Sizes
  <2>5. stk[sp - 4] = Release /\ stk[sp - 2] = at % PageSize /\ stk[sp - 1] = at \div PageSize
    <3>1. sp - 4 # 0 /\ sp - 2 # 0 /\ sp - 1 # 0
          /\ sp - 2 # sp - 3 /\ sp - 2 # sp - 4 /\ sp - 1 # sp - 2 /\ sp - 1 # sp - 3
          /\ sp - 1 # sp - 4
      BY <2>1
    <3>. QED  BY <2>4, <3>1, FrameInUse DEF UndoWords, RefInv
  <2>6. \A c \in Cell : c >= sp => stk[c] = stack[c]
    <3>. SUFFICES ASSUME NEW c \in Cell, c >= sp
                  PROVE  stk[c] = stack[c]
      OBVIOUS
    <3>1. c # 0 /\ c # sp - 1 /\ c # sp - 2 /\ c # sp - 3 /\ c # sp - 4
      BY <2>1, Sizes
    <3>. QED  BY <3>1, FrameInUse DEF UndoWords, RefInv
  <2>. HIDE DEF stk
  <2>7. FramesOf(stk, fp, sp) = FramesOf(stack, fp, sp)
    BY <2>3, <2>6, FrameInUse, FramesKept DEF RefInv
  <2>8. /\ s + 1 = sp - 3 /\ s + 2 = sp - 2 /\ s + 3 = sp - 1 /\ s + 4 = sp
        /\ s > 0
    BY <2>1, <2>3
  <2>9. stk[s + 2] + stk[s + 3] * PageSize = at
    BY <2>5, <2>8, AddressJoined
  <2>10. /\ fp' = fp /\ UNCHANGED status
         /\ store_operand(stk, sp, fp, datap, at, 1)
    <3>1. /\ fp' = stk[s + 1] /\ UNCHANGED status
          /\ store_operand(stk, s + 4, stk[s + 1], datap,
                           stk[s + 2] + stk[s + 3] * PageSize, 1)
      BY <2>2, <2>3, <2>5 DEF FinishUndo
    <3>. QED  BY <2>3, <2>8, <2>9, <3>1
  <2>11. /\ Storable(ResultVar[at], VarsOfFrame(stack, fp))
         /\ (ResultVar[at] = 0 => sp - 1 > 4)
         /\ Abstract!TakesResult(FramesOf(stack, fp, sp), at)
    BY <1>1, ResultTaken
  <2>12. VarsOfFrame(stk, fp) = VarsOfFrame(stack, fp)
    <3>1. PICK F : Chain(F, stack, fp)
      BY FrameInUse DEF Framed, RefInv
    <3>. QED  BY <2>3, <3>1, FrameInUse, ChainAbove DEF RefInv
  <2>13. Abstract!Result(FramesOf(stack, fp, sp), datap, at, 1)
    <3>1. 1 \in Word /\ (ResultVar[at] = 0 => sp >= 1)
      BY <1>0, <2>1
    <3>. QED  BY <2>3, <2>7, <2>10, <2>11, <2>12, <3>1, FrameInUse, ResultRefines DEF RefInv
  <2>14. UndoneState' = {[frames |-> FramesOf(stack, fp, sp), globals |-> datap,
                          token |-> token, pc |-> at]}
    <3>1. UndoneState' = {[frames  |-> FramesOf(stk, stk[s + 1], s + 4),
                           globals |-> datap,
                           token   |-> token,
                           pc      |-> stk[s + 2] + stk[s + 3] * PageSize]}
      BY <2>2 DEF UndoneState
    <3>. QED  BY <2>3, <2>7, <2>8, <2>9, <3>1
  <2>15. UndoSaved'
    <3>1. ResultVar[at] = 0 => s > 1
      BY <2>1, <2>3, <2>11
    <3>2. stk[s] = Release /\ VarsOfFrame(stk, stk[s + 1]) = VarsOfFrame(stack, fp)
      BY <2>3, <2>5, <2>8, <2>12
    <3>. QED  BY <2>2, <2>8, <2>9, <2>11, <3>1, <3>2 DEF UndoSaved
  <2>16. sp' > 4
    BY <2>1, <2>10, <2>11 DEF store_operand
  <2>17. Abstract!SaveUndo(at)
    BY <1>1, <2>10, <2>11, <2>13, <2>14 DEF Abstract!SaveUndo
  <2>. QED  BY <2>15, <2>16, <2>17
<1>. QED  BY <1>2, <1>3

LEMMA RestoreUndoStep ==
  ASSUME RefInv, Roomy, NEW at \in Sites, z_restore_undo(at)
  PROVE  /\ sp' > 4 /\ UndoSaved'
         /\ \/ Abstract!RestoreUndo
            \/ Abstract!Compute(at, 0) \/ Abstract!Compute(at, MINUS_ONE)
<1>0. {0, 1, 2} \subseteq Word /\ MINUS_ONE \in Word
  BY StoryAssumption DEF MINUS_ONE, Word
<1>1. status = "run" /\ TakesResult(at) /\ UNCHANGED undo
  BY DEF z_restore_undo, Executes
<1>2. CASE ~ UndoAvailable \/ ~ undo_valid
  <2>. DEFINE v == IF UndoAvailable THEN 0 ELSE MINUS_ONE
  <2>1. store_operand(stack, sp, fp, datap, at, v) /\ UNCHANGED <<fp, ghosts, status>>
    BY <1>2 DEF z_restore_undo
  <2>2. v \in Word /\ v \in {0, MINUS_ONE}
    BY <1>0
  <2>. HIDE DEF v
  <2>3. sp' > 4 /\ UndoSaved' /\ Abstract!Compute(at, v)
    BY <1>1, <2>1, <2>2, NoUndoStep
  <2>. QED  BY <2>2, <2>3
<1>3. CASE UndoAvailable /\ undo_valid
  <2>. DEFINE stk == undo_stack
              s == stk[0]
              f == stk[s + 1]
              back == stk[s + 2] + stk[s + 3] * PageSize
              t == s + 4
  <2>1. sp \in Nat /\ ~ (sp < 4)
    BY CurrentFrame DEF RefInv
  <2>2. /\ FinishUndo(stk, undo_datap, 2)
        /\ token' = undo_token[1]
    BY <1>3, <2>1 DEF z_restore_undo
  <2>3. /\ stk \in [Cell -> Word] /\ s \in 0 .. StackSize - 4
        /\ f \in Cell /\ Framed(stk, f, t)
    BY <1>3 DEF RefInv, Inv, TypeOK, UndoFramed
  <2>4. /\ s > 0 /\ stk[s] = Release
        /\ Storable(ResultVar[back], VarsOfFrame(stk, f))
        /\ (ResultVar[back] = 0 => s > 1)
    BY <1>3 DEF RefInv, UndoSaved
  <2>5. /\ fp' = f /\ UNCHANGED status
        /\ store_operand(stk, t, f, undo_datap, back, 2)
    BY <2>2, <2>4 DEF FinishUndo
  <2>6. t \in 0 .. StackSize /\ t > 4 /\ t >= 1 /\ (ResultVar[back] = 0 => t - 1 > 4)
    <3>1. StackSize \in Nat
      BY Sizes
    <3>. QED  BY <2>3, <2>4, <3>1
  <2>7. UndoneState = {[frames |-> FramesOf(stk, f, t), globals |-> undo_datap,
                        token |-> undo_token[1], pc |-> back]}
    BY <1>3 DEF UndoneState
  <2>8. UndoneState' = UndoneState /\ UndoSaved'
    BY <1>1, UndoUntouched DEF RefInv
  <2>. HIDE DEF stk, f, t, back
  <2>9. Abstract!Result(FramesOf(stk, f, t), undo_datap, back, 2)
    BY <1>0, <2>3, <2>4, <2>5, <2>6, ResultRefines
  <2>10. sp' > 4
    BY <2>5, <2>6 DEF store_operand
  <2>11. Abstract!RestoreUndo
    <3>. DEFINE saved == [frames |-> FramesOf(stk, f, t), globals |-> undo_datap,
                          token |-> undo_token[1], pc |-> back]
    <3>1. Abstract!Result(saved.frames, saved.globals, saved.pc, 2) /\ token' = saved.token
      BY <2>2, <2>9
    <3>2. saved \in UndoneState
      BY <2>7
    <3>. HIDE DEF saved
    <3>. QED  BY <1>1, <2>5, <2>8, <3>1, <3>2 DEF Abstract!RestoreUndo
  <2>. QED  BY <2>8, <2>10, <2>11
<1>. QED  BY <1>2, <1>3
-----------------------------------------------------------------------------
(* The invariant is kept *)

\* A story without catch never has a catch result, not even an undone one.
LEMMA NothingCaught ==
  ASSUME Inv, "catch" \notin Opcodes, token = None, undo_token[1] = None, [Next]_vars
  PROVE  token' = None /\ undo_token'[1] = None
<1>1. catcher = None
  BY DEF Inv
<1>2. ASSUME UNCHANGED <<undo, ghosts>>
      PROVE  token' = None /\ undo_token'[1] = None
  BY <1>2 DEF undo, ghosts
<1>3. ASSUME NEW stk, NEW data, NEW f, NEW count, NEW v,
             z_ret(stk, data, f, count, v), UNCHANGED undo
      PROVE  token' = None /\ undo_token'[1] = None
  BY <1>1, <1>3 DEF z_ret, undo
<1>4. ASSUME NEW at \in Sites, z_save_undo(at)
      PROVE  token' = None /\ undo_token'[1] = None
  <2>1. token' = token
    BY <1>4 DEF z_save_undo, ghosts
  <2>2. UNCHANGED undo \/ undo_token' = <<token, catcher>>
    BY <1>4 DEF z_save_undo
  <2>. QED  BY <2>1, <2>2 DEF undo
<1>5. ASSUME NEW at \in Sites, z_restore_undo(at)
      PROVE  token' = None /\ undo_token'[1] = None
  <2>1. UNCHANGED undo /\ (UNCHANGED ghosts \/ token' = undo_token[1])
    BY <1>5 DEF z_restore_undo
  <2>. QED  BY <2>1 DEF undo, ghosts
<1>6. ASSUME NEW v \in Values, z_throw(v)
      PROVE  token' = None /\ undo_token'[1] = None
  BY <1>1, <1>6 DEF z_throw
<1>7. ASSUME NEW at \in Sites, z_catch(at)
      PROVE  token' = None /\ undo_token'[1] = None
  BY <1>7 DEF z_catch, Executes
<1>8. ASSUME NEW v \in Values, Return(v)
      PROVE  token' = None /\ undo_token'[1] = None
  BY <1>3, <1>8 DEF Return
<1>9. ASSUME NEW n \in Variables, NEW by \in {1, -1}, NEW offset \in BranchReturns,
             z_inc_chk(n, by, offset)
      PROVE  token' = None /\ undo_token'[1] = None
  BY <1>3, <1>9 DEF z_inc_chk
<1>10. ASSUME NEW offset \in BranchReturns, conditional_jump(offset)
       PROVE  token' = None /\ undo_token'[1] = None
  BY <1>3, <1>10 DEF conditional_jump
<1>11. ret_popped => token' = None /\ undo_token'[1] = None
  BY <1>3 DEF ret_popped
<1>12. z_restart => token' = None /\ undo_token'[1] = None
  BY DEF z_restart, undo
<1>13. ASSUME \/ \E at \in Sites, r \in Routines, type \in CallTypes, k \in 0 .. MaxArgs :
                   \E args \in [1 .. k -> Values] : z_call(at, r, args, type)
              \/ \E at \in Sites : call_zero(at) \/ \E n \in Variables : z_load(at, n)
              \/ \E v \in Values : z_push(v)
              \/ \E n \in Variables : z_pull(n) \/ \E v \in Values : StoreVariable(n, v)
              \/ \E n \in Variables, by \in {1, -1} : z_inc(n, by)
              \/ Discard \/ z_quit \/ UNCHANGED vars
       PROVE  UNCHANGED <<undo, ghosts>>
  BY <1>13 DEF z_call, call_zero, z_load, z_push, z_pull, StoreVariable, z_inc, Discard,
               z_quit, vars, undo, ghosts
<1>14. CASE \/ \E at \in Sites, r \in Routines, type \in CallTypes, k \in 0 .. MaxArgs :
                 \E args \in [1 .. k -> Values] : z_call(at, r, args, type)
            \/ \E at \in Sites : call_zero(at) \/ \E n \in Variables : z_load(at, n)
            \/ \E v \in Values : z_push(v)
            \/ \E n \in Variables : z_pull(n) \/ \E v \in Values : StoreVariable(n, v)
            \/ \E n \in Variables, by \in {1, -1} : z_inc(n, by)
            \/ Discard \/ z_quit \/ UNCHANGED vars
  BY <1>2, <1>13, <1>14
<1>. QED
  BY <1>4, <1>5, <1>6, <1>7, <1>8, <1>9, <1>10, <1>11, <1>12, <1>14 DEF Next

LEMMA CountingStep ==
  ASSUME Inv, Counting, [Next]_vars
  PROVE  Counting'
<1>1. CASE NoUndo /\ CountInv
  BY <1>1, NextCount DEF Counting, NoUndo
<1>2. CASE "catch" \notin Opcodes /\ token = None /\ undo_token[1] = None
  BY <1>2, NothingCaught DEF Counting
<1>. QED  BY <1>1, <1>2 DEF Counting

\* The frame count is right in the beginning, and nothing is saved for undo.
LEMMA InitRefines ==
  ASSUME NoUndo \/ "catch" \notin Opcodes, Init
  PROVE  RefInv /\ Abstract!Init
<1>1. /\ stack \in [Cell -> Word] /\ fp = BaseFrame /\ sp = StackSize
      /\ pc = StartPC /\ datap = [g \in Globals |-> 0]
      /\ undo_valid = FALSE /\ undo_token = <<None, None>> /\ token = None
      /\ status = "run"
  BY InitInv, CurrentFrame DEF Init, StartState
<1>2. sp > 4
  BY <1>1, CallStackAssumption
<1>3. Counting
  BY <1>1, InitCount DEF Counting
<1>4. UndoSaved /\ UndoneState = {}
  BY <1>1 DEF UndoSaved, UndoneState
<1>5. FramesOf(stack, fp, sp) = <<Abstract!MainFrame>>
  BY <1>1, MainFrameAlone
<1>6. Abstract!Init
  BY <1>1, <1>4, <1>5 DEF Abstract!Init
<1>. QED  BY <1>2, <1>3, <1>4, <1>6, InitInv DEF RefInv
-----------------------------------------------------------------------------
(* The refinement *)

LEMMA SameSets ==
  /\ Abstract!Variables = Variables /\ Abstract!CallTypes = CallTypes
  /\ Abstract!FALSE_WORD = FALSE_WORD /\ Abstract!MINUS_ONE = MINUS_ONE
  /\ FALSE_WORD = 0
BY DEF Abstract!Variables, Variables, Abstract!LocalNumbers, LocalNumbers,
       Abstract!CallTypes, CallTypes, Abstract!FUNCTION, FUNCTION,
       Abstract!PROCEDURE, PROCEDURE, Abstract!FALSE_WORD, FALSE_WORD,
       Abstract!MINUS_ONE, MINUS_ONE

\* Every instruction is a step of FrameStack.
LEMMA NextRefines ==
  ASSUME RefInv, Roomy, Next
  PROVE  sp' > 4 /\ UndoSaved' /\ Abstract!Next
<1>1. ASSUME NEW at \in Sites, NEW r \in Routines, NEW type \in CallTypes,
             NEW k \in 0 .. MaxArgs, NEW args \in [1 .. k -> Values],
             z_call(at, r, args, type)
      PROVE  sp' > 4 /\ UndoSaved' /\ Abstract!Next
  <2>1. sp' > 4 /\ UndoSaved' /\ Abstract!Call(at, r, args, type)
    BY <1>1, CallStep
  <2>. QED  BY <2>1, SameSets DEF Abstract!Next
<1>2. ASSUME NEW at \in Sites, call_zero(at)
      PROVE  sp' > 4 /\ UndoSaved' /\ Abstract!Next
  BY <1>2, CallZeroStep, SameSets DEF Abstract!Next
<1>3. ASSUME NEW at \in Sites, NEW n \in Variables, z_load(at, n)
      PROVE  sp' > 4 /\ UndoSaved' /\ Abstract!Next
  BY <1>3, LoadStep, SameSets DEF Abstract!Next
<1>4. ASSUME NEW at \in Sites, z_catch(at)
      PROVE  sp' > 4 /\ UndoSaved' /\ Abstract!Next
  BY <1>4, CatchStep DEF Abstract!Next
<1>5. ASSUME NEW at \in Sites, z_save_undo(at)
      PROVE  sp' > 4 /\ UndoSaved' /\ Abstract!Next
  BY <1>5, SaveUndoStep, SameSets DEF Abstract!Next
<1>6. ASSUME NEW at \in Sites, z_restore_undo(at)
      PROVE  sp' > 4 /\ UndoSaved' /\ Abstract!Next
  BY <1>6, RestoreUndoStep, SameSets DEF Abstract!Next
<1>7. ASSUME NEW v \in Values, Return(v)
      PROVE  sp' > 4 /\ UndoSaved' /\ Abstract!Next
  <2>1. v \in Word
    BY StoryAssumption
  <2>2. sp' > 4 /\ UndoSaved' /\ Abstract!Return(v)
    BY <1>7, <2>1, ReturnsStep DEF Return, Executes
  <2>. QED  BY <2>2 DEF Abstract!Next
<1>8. ASSUME NEW v \in Values, z_throw(v)
      PROVE  sp' > 4 /\ UndoSaved' /\ Abstract!Next
  BY <1>8, ThrowStep DEF Abstract!Next
<1>9. ASSUME NEW v \in Values, z_push(v)
      PROVE  sp' > 4 /\ UndoSaved' /\ Abstract!Next
  BY <1>9, PushStep DEF Abstract!Next
<1>10. ASSUME NEW n \in Variables, NEW v \in Values, StoreVariable(n, v)
       PROVE  sp' > 4 /\ UndoSaved' /\ Abstract!Next
  <2>1. v \in Word
    BY StoryAssumption
  <2>2. sp' > 4 /\ UndoSaved' /\ Abstract!Store(n, v)
    BY <1>10, <2>1, StoreVariableStep DEF StoreVariable, Executes, ghosts
  <2>. QED  BY <2>2, SameSets DEF Abstract!Next
<1>11. ASSUME NEW n \in Variables, z_pull(n)
       PROVE  sp' > 4 /\ UndoSaved' /\ Abstract!Next
  BY <1>11, PullStep, SameSets DEF Abstract!Next
<1>12. ASSUME NEW n \in Variables, NEW by \in {1, -1}, z_inc(n, by)
       PROVE  sp' > 4 /\ UndoSaved' /\ Abstract!Next
  BY <1>12, CountStep, SameSets DEF Abstract!Next
<1>13. ASSUME NEW n \in Variables, NEW by \in {1, -1}, NEW offset \in BranchReturns,
              z_inc_chk(n, by, offset)
       PROVE  sp' > 4 /\ UndoSaved' /\ Abstract!Next
  <2>1. offset \in {0, 1}
    BY CallStackAssumption
  <2>2. sp' > 4 /\ UndoSaved' /\ Abstract!CountAndReturn(n, by, offset)
    BY <1>13, CountAndReturnStep
  <2>. QED  BY <2>1, <2>2, SameSets DEF Abstract!Next
<1>14. ASSUME NEW offset \in BranchReturns, conditional_jump(offset)
       PROVE  sp' > 4 /\ UndoSaved' /\ Abstract!Next
  <2>1. offset \in {0, 1} /\ offset \in Word
    BY StoryAssumption, CallStackAssumption
  <2>2. sp' > 4 /\ UndoSaved' /\ Abstract!Return(offset)
    BY <1>14, <2>1, ReturnsStep DEF conditional_jump, Executes
  <2>. QED  BY <2>1, <2>2 DEF Abstract!Next
<1>15. ret_popped => sp' > 4 /\ UndoSaved' /\ Abstract!Next
  BY RetPoppedStep DEF Abstract!Next
<1>16. Discard => sp' > 4 /\ UndoSaved' /\ Abstract!Next
  BY DiscardStep DEF Abstract!Next
<1>17. z_restart => sp' > 4 /\ UndoSaved' /\ Abstract!Next
  BY RestartStep DEF Abstract!Next
<1>18. z_quit => sp' > 4 /\ UndoSaved' /\ Abstract!Next
  BY QuitStep DEF z_quit, Executes, Abstract!Next
<1>. QED
  BY <1>1, <1>2, <1>3, <1>4, <1>5, <1>6, <1>7, <1>8, <1>9, <1>10, <1>11, <1>12,
     <1>13, <1>14, <1>15, <1>16, <1>17, <1>18 DEF Next

\* An interpreter that waits leaves the frames alone.
LEMMA StutterRefines ==
  ASSUME RefInv, UNCHANGED vars
  PROVE  sp' > 4 /\ UndoSaved' /\ UNCHANGED Abstract!vars
<1>1. UNCHANGED <<stack, sp, fp, pc, datap, undo, token, status>>
  BY DEF vars, machine, ghosts
<1>2. UndoneState' = UndoneState /\ UndoSaved'
  BY <1>1, UndoUntouched DEF RefInv
<1>. QED  BY <1>1, <1>2 DEF Abstract!vars, RefInv

\* The one array of words keeps its promise, whatever is called, returned from,
\* thrown to, counted or undone: a story with room for the words of an undo sees
\* a sequence of frames, each with its own locals and evaluation stack.  Only
\* catch together with an undo that works is left out: restoring an undo does
\* not restore the frame count.  (ImplementsFrameStack, for all of control.c's
\* calls, variable.c and the undo of save_restore.)
THEOREM StackImplementsFrames ==
  Roomy /\ (NoUndo \/ "catch" \notin Opcodes) /\ Spec => ImplementsFrameStack
<1>. SUFFICES ASSUME Roomy, NoUndo \/ "catch" \notin Opcodes
              PROVE  Spec => ImplementsFrameStack
  OBVIOUS
<1>1. Init => RefInv /\ Abstract!Init
  BY InitRefines
<1>2. RefInv /\ [Next]_vars => RefInv' /\ [Abstract!Next]_(Abstract!vars)
  <2>. SUFFICES ASSUME RefInv, [Next]_vars
                PROVE  RefInv' /\ [Abstract!Next]_(Abstract!vars)
    OBVIOUS
  <2>1. Inv' /\ Counting'
    BY NextInv, CountingStep DEF RefInv
  <2>2. CASE Next
    BY <2>1, <2>2, NextRefines DEF RefInv
  <2>3. CASE UNCHANGED vars
    BY <2>1, <2>3, StutterRefines DEF RefInv
  <2>. QED  BY <2>2, <2>3
<1>. QED  BY <1>1, <1>2, PTL DEF Spec, ImplementsFrameStack, Abstract!Spec

-----------------------------------------------------------------------------
(* save_quetzal and restore_quetzal *)

\* Where the evaluation stack of path[i] ends: at sp for the frame in use, and where
\* the frame of the callee begins for the others.
EndOn(path, s, i) == IF i = 0 THEN s ELSE path[i - 1] + 5

\* A chain of frames is a path.
LEMMA PathExists ==
  ASSUME NEW stk \in [Cell -> Word], NEW f \in Cell, NEW s, Framed(stk, f, s)
  PROVE  \E n \in Nat : \E path : Path(path, n, stk, f)
<1>1. PICK F : Chain(F, stk, f)
  BY DEF Framed
<1>. DEFINE S == {g \in Cell : \E n \in Nat : \E path : Path(path, n, stk, g)}
<1>2. BaseFrame \in S
  <2>1. BaseFrame \in Cell
    BY Constants
  <2>2. Path([i \in 0 .. 0 |-> BaseFrame], 0, stk, BaseFrame)
    BY <2>1 DEF Path
  <2>. QED  BY <2>1, <2>2
<1>3. ASSUME NEW g \in F \ {BaseFrame}, stk[g + 2] \in S  PROVE g \in S
  <2>. DEFINE c == stk[g + 2]
  <2>1. PICK n \in Nat : \E path : Path(path, n, stk, c)
    BY <1>3
  <2>0. PICK path : Path(path, n, stk, c)
    BY <2>1
  <2>2. g \in Cell /\ c \in Cell /\ g + 4 <= c
    <3>1. g \in Cell /\ c \in F /\ g + 4 + VarsOfFrame(stk, c) <= c /\ c \in Cell
      BY <1>1 DEF Chain
    <3>2. VarsOfFrame(stk, c) \in 0 .. 15
      BY <3>1, VarsOfFrameInRange
    <3>. HIDE DEF c
    <3>3. g \in Nat /\ c \in Nat
      BY <3>1, Constants
    <3>4. g + 4 <= c
      BY <3>1, <3>2, <3>3
    <3>. QED  BY <3>1, <3>4
  <2>. DEFINE q == [i \in 0 .. n + 1 |-> IF i = 0 THEN g ELSE path[i - 1]]
  <2>. HIDE DEF c
  <2>3. q[0] = g /\ \A i \in 1 .. n + 1 : q[i] = path[i - 1] /\ i - 1 \in 0 .. n
    OBVIOUS
  <2>4. q \in [0 .. n + 1 -> Cell]
    BY <2>0, <2>2 DEF Path
  <2>. HIDE DEF q
  <2>5. q[n + 1] = BaseFrame /\ q[1] = c
    <3>1. n + 1 \in 1 .. n + 1 /\ 1 \in 1 .. n + 1 /\ (n + 1) - 1 = n /\ 1 - 1 = 0
      OBVIOUS
    <3>. QED  BY <2>0, <2>3, <3>1 DEF Path
  <2>6. ASSUME NEW i \in 0 .. (n + 1) - 1
        PROVE  q[i + 1] = stk[q[i] + 2] /\ q[i + 1] >= q[i] + 4
    <3>1. CASE i = 0
      BY <2>2, <2>3, <2>5, <3>1 DEF c
    <3>2. CASE i # 0
      <4>1. i \in 1 .. n + 1 /\ i + 1 \in 1 .. n + 1 /\ (i + 1) - 1 = (i - 1) + 1
            /\ i - 1 \in 0 .. n - 1
        BY <3>2
      <4>2. q[i] = path[i - 1] /\ q[i + 1] = path[(i - 1) + 1]
        BY <2>3, <4>1
      <4>. QED  BY <2>0, <4>1, <4>2 DEF Path
    <3>. QED  BY <3>1, <3>2
  <2>7. Path(q, n + 1, stk, g)
    BY <2>3, <2>4, <2>5, <2>6 DEF Path
  <2>. QED  BY <2>2, <2>7
<1>4. F \subseteq S
  <2>. HIDE DEF S
  <2>. QED  BY <1>1, <1>2, <1>3, ChainInduction
<1>. QED  BY <1>1, <1>4 DEF Chain

\* The frames of the path lie one above the other.
LEMMA FramedOnPath ==
  ASSUME NEW stk \in [Cell -> Word], NEW f \in Cell, NEW s \in 0 .. StackSize,
         Framed(stk, f, s),
         NEW n \in Nat, NEW path, Path(path, n, stk, f), NEW i \in 0 .. n
  PROVE  /\ path[i] \in Cell
         /\ EndOn(path, s, i) \in 0 .. StackSize
         /\ Framed(stk, path[i], EndOn(path, s, i))
         /\ s <= EndOn(path, s, i)
         /\ (path[i] = BaseFrame <=> i = n)
<1>. DEFINE S == {j \in Nat : j <= n =>
                    /\ EndOn(path, s, j) \in 0 .. StackSize
                    /\ Framed(stk, path[j], EndOn(path, s, j))
                    /\ s <= EndOn(path, s, j)}
<1>0. \A j \in 0 .. n : path[j] \in Cell
  BY DEF Path
<1>1. ASSUME NEW j \in 0 .. n  PROVE path[j] = BaseFrame <=> j = n
  <2>1. j = n => path[j] = BaseFrame
    BY DEF Path
  <2>2. ASSUME j # n  PROVE path[j] # BaseFrame
    <3>1. j \in 0 .. n - 1 /\ j + 1 \in 0 .. n
      BY <2>2
    <3>2. path[j + 1] >= path[j] + 4 /\ path[j + 1] \in Cell /\ path[j] \in Cell
      BY <1>0, <3>1 DEF Path
    <3>. DEFINE a == path[j]
                b == path[j + 1]
    <3>3. a \in 0 .. StackSize - 1 /\ b \in 0 .. StackSize - 1 /\ b >= a + 4
          /\ BaseFrame = StackSize - 1 /\ StackSize \in Nat
      BY <3>2, Sizes
    <3>. HIDE DEF a, b
    <3>4. a # BaseFrame
      BY <3>3
    <3>. QED  BY <3>4 DEF a
  <2>. QED  BY <2>1, <2>2
<1>2. ASSUME NEW j \in Nat, 0 .. j - 1 \subseteq S  PROVE j \in S
  <2>. SUFFICES ASSUME j <= n
                PROVE  /\ EndOn(path, s, j) \in 0 .. StackSize
                       /\ Framed(stk, path[j], EndOn(path, s, j))
                       /\ s <= EndOn(path, s, j)
    OBVIOUS
  <2>1. CASE j = 0
    <3>1. path[0] = f /\ EndOn(path, s, 0) = s
      BY DEF EndOn, Path
    <3>2. s \in Nat
      BY Sizes
    <3>. QED  BY <2>1, <3>1, <3>2
  <2>2. CASE j # 0
    <3>. DEFINE l == j - 1
                g == path[l]
                e == EndOn(path, s, l)
    <3>1. l \in 0 .. j - 1 /\ l <= n /\ l \in 0 .. n - 1 /\ l + 1 = j /\ l \in 0 .. n /\ l # n
      BY <2>2
    <3>2. l \in S
      <4>. HIDE DEF S
      <4>. QED  BY <1>2, <3>1
    <3>3. e \in 0 .. StackSize /\ Framed(stk, g, e) /\ s <= e
      BY <3>1, <3>2
    <3>4. g \in Cell /\ g # BaseFrame /\ path[j] = stk[g + 2]
      BY <1>0, <1>1, <3>1 DEF Path
    <3>5. EndOn(path, s, j) = g + 5
      BY <2>2 DEF EndOn
    <3>. HIDE DEF g, e, l
    <3>6. /\ Framed(stk, stk[g + 2], g + 5) /\ g + 4 \in Cell
          /\ VarsOfFrame(stk, g) \in 0 .. 15 /\ e <= g + 1 - VarsOfFrame(stk, g)
      BY <3>3, <3>4, FrameBounds
    <3>7. g + 5 \in 0 .. StackSize /\ s <= g + 5
      <4>. DEFINE v == VarsOfFrame(stk, g)
      <4>1. g + 4 \in 0 .. StackSize - 1 /\ g \in 0 .. StackSize - 1 /\ StackSize \in Nat
            /\ v \in 0 .. 15 /\ e <= g + 1 - v /\ s \in 0 .. StackSize /\ s <= e
            /\ e \in 0 .. StackSize
        BY <3>3, <3>4, <3>6, Sizes
      <4>. HIDE DEF v
      <4>. QED  BY <4>1
    <3>. QED  BY <3>4, <3>5, <3>6, <3>7
  <2>. QED  BY <2>1, <2>2
<1>3. Nat \subseteq S
  <2>. HIDE DEF S
  <2>. QED  BY <1>2, Ladder
<1>4. i \in S /\ i <= n
  BY <1>3
<1>. QED  BY <1>0, <1>1, <1>4

\* By frame, the frame pointers from it to the main routine.
IsPointers(u, stk) ==
    u = [g \in Cell |-> IF HasCaller(stk, g) THEN <<g>> \o u[stk[g + 2]] ELSE <<>>]

LEMMA PointersExist ==
  ASSUME NEW stk \in [Cell -> Word]
  PROVE  \E u : IsPointers(u, stk)
<1>. DEFINE V == Seq(Cell)
            rank == [g \in Cell |-> BaseFrame - g]
            next(g, u) == IF HasCaller(stk, g) THEN <<g>> \o u[stk[g + 2]] ELSE <<>>
            step == [g \in Cell |-> [u \in [Cell -> V] |-> next(g, u)]]
<1>1. ASSUME NEW g \in Cell, HasCaller(stk, g)
      PROVE  stk[g + 2] \in Cell /\ stk[g + 2] > g
  <2>1. g + 4 < StackSize /\ stk[g + 2] > g /\ stk[g + 2] < StackSize /\ g \in 0 .. StackSize - 1
        /\ StackSize \in Nat
    BY <1>1, Sizes DEF HasCaller
  <2>2. g + 2 \in Cell
    BY <2>1, Sizes
  <2>3. stk[g + 2] \in Nat
    BY <2>2, WordsAreNumbers
  <2>. DEFINE c == stk[g + 2]
  <2>4. c \in 0 .. StackSize - 1
    <3>1. c \in Nat /\ c < StackSize
      BY <2>1, <2>3
    <3>. HIDE DEF c
    <3>. QED  BY <2>1, <3>1
  <2>. QED  BY <2>1, <2>4, Sizes
<1>2. ASSUME NEW g \in Cell, NEW u \in [Cell -> V]  PROVE next(g, u) \in V
  <2>1. CASE HasCaller(stk, g)
    <3>1. u[stk[g + 2]] \in Seq(Cell) /\ <<g>> \in Seq(Cell)
      BY <1>1, <2>1
    <3>. DEFINE t == u[stk[g + 2]]
    <3>2. t \in Seq(Cell)
      BY <3>1
    <3>. HIDE DEF t
    <3>3. <<g>> \o t \in Seq(Cell)
      BY <3>1, <3>2, ConcatProperties
    <3>. QED  BY <2>1, <3>3 DEF t
  <2>2. CASE ~HasCaller(stk, g)
    BY <2>2
  <2>. QED  BY <2>1, <2>2
<1>3. /\ StackSize \in Nat /\ rank \in [Cell -> Nat]
      /\ \A g \in Cell : rank[g] < StackSize
  BY Sizes
<1>4. step \in [Cell -> [[Cell -> V] -> V]]
  <2>. HIDE DEF V, next
  <2>. QED  BY <1>2
<1>5. \A g \in Cell : \A u \in [Cell -> V] : step[g][u] = next(g, u)
  OBVIOUS
<1>6. ASSUME NEW g \in Cell, NEW u \in [Cell -> V], NEW w \in [Cell -> V],
             \A h \in Cell : rank[h] < rank[g] => u[h] = w[h]
      PROVE  step[g][u] = step[g][w]
  <2>1. CASE HasCaller(stk, g)
    <3>. DEFINE c == stk[g + 2]
    <3>1. c \in Cell /\ c > g
      BY <1>1, <2>1
    <3>. HIDE DEF c
    <3>2. rank[c] < rank[g]
      BY <3>1, Sizes
    <3>3. u[c] = w[c]
      BY <1>6, <3>1, <3>2
    <3>. QED  BY <1>5, <3>3 DEF c
  <2>2. CASE ~HasCaller(stk, g)
    BY <1>5, <2>2
  <2>. QED  BY <2>1, <2>2
<1>7. V # {}
  <2>1. <<>> \in Seq(Cell)
    OBVIOUS
  <2>. QED  BY <2>1
<1>. HIDE DEF V, rank, step, next
<1>8. Descends(Cell, V, rank, StackSize, step)
  BY <1>3, <1>4, <1>6, <1>7 DEF Descends
<1>9. PICK u \in [Cell -> V] : \A g \in Cell : u[g] = step[g][u]
  BY <1>8, RecursiveFunction
<1>10. u = [g \in Cell |-> IF HasCaller(stk, g) THEN <<g>> \o u[stk[g + 2]] ELSE <<>>]
  BY <1>5, <1>9 DEF next
<1>. QED  BY <1>10 DEF IsPointers

LEMMA PointersStep ==
  ASSUME NEW stk \in [Cell -> Word], NEW g \in Cell
  PROVE  FramePointers(stk, g) = IF HasCaller(stk, g)
                                 THEN <<g>> \o FramePointers(stk, stk[g + 2]) ELSE <<>>
<1>. DEFINE u == CHOOSE w : IsPointers(w, stk)
<1>1. IsPointers(u, stk)
  BY PointersExist
<1>2. \A h : FramePointers(stk, h) = u[h]
  BY DEF FramePointers, IsPointers
<1>. HIDE DEF u
<1>. QED  BY <1>1, <1>2 DEF IsPointers

\* Which frames of a path have callers.
LEMMA CallerOnPath ==
  ASSUME NEW stk \in [Cell -> Word], NEW f \in Cell, NEW s \in 0 .. StackSize,
         Framed(stk, f, s),
         NEW n \in Nat, NEW path, Path(path, n, stk, f), NEW i \in 0 .. n
  PROVE  /\ path[i] \in Cell
         /\ (HasCaller(stk, path[i]) <=> i # n)
         /\ i # n => stk[path[i] + 2] = path[i + 1] /\ i + 1 \in 0 .. n
<1>0. path[i] \in Cell
  BY FramedOnPath
<1>1. path[i] = BaseFrame <=> i = n
  BY FramedOnPath
<1>2. CASE i = n
  BY <1>0, <1>1, <1>2, Sizes DEF HasCaller
<1>3. CASE i # n
  <2>1. i \in 0 .. n - 1 /\ i + 1 \in 0 .. n
    BY <1>3
  <2>2. path[i + 1] = stk[path[i] + 2] /\ path[i + 1] >= path[i] + 4 /\ path[i + 1] \in Cell
    BY <2>1 DEF Path
  <2>. DEFINE a == path[i]
              b == path[i + 1]
  <2>3. a \in Cell /\ b \in Cell /\ b >= a + 4 /\ b = stk[a + 2]
    BY <1>0, <2>2
  <2>. HIDE DEF a, b
  <2>4. HasCaller(stk, a)
    BY <2>3, Sizes DEF HasCaller
  <2>. QED  BY <1>0, <1>3, <2>1, <2>2, <2>4 DEF a
<1>. QED  BY <1>0, <1>2, <1>3

\* The list of frames of save_quetzal is the path without the main routine.
LEMMA PointersOnPath ==
  ASSUME NEW stk \in [Cell -> Word], NEW f \in Cell, NEW s \in 0 .. StackSize,
         Framed(stk, f, s),
         NEW n \in Nat, NEW path, Path(path, n, stk, f), NEW m \in 0 .. n
  PROVE  FramePointers(stk, path[n - m]) = [j \in 1 .. m |-> path[n - m + j - 1]]
<1>. DEFINE list(k) == [j \in 1 .. k |-> path[n - k + j - 1]]
            S == {k \in Nat : k <= n => FramePointers(stk, path[n - k]) = list(k)}
<1>1. ASSUME NEW k \in Nat, 0 .. k - 1 \subseteq S  PROVE k \in S
  <2>. SUFFICES ASSUME k <= n  PROVE FramePointers(stk, path[n - k]) = list(k)
    OBVIOUS
  <2>0. n - k \in 0 .. n
    OBVIOUS
  <2>1. CASE k = 0
    <3>1. ~HasCaller(stk, path[n - k]) /\ path[n - k] \in Cell
      BY <2>0, <2>1, CallerOnPath
    <3>2. FramePointers(stk, path[n - k]) = <<>>
      BY <3>1, PointersStep
    <3>3. list(k) = <<>>
      BY <2>1
    <3>. QED  BY <3>2, <3>3
  <2>2. CASE k # 0
    <3>. DEFINE l == k - 1
                g == path[n - k]
                up == path[n - l]
    <3>1. l \in 0 .. k - 1 /\ l <= n /\ (n - k) + 1 = n - l /\ n - k # n /\ l \in Nat
      BY <2>2
    <3>2. l \in S
      <4>. HIDE DEF S
      <4>. QED  BY <1>1, <3>1
    <3>3. FramePointers(stk, up) = list(l)
      BY <3>1, <3>2
    <3>4. g \in Cell /\ HasCaller(stk, g) /\ stk[g + 2] = up
      BY <2>0, <3>1, CallerOnPath
    <3>5. FramePointers(stk, g) = <<g>> \o list(l)
      BY <3>3, <3>4, PointersStep
    <3>6. \A i \in 0 .. n : path[i] \in Cell
      BY DEF Path
    <3>7. \A j \in 1 .. l : n - l + j - 1 \in 0 .. n
      BY <3>1
    <3>8. list(l) \in [1 .. l -> Cell]
      BY <3>6, <3>7
    <3>9. \A j \in 1 .. l : list(l)[j] = path[n - l + j - 1]
      OBVIOUS
    <3>10. <<g>> \o list(l) = list(k)
      <4>. DEFINE t == list(l)
      <4>1. t \in Seq(Cell) /\ Len(t) = l /\ <<g>> \in Seq(Cell) /\ Len(<<g>>) = 1
        BY <3>1, <3>4, <3>8
      <4>2. \A j \in 1 .. l : t[j] = path[n - l + j - 1]
        BY <3>9
      <4>. HIDE DEF t
      <4>. DEFINE q == <<g>> \o t
      <4>3. /\ q \in Seq(Cell) /\ Len(q) = 1 + l
            /\ \A i \in 1 .. 1 + l : q[i] = IF i <= 1 THEN <<g>>[i] ELSE t[i - 1]
        BY <3>1, <4>1, ConcatProperties
      <4>. HIDE DEF q
      <4>4. q = [j \in 1 .. k |-> q[j]]
        BY <3>1, <4>3, <2>2
      <4>5. ASSUME NEW j \in 1 .. k  PROVE q[j] = path[n - k + j - 1]
        <5>1. j \in 1 .. 1 + l
          BY <2>2
        <5>2. CASE j = 1
          <6>1. q[j] = g /\ n - k + j - 1 = n - k
            BY <4>3, <5>1, <5>2
          <6>. QED  BY <6>1
        <5>3. CASE j # 1
          <6>1. j - 1 \in 1 .. l /\ n - l + (j - 1) - 1 = n - k + j - 1 /\ ~(j <= 1)
            BY <2>2, <5>3
          <6>2. q[j] = t[j - 1]
            BY <4>3, <5>1, <6>1
          <6>. QED  BY <4>2, <6>1, <6>2
        <5>. QED  BY <5>2, <5>3
      <4>. QED  BY <4>4, <4>5 DEF q, t
    <3>. QED  BY <3>5, <3>10
  <2>. QED  BY <2>1, <2>2
<1>2. Nat \subseteq S
  <2>. HIDE DEF S
  <2>. QED  BY <1>1, Ladder
<1>. QED  BY <1>2

\* The callers of a frame are the frames of the path above it.
LEMMA CallersAreOnPath ==
  ASSUME NEW stk \in [Cell -> Word], NEW f \in Cell, NEW s \in 0 .. StackSize,
         Framed(stk, f, s),
         NEW n \in Nat, NEW path, Path(path, n, stk, f), NEW m \in 0 .. n
  PROVE  CallersOf(stk)[path[n - m]] =
           [k \in 1 .. m |-> FrameAt(stk, path[n - k + 1], path[n - k] + 5)]
<1>. DEFINE T == {FrameAt(stk, h, low) : h \in Cell, low \in Int}
            fr(k) == FrameAt(stk, path[n - k + 1], path[n - k] + 5)
            list(l) == [k \in 1 .. l |-> fr(k)]
            S == {l \in Nat : l <= n => CallersOf(stk)[path[n - l]] = list(l)}
<1>1. ASSUME NEW k \in Nat, 0 .. k - 1 \subseteq S  PROVE k \in S
  <2>. SUFFICES ASSUME k <= n  PROVE CallersOf(stk)[path[n - k]] = list(k)
    OBVIOUS
  <2>0. n - k \in 0 .. n
    OBVIOUS
  <2>1. CASE k = 0
    <3>1. ~HasCaller(stk, path[n - k]) /\ path[n - k] \in Cell
      BY <2>0, <2>1, CallerOnPath
    <3>2. CallersOf(stk)[path[n - k]] = <<>>
      BY <3>1, CallersOfStep
    <3>3. list(k) = <<>>
      BY <2>1
    <3>. QED  BY <3>2, <3>3
  <2>2. CASE k # 0
    <3>. DEFINE l == k - 1
                g == path[n - k]
                up == path[n - l]
    <3>1. l \in 0 .. k - 1 /\ l <= n /\ (n - k) + 1 = n - l /\ n - k # n /\ l \in Nat
      BY <2>2
    <3>2. l \in S
      <4>. HIDE DEF S
      <4>. QED  BY <1>1, <3>1
    <3>3. CallersOf(stk)[up] = list(l)
      BY <3>1, <3>2
    <3>4. g \in Cell /\ HasCaller(stk, g) /\ stk[g + 2] = up
      BY <2>0, <3>1, CallerOnPath
    <3>5. CallersOf(stk)[g] = Append(list(l), FrameAt(stk, up, g + 5))
      BY <3>3, <3>4, CallersOfStep
    <3>6. FrameAt(stk, up, g + 5) = fr(k)
      BY <3>1
    <3>7. \A j \in 1 .. k : fr(j) \in T
      <4>. SUFFICES ASSUME NEW j \in 1 .. k  PROVE fr(j) \in T
        OBVIOUS
      <4>1. n - j + 1 \in 0 .. n /\ n - j \in 0 .. n
        OBVIOUS
      <4>2. path[n - j + 1] \in Cell /\ path[n - j] \in Cell
        BY <4>1 DEF Path
      <4>3. path[n - j] + 5 \in Int
        BY <4>2, Sizes
      <4>. QED  BY <4>2, <4>3
    <3>8. k \in 1 .. k /\ l + 1 = k /\ \A j \in 1 .. l : j \in 1 .. k
      BY <2>2
    <3>. HIDE DEF T, fr
    <3>9. list(l) \in Seq(T) /\ Len(list(l)) = l /\ \A j \in 1 .. l : list(l)[j] = fr(j)
      BY <3>1, <3>7, <3>8
    <3>10. Append(list(l), fr(k)) = list(k)
      <4>. DEFINE t == list(l)
      <4>1. t \in Seq(T) /\ Len(t) = l /\ fr(k) \in T /\ \A j \in 1 .. l : t[j] = fr(j)
        BY <3>7, <3>8, <3>9
      <4>. HIDE DEF t
      <4>2. /\ Append(t, fr(k)) \in Seq(T) /\ Len(Append(t, fr(k))) = l + 1
            /\ \A i \in 1 .. l : Append(t, fr(k))[i] = t[i]
            /\ Append(t, fr(k))[l + 1] = fr(k)
        BY <4>1, AppendProperties
      <4>. DEFINE q == Append(t, fr(k))
      <4>. HIDE DEF l
      <4>3. q \in Seq(T) /\ Len(q) = k /\ \A i \in 1 .. k : q[i] = fr(i)
        <5>1. ASSUME NEW i \in 1 .. k  PROVE q[i] = fr(i)
          <6>1. i \in 1 .. l \/ i = l + 1
            BY <3>8 DEF l
          <6>. QED  BY <3>8, <4>1, <4>2, <6>1
        <5>. QED  BY <3>8, <4>2, <5>1
      <4>. HIDE DEF q
      <4>4. q = [i \in 1 .. k |-> fr(i)]
        BY <4>3
      <4>. QED  BY <4>4 DEF q, t
    <3>. QED  BY <3>5, <3>6, <3>10
  <2>. QED  BY <2>1, <2>2
<1>2. Nat \subseteq S
  <2>. HIDE DEF S
  <2>. QED  BY <1>1, Ladder
<1>. QED  BY <1>2

\* All frames, the main routine first.
LEMMA FramesAreOnPath ==
  ASSUME NEW stk \in [Cell -> Word], NEW f \in Cell, NEW s \in 0 .. StackSize,
         Framed(stk, f, s),
         NEW n \in Nat, NEW path, Path(path, n, stk, f)
  PROVE  /\ FramesOf(stk, f, s) \in Seq(Frame) /\ Len(FramesOf(stk, f, s)) = n + 1
         /\ \A k \in 1 .. n + 1 :
              FramesOf(stk, f, s)[k] =
                FrameAt(stk, path[n + 1 - k], EndOn(path, s, n + 1 - k))
<1>. DEFINE cs == CallersOf(stk)[f]
            top == FrameAt(stk, f, s)
<1>1. cs = [k \in 1 .. n |-> FrameAt(stk, path[n - k + 1], path[n - k] + 5)]
  <2>1. n \in 0 .. n /\ n - n = 0 /\ path[0] = f
    BY DEF Path
  <2>2. CallersOf(stk)[path[n - n]] =
          [k \in 1 .. n |-> FrameAt(stk, path[n - k + 1], path[n - k] + 5)]
    BY <2>1, CallersAreOnPath
  <2>. QED  BY <2>1, <2>2
<1>2. cs \in Seq(Frame) /\ top \in Frame
  BY FramesTyped
<1>3. FramesOf(stk, f, s) = Append(cs, top)
  BY DEF FramesOf
<1>4. Len(cs) = n
  BY <1>1, <1>2
<1>5. \A k \in 1 .. n : cs[k] = FrameAt(stk, path[n - k + 1], path[n - k] + 5)
  BY <1>1
<1>. HIDE DEF cs
<1>6. top = FrameAt(stk, path[0], EndOn(path, s, 0))
  BY DEF Path, EndOn
<1>. HIDE DEF top
<1>7. /\ Append(cs, top) \in Seq(Frame) /\ Len(Append(cs, top)) = n + 1
      /\ \A i \in 1 .. n : Append(cs, top)[i] = cs[i]
      /\ Append(cs, top)[n + 1] = top
  BY <1>2, <1>4, AppendProperties
<1>8. ASSUME NEW k \in 1 .. n + 1
      PROVE  Append(cs, top)[k] = FrameAt(stk, path[n + 1 - k], EndOn(path, s, n + 1 - k))
  <2>1. CASE k = n + 1
    <3>1. n + 1 - k = 0
      BY <2>1
    <3>. QED  BY <1>6, <1>7, <2>1, <3>1
  <2>2. CASE k # n + 1
    <3>1. k \in 1 .. n /\ n + 1 - k = n - k + 1 /\ n + 1 - k # 0 /\ n + 1 - k - 1 = n - k
      BY <2>2
    <3>2. EndOn(path, s, n + 1 - k) = path[n - k] + 5
      BY <3>1 DEF EndOn
    <3>. QED  BY <1>5, <1>7, <3>1, <3>2
  <2>. QED  BY <2>1, <2>2
<1>. QED  BY <1>3, <1>7, <1>8

\* What save_quetzal writes of each frame of the path.
SavedOn(stk, path, n, s, k) == SavedFrame(stk, path[n - k], EndOn(path, s, n - k) - 5)

LEMMA SavedOnPath ==
  ASSUME NEW stk \in [Cell -> Word], NEW f \in Cell, NEW s \in 0 .. StackSize,
         Framed(stk, f, s),
         NEW n \in Nat, NEW path, Path(path, n, stk, f)
  PROVE  SavedStack(stk, f, s) =
           [dummy  |-> WordsDown(stk, StackSize - 1, EndOn(path, s, n)),
            frames |-> [k \in 1 .. n |-> SavedOn(stk, path, n, s, k)]]
<1>. DEFINE fps == FramePointers(stk, f)
            entry(i) == IF i = 0 THEN s - 5 ELSE fps[i]
<1>1. fps = [j \in 1 .. n |-> path[n - n + j - 1]]
  <2>1. n \in 0 .. n /\ n - n = 0 /\ path[0] = f
    BY DEF Path
  <2>2. FramePointers(stk, path[n - n]) = [j \in 1 .. n |-> path[n - n + j - 1]]
    BY <2>1, PointersOnPath
  <2>. QED  BY <2>1, <2>2
<1>2. \A j \in 1 .. n : n - n + j - 1 = j - 1 /\ path[j - 1] \in Cell
  BY DEF Path
<1>3. Len(fps) = n /\ \A j \in 1 .. n : fps[j] = path[j - 1]
  <2>1. fps \in [1 .. n -> Cell]
    BY <1>1, <1>2
  <2>2. fps \in Seq(Cell) /\ Len(fps) = n
    <3>. HIDE DEF fps
    <3>. QED  BY <2>1
  <2>. QED  BY <1>1, <1>2, <2>2
<1>4. s \in Int /\ \A i \in 0 .. n : path[i] \in Int
  BY Sizes DEF Path
<1>5. \A i \in 0 .. n : entry(i) = EndOn(path, s, i) - 5
  <2>. SUFFICES ASSUME NEW i \in 0 .. n  PROVE entry(i) = EndOn(path, s, i) - 5
    OBVIOUS
  <2>1. CASE i = 0
    BY <2>1 DEF EndOn
  <2>2. CASE i # 0
    <3>1. i \in 1 .. n /\ i - 1 \in 0 .. n
      BY <2>2
    <3>. QED  BY <1>3, <1>4, <2>2, <3>1 DEF EndOn
  <2>. QED  BY <2>1, <2>2
<1>6. SavedStack(stk, f, s) =
        [dummy  |-> WordsDown(stk, StackSize - 1, entry(n) + 5),
         frames |-> [k \in 1 .. n |-> SavedFrame(stk, fps[n - k + 1], entry(n - k))]]
  BY <1>3 DEF SavedStack
<1>7. entry(n) + 5 = EndOn(path, s, n)
  <2>1. EndOn(path, s, n) \in 0 .. StackSize
    <3>1. n \in 0 .. n
      OBVIOUS
    <3>. QED  BY <3>1, FramedOnPath
  <2>2. EndOn(path, s, n) \in Int /\ n \in 0 .. n
    BY <2>1
  <2>3. entry(n) = EndOn(path, s, n) - 5
    BY <1>5, <2>2
  <2>. HIDE DEF entry
  <2>. QED  BY <2>2, <2>3
<1>8. ASSUME NEW k \in 1 .. n
      PROVE  SavedFrame(stk, fps[n - k + 1], entry(n - k)) = SavedOn(stk, path, n, s, k)
  <2>1. n - k \in 0 .. n /\ n - k + 1 \in 1 .. n /\ (n - k + 1) - 1 = n - k
    OBVIOUS
  <2>2. entry(n - k) = EndOn(path, s, n - k) - 5 /\ fps[n - k + 1] = path[n - k]
    <3>1. entry(n - k) = EndOn(path, s, n - k) - 5
      BY <1>5, <2>1
    <3>2. fps[n - k + 1] = path[n - k]
      <4>. HIDE DEF fps
      <4>. QED  BY <1>3, <2>1
    <3>. QED  BY <3>1, <3>2
  <2>. HIDE DEF fps, entry
  <2>. QED  BY <2>2 DEF SavedOn
<1>. HIDE DEF fps, entry
<1>. QED  BY <1>6, <1>7, <1>8

\* The bits of the args byte give the number of arguments.
LEMMA BitmapLength ==
  ASSUME NEW a \in 0 .. 7
  PROVE  {i \in 0 .. 8 : Bitmap(a) = Bitmap(i)} = {a}
<1>1. ASSUME NEW i \in 0 .. 8, Bitmap(a) = Bitmap(i)  PROVE i = a
  <2>1. 0 .. a - 1 = 0 .. i - 1
    BY <1>1 DEF Bitmap
  <2>2. ~(a < i)
    <3>1. a \notin 0 .. a - 1
      OBVIOUS
    <3>2. a < i => a \in 0 .. i - 1
      OBVIOUS
    <3>. QED  BY <2>1, <3>1, <3>2
  <2>3. ~(i < a)
    <3>1. i \notin 0 .. i - 1
      OBVIOUS
    <3>2. i < a => i \in 0 .. a - 1
      OBVIOUS
    <3>. QED  BY <2>1, <3>1, <3>2
  <2>. QED  BY <2>2, <2>3
<1>2. a \in 0 .. 8
  OBVIOUS
<1>. QED  BY <1>1, <1>2

\* A packed header is made of its parts.
LEMMA HeaderJoined ==
  ASSUME NEW w \in Nat
  PROVE  Header(TypeOf(w), VarsOf(w), ArgsOf(w)) = w
<1>1. w = 256 * (w \div 256) + (w % 256) /\ w \div 256 \in Nat
  OBVIOUS
<1>. DEFINE u == w \div 256
<1>2. u = 16 * (u \div 16) + (u % 16) /\ u \in Nat
  BY <1>1
<1>3. u \div 16 = w \div 4096
  BY <1>1
<1>. HIDE DEF u
<1>4. 256 * u = 4096 * (w \div 4096) + 256 * (u % 16)
  BY <1>2, <1>3
<1>. QED  BY <1>1, <1>4 DEF Header, TypeOf, VarsOf, ArgsOf, u

\* What is written of a frame whose evaluation stack ends at e.
LEMMA SavedParts ==
  ASSUME NEW stk \in [Cell -> Word], NEW g \in Cell, NEW e \in 0 .. StackSize,
         Framed(stk, g, e), g # BaseFrame
  PROVE  LET sf == SavedFrame(stk, g, e - 5)
             v  == VarsOfFrame(stk, g) IN
         /\ v = VarsOf(stk[g + 1]) /\ v \in 0 .. 15
         /\ sf = [pc        |-> IF TypeOf(stk[g + 1]) = FUNCTION THEN ReturnsTo(stk, g) + 1
                                ELSE ReturnsTo(stk, g),
                  procedure |-> TypeOf(stk[g + 1]) # FUNCTION,
                  var       |-> IF TypeOf(stk[g + 1]) = FUNCTION
                                THEN ResultVar[ReturnsTo(stk, g)] ELSE 0,
                  args      |-> Bitmap(ArgsOf(stk[g + 1])),
                  nvars     |-> v,
                  nstk      |-> g + 1 - v - e,
                  words     |-> WordsDown(stk, g, e)]
         /\ g + 1 - v - e \in Nat
         /\ ReturnsTo(stk, g) \in Nat
<1>. DEFINE v == VarsOfFrame(stk, g)
<1>1. /\ v \in 0 .. 15 /\ g \in 0 .. StackSize - 1 /\ e <= g + 1 - v
      /\ g + 3 \in Cell /\ g + 4 \in Cell
  BY FrameBounds
<1>2. v = VarsOf(stk[g + 1])
  BY DEF VarsOfFrame
<1>3. e \in Nat /\ StackSize \in Nat
  BY Sizes
<1>. HIDE DEF v
<1>4. /\ g - (e - 5) - v - 4 = g + 1 - v - e /\ g + 1 - v - e \in Nat
      /\ g - v - (g + 1 - v - e) + 1 = e
  BY <1>1, <1>3
<1>5. ReturnsTo(stk, g) = stk[g + 3] + stk[g + 4] * PageSize /\ ReturnsTo(stk, g) \in Nat
  <2>1. stk[g + 3] \in Nat /\ stk[g + 4] \in Nat /\ PageSize \in Nat
    BY <1>1, WordsAreNumbers, CallStackAssumption, StoryAssumption
  <2>. DEFINE a == stk[g + 3]
              b == stk[g + 4]
  <2>. HIDE DEF a, b
  <2>2. a + b * PageSize \in Nat
    BY <2>1 DEF a, b
  <2>. QED  BY <2>2 DEF ReturnsTo, a, b
<1>6. SavedFrame(stk, g, e - 5) =
        [pc        |-> IF TypeOf(stk[g + 1]) = FUNCTION THEN ReturnsTo(stk, g) + 1
                       ELSE ReturnsTo(stk, g),
         procedure |-> TypeOf(stk[g + 1]) # FUNCTION,
         var       |-> IF TypeOf(stk[g + 1]) = FUNCTION
                       THEN ResultVar[ReturnsTo(stk, g)] ELSE 0,
         args      |-> Bitmap(ArgsOf(stk[g + 1])),
         nvars     |-> v,
         nstk      |-> g + 1 - v - e,
         words     |-> WordsDown(stk, g, e)]
  BY <1>2, <1>4, Zenon DEF SavedFrame, ReturnsTo
<1>. QED  BY <1>1, <1>2, <1>4, <1>5, <1>6 DEF v

\* It stands for the frame.
LEMMA SavedFrameStandsFor ==
  ASSUME NEW stk \in [Cell -> Word], NEW g \in Cell, NEW e \in 0 .. StackSize,
         Framed(stk, g, e), g # BaseFrame
  PROVE  FrameOfChunk(SavedFrame(stk, g, e - 5)) = FrameAt(stk, g, e)
<1>. DEFINE sf == SavedFrame(stk, g, e - 5)
            v == VarsOfFrame(stk, g)
            ws == WordsDown(stk, g, e)
            type == TypeOf(stk[g + 1])
            ret == ReturnsTo(stk, g)
<1>0. /\ v \in 0 .. 15 /\ g + 1 - v - e \in Nat /\ ret \in Nat
      /\ sf = [pc        |-> IF type = FUNCTION THEN ret + 1 ELSE ret,
               procedure |-> type # FUNCTION,
               var       |-> IF type = FUNCTION THEN ResultVar[ret] ELSE 0,
               args      |-> Bitmap(ArgsOf(stk[g + 1])),
               nvars     |-> v,
               nstk      |-> g + 1 - v - e,
               words     |-> ws]
  BY SavedParts, Zenon
<1>1. /\ v \in 0 .. 15 /\ g + 1 - v - e \in Nat /\ ret \in Nat
      /\ sf.pc = IF type = FUNCTION THEN ret + 1 ELSE ret
      /\ sf.procedure = (type # FUNCTION)
      /\ sf.args = Bitmap(ArgsOf(stk[g + 1]))
      /\ sf.nvars = v
      /\ sf.words = ws
  <2>. HIDE DEF sf, v, ret, ws, type
  <2>. QED  BY <1>0
<1>2. type \in CallTypes /\ ArgsOf(stk[g + 1]) \in 0 .. 7
  BY FrameBounds DEF CallFits
<1>3. /\ ws \in Seq(Word) /\ Len(ws) = g - e + 1
      /\ \A i \in 1 .. g - e + 1 : ws[i] = stk[g - i + 1]
  <2>1. e \in Nat /\ g \in Int /\ g < StackSize /\ StackSize \in Nat /\ v \in 0 .. 15
        /\ g + 1 - v - e \in Nat
    BY <1>1, Sizes
  <2>. HIDE DEF v
  <2>2. e <= g + 1
    BY <2>1
  <2>. QED  BY <2>1, <2>2, WordsOfStack
<1>. HIDE DEF sf, ws, v, ret
<1>4. (IF sf.procedure THEN PROCEDURE ELSE FUNCTION) = type
  BY <1>1, <1>2 DEF CallTypes, PROCEDURE, FUNCTION
<1>5. (CHOOSE i \in 0 .. 8 : sf.args = Bitmap(i)) = ArgsOf(stk[g + 1])
  <2>. DEFINE a == ArgsOf(stk[g + 1])
  <2>1. a \in 0 .. 7 /\ sf.args = Bitmap(a)
    BY <1>1, <1>2
  <2>. HIDE DEF a
  <2>2. {i \in 0 .. 8 : Bitmap(a) = Bitmap(i)} = {a}
    BY <2>1, BitmapLength
  <2>3. \A i \in 0 .. 8 : sf.args = Bitmap(i) <=> i = a
    BY <2>1, <2>2
  <2>4. a \in 0 .. 8
    BY <2>1
  <2>. QED  BY <2>3, <2>4 DEF a
<1>6. (IF sf.procedure THEN sf.pc ELSE sf.pc - 1) = ret
  <2>. HIDE DEF type
  <2>0. (ret + 1) - 1 = ret
    BY <1>1
  <2>1. CASE type = FUNCTION
    <3>1. sf.procedure = FALSE /\ sf.pc = ret + 1
      BY <1>1, <2>1
    <3>. QED  BY <2>0, <3>1
  <2>2. CASE type # FUNCTION
    <3>1. sf.procedure = TRUE /\ sf.pc = ret
      BY <1>1, <2>2
    <3>. QED  BY <3>1
  <2>. QED  BY <2>1, <2>2
<1>7. [i \in 1 .. v - 1 + 1 |-> sf.words[1 + i - 1]] = WordsDown(stk, g, g - v + 1)
  <2>1. v - 1 + 1 = g - (g - v + 1) + 1 /\ g \in Int
    BY <1>1, Sizes
  <2>2. ASSUME NEW i \in 1 .. v - 1 + 1  PROVE sf.words[1 + i - 1] = stk[g - i + 1]
    <3>1. 1 + i - 1 = i /\ i \in 1 .. g - e + 1
      BY <1>1, <2>1, Sizes
    <3>. QED  BY <1>1, <1>3, <3>1
  <2>. QED  BY <2>1, <2>2 DEF WordsDown
<1>8. [i \in 1 .. Len(sf.words) - (v + 1) + 1 |-> sf.words[v + 1 + i - 1]]
        = WordsDown(stk, g - v, e)
  <2>0. g \in Int /\ e \in Int /\ v \in Int /\ Len(sf.words) = g - e + 1
    <3>1. sf.words = ws
      BY <1>1
    <3>2. g \in Int /\ e \in Int
      BY Sizes
    <3>3. v \in Int
      BY <1>1
    <3>. QED  BY <1>3, <3>1, <3>2, <3>3
  <2>1. Len(sf.words) - (v + 1) + 1 = (g - v) - e + 1 /\ g \in Int /\ e \in Int
    BY <2>0
  <2>2. ASSUME NEW i \in 1 .. (g - v) - e + 1
        PROVE  sf.words[v + 1 + i - 1] = stk[(g - v) - i + 1]
    <3>1. v + 1 + i - 1 \in 1 .. g - e + 1 /\ g - (v + 1 + i - 1) + 1 = (g - v) - i + 1
      BY <1>1, <2>1, Sizes
    <3>. QED  BY <1>1, <1>3, <3>1
  <2>. QED  BY <2>1, <2>2 DEF WordsDown
<1>9. FrameOfChunk(sf) =
        [type   |-> IF sf.procedure THEN PROCEDURE ELSE FUNCTION,
         args   |-> CHOOSE i \in 0 .. 8 : sf.args = Bitmap(i),
         ret    |-> IF sf.procedure THEN sf.pc ELSE sf.pc - 1,
         locals |-> [i \in 1 .. v - 1 + 1 |-> sf.words[1 + i - 1]],
         eval   |-> [i \in 1 .. Len(sf.words) - (v + 1) + 1 |-> sf.words[v + 1 + i - 1]]]
  BY <1>1 DEF FrameOfChunk
<1>10. FrameAt(stk, g, e) =
         [type |-> type, args |-> ArgsOf(stk[g + 1]), ret |-> ret,
          locals |-> WordsDown(stk, g, g - v + 1), eval |-> WordsDown(stk, g - v, e)]
  BY DEF FrameAt, ReturnsTo, v, ret
<1>. QED  BY <1>4, <1>5, <1>6, <1>7, <1>8, <1>9, <1>10 DEF sf

\* The chunk stands for the frames that were saved.
LEMMA ChunkStandsFor ==
  ASSUME NEW stk \in [Cell -> Word], NEW f \in Cell, NEW s \in 0 .. StackSize,
         Framed(stk, f, s)
  PROVE  FramesOfChunk(SavedStack(stk, f, s)) = FramesOf(stk, f, s)
<1>1. PICK n \in Nat : \E path : Path(path, n, stk, f)
  BY PathExists
<1>2. PICK path : Path(path, n, stk, f)
  BY <1>1
<1>. DEFINE dummy == WordsDown(stk, StackSize - 1, EndOn(path, s, n))
            entry(k) == FrameOfChunk(SavedOn(stk, path, n, s, k))
            main == [type |-> PROCEDURE, args |-> 0, ret |-> 0, locals |-> <<>>, eval |-> dummy]
            fs == FramesOf(stk, f, s)
            rest == [k \in 1 .. n |-> entry(k)]
<1>3. FramesOfChunk(SavedStack(stk, f, s)) = <<main>> \o rest
  <2>. DEFINE saved == [k \in 1 .. n |-> SavedOn(stk, path, n, s, k)]
  <2>1. SavedStack(stk, f, s) = [dummy |-> dummy, frames |-> saved]
    BY <1>2, SavedOnPath
  <2>2. Len(saved) = n /\ \A k \in 1 .. n : saved[k] = SavedOn(stk, path, n, s, k)
    OBVIOUS
  <2>. HIDE DEF saved, dummy
  <2>. DEFINE r == [dummy |-> dummy, frames |-> saved]
  <2>3. r.dummy = dummy /\ r.frames = saved
    OBVIOUS
  <2>. HIDE DEF r
  <2>4. FramesOfChunk(r) = <<main>> \o [k \in 1 .. n |-> FrameOfChunk(saved[k])]
    BY <2>2, <2>3 DEF FramesOfChunk
  <2>5. [k \in 1 .. n |-> FrameOfChunk(saved[k])] = rest
    BY <2>2
  <2>. QED  BY <2>1, <2>4, <2>5 DEF r
<1>4. /\ fs \in Seq(Frame) /\ Len(fs) = n + 1
      /\ \A k \in 1 .. n + 1 : fs[k] = FrameAt(stk, path[n + 1 - k], EndOn(path, s, n + 1 - k))
  BY <1>2, FramesAreOnPath
<1>5. ASSUME NEW k \in 1 .. n  PROVE entry(k) = fs[k + 1]
  <2>. DEFINE g == path[n - k]
              e == EndOn(path, s, n - k)
  <2>0. n - k \in 0 .. n /\ n - k # n /\ n + 1 - (k + 1) = n - k /\ k + 1 \in 1 .. n + 1
    OBVIOUS
  <2>1. g \in Cell /\ e \in 0 .. StackSize /\ Framed(stk, g, e)
    BY <1>2, <2>0, FramedOnPath
  <2>2. g # BaseFrame
    BY <1>2, <2>0, FramedOnPath
  <2>3. fs[k + 1] = FrameAt(stk, g, e)
    BY <1>4, <2>0
  <2>. HIDE DEF g, e
  <2>4. FrameOfChunk(SavedFrame(stk, g, e - 5)) = FrameAt(stk, g, e)
    BY <2>1, <2>2, SavedFrameStandsFor
  <2>. QED  BY <2>3, <2>4 DEF g, e, SavedOn
<1>6. main = fs[1]
  <2>1. path[n] = BaseFrame /\ n + 1 - 1 = n /\ 1 \in 1 .. n + 1
    BY <1>2 DEF Path
  <2>2. fs[1] = FrameAt(stk, BaseFrame, EndOn(path, s, n))
    BY <1>4, <2>1
  <2>3. VarsOfFrame(stk, BaseFrame) = 0 /\ BaseFrame = StackSize - 1 /\ BaseFrame \in Int
    BY Sizes DEF VarsOfFrame
  <2>4. BaseFrame - 0 = StackSize - 1
    BY <2>3
  <2>5. WordsDown(stk, BaseFrame, BaseFrame - 0 + 1) = <<>>
    BY <2>3 DEF WordsDown
  <2>. QED  BY <2>2, <2>3, <2>4, <2>5 DEF FrameAt
<1>7. main \in Frame /\ rest \in Seq(Frame) /\ Len(rest) = n /\ \A k \in 1 .. n : rest[k] = entry(k)
  <2>1. \A k \in 1 .. n + 1 : fs[k] \in Frame
    BY <1>4, ElementOfSeq
  <2>2. \A k \in 1 .. n : k + 1 \in 1 .. n + 1
    OBVIOUS
  <2>3. \A k \in 1 .. n : entry(k) \in Frame
    <3>. HIDE DEF entry, fs
    <3>. QED  BY <1>5, <2>1, <2>2
  <2>4. 1 \in 1 .. n + 1
    OBVIOUS
  <2>5. main \in Frame
    <3>. HIDE DEF main, fs
    <3>. QED  BY <1>6, <2>1, <2>4
  <2>. HIDE DEF entry
  <2>. QED  BY <2>3, <2>5
<1>. HIDE DEF main, rest, fs, entry
<1>. DEFINE q == <<main>> \o rest
<1>8. /\ q \in Seq(Frame) /\ Len(q) = 1 + n
      /\ \A i \in 1 .. 1 + n : q[i] = IF i <= 1 THEN <<main>>[i] ELSE rest[i - 1]
  <2>1. <<main>> \in Seq(Frame) /\ Len(<<main>>) = 1
    BY <1>7
  <2>. QED  BY <1>7, <2>1, ConcatProperties
<1>. HIDE DEF q
<1>9. \A i \in 1 .. n + 1 : q[i] = fs[i]
  <2>. SUFFICES ASSUME NEW i \in 1 .. n + 1  PROVE q[i] = fs[i]
    OBVIOUS
  <2>1. CASE i = 1
    BY <1>6, <1>8, <2>1
  <2>2. CASE i # 1
    <3>1. i - 1 \in 1 .. n /\ i \in 1 .. 1 + n /\ ~(i <= 1) /\ (i - 1) + 1 = i
      BY <2>2
    <3>2. q[i] = rest[i - 1] /\ rest[i - 1] = entry(i - 1)
      BY <1>7, <1>8, <3>1
    <3>3. entry(i - 1) = fs[(i - 1) + 1]
      BY <1>5, <3>1
    <3>. QED  BY <3>1, <3>2, <3>3
  <2>. QED  BY <2>1, <2>2
<1>10. q = fs
  BY <1>4, <1>8, <1>9, SeqEqual
<1>. QED  BY <1>3, <1>10 DEF q, fs

LEMMA ProductAtLeast ==
  ASSUME NEW p \in Nat, NEW d \in Nat, d >= 1
  PROVE  p * d >= p
<1>1. p * d = p * (d - 1) + p /\ d - 1 \in Nat
  OBVIOUS
<1>2. p * (d - 1) \in Nat
  BY <1>1
<1>. QED  BY <1>1, <1>2

\* A number of two digits in base p, and its digits.
LEMMA AddressSplit ==
  ASSUME NEW a \in Nat, NEW b \in Nat, NEW p \in Nat \ {0}, a < p
  PROVE  (a + b * p) \div p = b /\ (a + b * p) % p = a
<1>. DEFINE w == a + b * p
            q == w \div p
            m == w % p
<1>0. b * p \in Nat /\ b * p = p * b
  OBVIOUS
<1>1. w \in Nat
  BY <1>0
<1>. HIDE DEF w
<1>2. w = p * q + m /\ m \in 0 .. p - 1 /\ q \in Nat
  BY <1>1
<1>3. w = p * b + a
  BY <1>0 DEF w
<1>. HIDE DEF q, m
<1>4. ~(q > b)
  <2>. SUFFICES ASSUME q > b  PROVE FALSE
    OBVIOUS
  <2>1. PICK d \in Nat : q = b + d /\ d >= 1
    BY <1>2
  <2>2. p * q = p * b + p * d
    BY <2>1
  <2>3. p * d >= p /\ p * d \in Nat
    BY <2>1, ProductAtLeast
  <2>4. p * b \in Nat
    OBVIOUS
  <2>. QED  BY <1>2, <1>3, <2>2, <2>3, <2>4
<1>5. ~(q < b)
  <2>. SUFFICES ASSUME q < b  PROVE FALSE
    OBVIOUS
  <2>1. PICK d \in Nat : b = q + d /\ d >= 1
    BY <1>2
  <2>2. p * b = p * q + p * d
    BY <1>2, <2>1
  <2>3. p * d >= p /\ p * d \in Nat
    BY <2>1, ProductAtLeast
  <2>4. p * q \in Nat
    BY <1>2
  <2>. QED  BY <1>2, <1>3, <2>2, <2>3, <2>4
<1>6. q = b
  BY <1>2, <1>4, <1>5
<1>7. m = a
  <2>1. p * b \in Nat
    OBVIOUS
  <2>. QED  BY <1>2, <1>3, <1>6, <2>1
<1>. QED  BY <1>6, <1>7 DEF q, m, w

\* The words of stk from index e up, over those of mem.
Merged(stk, mem, e) == [c \in Cell |-> IF c >= e THEN stk[c] ELSE mem[c]]

LEMMA MergedTyped ==
  ASSUME NEW stk \in [Cell -> Word], NEW mem \in [Cell -> Word], NEW e
  PROVE  /\ Merged(stk, mem, e) \in [Cell -> Word]
         /\ \A c \in Cell : c >= e => Merged(stk, mem, e)[c] = stk[c]
BY DEF Merged

\* The words of a frame put where they were.
LEMMA FramePut ==
  ASSUME NEW stk \in [Cell -> Word], NEW mem \in [Cell -> Word],
         NEW g \in Cell, NEW e \in 0 .. StackSize, e <= g + 1, g + 4 \in Cell
  PROVE  PutWords(Merged(stk, mem, g + 5), g + 5,
                  <<stk[g + 4], stk[g + 3], stk[g + 2], stk[g + 1]>> \o WordsDown(stk, g, e))
           = Merged(stk, mem, e)
<1>. DEFINE four == <<stk[g + 4], stk[g + 3], stk[g + 2], stk[g + 1]>>
            ws == WordsDown(stk, g, e)
            all == four \o ws
            old == Merged(stk, mem, g + 5)
<1>1. /\ g \in Nat /\ e \in Nat /\ g < StackSize /\ g + 4 < StackSize /\ StackSize \in Nat
      /\ g + 1 \in Cell /\ g + 2 \in Cell /\ g + 3 \in Cell
  BY Sizes
<1>2. /\ ws \in Seq(Word) /\ Len(ws) = g - e + 1
      /\ \A i \in 1 .. g - e + 1 : ws[i] = stk[g - i + 1]
  BY <1>1, WordsOfStack
<1>3. four \in Seq(Word) /\ Len(four) = 4
  BY <1>1
<1>4. /\ all \in Seq(Word) /\ Len(all) = 4 + (g - e + 1)
      /\ \A i \in 1 .. 4 + (g - e + 1) : all[i] = IF i <= 4 THEN four[i] ELSE ws[i - 4]
  <2>. HIDE DEF four, ws
  <2>. DEFINE m == Len(ws)
  <2>1. /\ all \in Seq(Word) /\ Len(all) = Len(four) + Len(ws)
        /\ \A i \in 1 .. Len(four) + Len(ws) :
             all[i] = IF i <= Len(four) THEN four[i] ELSE ws[i - Len(four)]
    <3>1. four \in Seq(Word) /\ ws \in Seq(Word)
      BY <1>2, <1>3
    <3>. QED  BY <3>1, ConcatProperties
  <2>. HIDE DEF all
  <2>. QED  BY <1>2, <1>3, <2>1
<1>5. four[1] = stk[g + 4] /\ four[2] = stk[g + 3] /\ four[3] = stk[g + 2] /\ four[4] = stk[g + 1]
  OBVIOUS
<1>. HIDE DEF four, ws, all
<1>6. ASSUME NEW c \in Cell, c < g + 5, c >= e  PROVE all[g + 5 - c] = stk[c]
  <2>. DEFINE i == g + 5 - c
  <2>0. c \in Nat
    BY Sizes
  <2>1. i \in 1 .. 4 + (g - e + 1) /\ c = g + 5 - i
    BY <1>1, <1>6, <2>0
  <2>2. CASE i <= 4
    <3>1. i \in {1, 2, 3, 4}
      BY <2>1, <2>2
    <3>2. all[i] = four[i]
      BY <1>4, <2>1, <2>2
    <3>3. CASE i = 1
      BY <1>1, <1>5, <2>1, <3>2, <3>3
    <3>4. CASE i = 2
      BY <1>1, <1>5, <2>1, <3>2, <3>4
    <3>5. CASE i = 3
      BY <1>1, <1>5, <2>1, <3>2, <3>5
    <3>6. CASE i = 4
      BY <1>1, <1>5, <2>1, <3>2, <3>6
    <3>. HIDE DEF i
    <3>. QED  BY <3>1, <3>3, <3>4, <3>5, <3>6
  <2>3. CASE i > 4
    <3>1. i - 4 \in 1 .. g - e + 1 /\ g - (i - 4) + 1 = c
      BY <1>1, <2>1, <2>3
    <3>. QED  BY <1>2, <1>4, <2>1, <2>3, <3>1
  <2>. QED  BY <2>1, <2>2, <2>3
<1>7. ASSUME NEW c \in Cell
      PROVE  (IF c < g + 5 /\ c >= g + 5 - Len(all) THEN all[g + 5 - c] ELSE old[c])
               = IF c >= e THEN stk[c] ELSE mem[c]
  <2>0. c \in Nat
    BY Sizes
  <2>1. g + 5 - Len(all) = e
    <3>1. Len(all) = 4 + (g - e + 1)
      BY <1>4
    <3>. QED  BY <1>1, <3>1
  <2>2. old[c] = IF c >= g + 5 THEN stk[c] ELSE mem[c]
    BY DEF Merged
  <2>. HIDE DEF old
  <2>3. CASE c < g + 5 /\ c >= e
    BY <1>6, <2>0, <2>1, <2>3
  <2>4. CASE c >= g + 5
    BY <1>1, <2>0, <2>1, <2>2, <2>4
  <2>5. CASE c < e
    BY <1>1, <2>0, <2>1, <2>2, <2>5
  <2>. QED  BY <1>1, <2>0, <2>1, <2>3, <2>4, <2>5
<1>. HIDE DEF old
<1>8. PutWords(old, g + 5, all) = Merged(stk, mem, e)
  <2>1. PutWords(old, g + 5, all) =
          [c \in Cell |-> IF c < g + 5 /\ c >= g + 5 - Len(all) THEN all[g + 5 - c] ELSE old[c]]
    BY DEF PutWords
  <2>2. Merged(stk, mem, e) = [c \in Cell |-> IF c >= e THEN stk[c] ELSE mem[c]]
    BY DEF Merged
  <2>. QED  BY <1>7, <2>1, <2>2
<1>. QED  BY <1>8 DEF old, all, four, ws

\* What restore_quetzal has read: b, with the frames up to f loaded.
LoadedAs(b, stk, mem, e, f) ==
    [stk |-> Merged(stk, mem, e), sp |-> e, fp |-> f, count |-> 0, pc |-> b.pc,
     data |-> b.data, got |-> b.got, ok |-> TRUE, astray |-> b.astray, lost |-> b.lost]

LEMMA LoadedFrame ==
  ASSUME NEW b, NEW stk \in [Cell -> Word], NEW mem \in [Cell -> Word],
         NEW g \in Cell, NEW e \in 0 .. StackSize,
         Framed(stk, g, e), g # BaseFrame, e > 0
  PROVE  LoadFrame(LoadedAs(b, stk, mem, g + 5, stk[g + 2]), SavedFrame(stk, g, e - 5))
           = LoadedAs(b, stk, mem, e, g)
<1>. DEFINE sf == SavedFrame(stk, g, e - 5)
            v == VarsOfFrame(stk, g)
            ws == WordsDown(stk, g, e)
            type == TypeOf(stk[g + 1])
            a == ArgsOf(stk[g + 1])
            ret == ReturnsTo(stk, g)
            r == LoadedAs(b, stk, mem, g + 5, stk[g + 2])
<1>0. /\ v \in 0 .. 15 /\ v = VarsOf(stk[g + 1]) /\ g + 1 - v - e \in Nat /\ ret \in Nat
      /\ sf = [pc        |-> IF type = FUNCTION THEN ret + 1 ELSE ret,
               procedure |-> type # FUNCTION,
               var       |-> IF type = FUNCTION THEN ResultVar[ret] ELSE 0,
               args      |-> Bitmap(a),
               nvars     |-> v,
               nstk      |-> g + 1 - v - e,
               words     |-> ws]
  BY SavedParts, Zenon
<1>1. /\ sf.pc = IF type = FUNCTION THEN ret + 1 ELSE ret
      /\ sf.procedure = (type # FUNCTION)
      /\ sf.var = IF type = FUNCTION THEN ResultVar[ret] ELSE 0
      /\ sf.args = Bitmap(a)
      /\ sf.nvars = v
      /\ sf.nstk = g + 1 - v - e
      /\ sf.words = ws
  <2>. HIDE DEF sf, v, ret, ws, type, a
  <2>. QED  BY <1>0
<1>2. type \in CallTypes /\ a \in 0 .. 7 /\ stk[g + 3] < PageSize
      /\ g + 3 \in Cell /\ g + 4 \in Cell /\ g + 1 \in Cell
  BY FrameBounds DEF CallFits
<1>3. /\ r.stk = Merged(stk, mem, g + 5) /\ r.sp = g + 5 /\ r.fp = stk[g + 2] /\ r.ok = TRUE
      /\ r.count = 0 /\ r.pc = b.pc /\ r.data = b.data /\ r.got = b.got
      /\ r.astray = b.astray /\ r.lost = b.lost
      /\ r = [stk |-> r.stk, sp |-> r.sp, fp |-> r.fp, count |-> r.count, pc |-> r.pc,
              data |-> r.data, got |-> r.got, ok |-> r.ok, astray |-> r.astray, lost |-> r.lost]
  BY DEF LoadedAs
<1>4. ret \div PageSize = stk[g + 4] /\ ret % PageSize = stk[g + 3]
  <2>1. stk[g + 3] \in Nat /\ stk[g + 4] \in Nat /\ PageSize \in Nat \ {0}
    BY <1>2, WordsAreNumbers, CallStackAssumption, StoryAssumption
  <2>. QED  BY <1>2, <2>1, AddressSplit DEF ReturnsTo
<1>5. stk[g + 1] \in Nat /\ g \in Nat /\ e \in Nat
  BY <1>2, WordsAreNumbers, Sizes
<1>. HIDE DEF sf, ws, r
<1>6. ReturnAddress(sf) = ret
  <2>. HIDE DEF type, v, ret, a
  <2>0. (ret + 1) - 1 = ret
    BY <1>0
  <2>1. CASE type = FUNCTION
    <3>1. sf.procedure = FALSE /\ sf.pc = ret + 1
      BY <1>1, <2>1
    <3>. QED  BY <2>0, <3>1 DEF ReturnAddress
  <2>2. CASE type # FUNCTION
    <3>1. sf.procedure = TRUE /\ sf.pc = ret
      BY <1>1, <2>2
    <3>. QED  BY <3>1 DEF ReturnAddress
  <2>. QED  BY <2>1, <2>2
<1>7. ~(~sf.procedure /\ ResultVar[sf.pc - 1] # sf.var)
  <2>. HIDE DEF type, v, ret, a
  <2>0. (ret + 1) - 1 = ret
    BY <1>0
  <2>1. CASE type = FUNCTION
    <3>1. sf.var = ResultVar[ret] /\ sf.pc = ret + 1
      BY <1>1, <2>1
    <3>. QED  BY <2>0, <3>1
  <2>2. CASE type # FUNCTION
    BY <1>1, <2>2
  <2>. QED  BY <2>1, <2>2
<1>8. {i \in 0 .. 8 : sf.args = Bitmap(i)} = {a}
  <2>. HIDE DEF a
  <2>. QED  BY <1>1, <1>2, BitmapLength
<1>9. (CHOOSE i \in {a} : TRUE) = a /\ {a} # {}
  OBVIOUS
<1>10. (IF sf.procedure THEN PROCEDURE ELSE FUNCTION) = type
  <2>. HIDE DEF type, v, ret, a
  <2>. QED  BY <1>1, <1>2 DEF CallTypes, PROCEDURE, FUNCTION
<1>11. Header(type, v, a) = stk[g + 1]
  BY <1>0, <1>5, HeaderJoined
<1>. HIDE DEF type, v, ret, a
<1>12. /\ sf.nvars + sf.nstk = g + 1 - e /\ ~(g + 5 < 4) /\ ~(g + 1 - e >= g + 5 - 4)
       /\ g + 5 - 4 - (g + 1 - e) = e /\ g + 5 - 5 = g /\ e <= g + 1
  <2>1. v \in Nat /\ g + 1 - v - e \in Nat /\ e > 0
    BY <1>0
  <2>. QED  BY <1>1, <1>5, <2>1
<1>13. LoadFrame(r, sf) =
         [r EXCEPT !.stk = PutWords(r.stk, g + 5,
                             <<stk[g + 4], stk[g + 3], stk[g + 2], stk[g + 1]>> \o ws),
                   !.sp = e,
                   !.fp = g]
  <2>. DEFINE args == {i \in 0 .. 8 : sf.args = Bitmap(i)}
              n == sf.nvars + sf.nstk
              call == IF sf.procedure THEN PROCEDURE ELSE FUNCTION
              header == Header(call, sf.nvars, CHOOSE i \in args : TRUE)
              back == ReturnAddress(sf)
  <2>. DEFINE refuses == \/ ~r.ok
                         \/ r.sp < 4
                         \/ ~sf.procedure /\ ResultVar[sf.pc - 1] # sf.var
                         \/ args = {}
                         \/ n >= r.sp - 4
              loaded == [r EXCEPT !.stk = PutWords(r.stk, r.sp,
                                            <<back \div PageSize, back % PageSize, r.fp, header>>
                                              \o sf.words),
                                  !.sp = r.sp - 4 - n,
                                  !.fp = r.sp - 5]
  <2>1. ~refuses => LoadFrame(r, sf) = loaded
    BY DEF LoadFrame
  <2>2. args = {a}
    BY <1>8
  <2>3. header = stk[g + 1]
    <3>1. call = type
      BY <1>10
    <3>2. (CHOOSE i \in args : TRUE) = a
      BY <1>9, <2>2
    <3>. QED  BY <1>1, <1>11, <3>1, <3>2
  <2>4. n = g + 1 - e
    BY <1>12
  <2>5. back \div PageSize = stk[g + 4] /\ back % PageSize = stk[g + 3]
    BY <1>4, <1>6
  <2>. HIDE DEF args, n, call, header, back
  <2>6. ~refuses
    <3>1. ~(~r.ok)
      BY <1>3
    <3>2. ~(r.sp < 4) /\ ~(n >= r.sp - 4)
      <4>1. r.sp = g + 5
        BY <1>3
      <4>2. g \in Nat /\ e \in Nat /\ e > 0
        BY <1>5
      <4>. HIDE DEF refuses, loaded
      <4>. QED  BY <2>4, <4>1, <4>2
    <3>3. args # {}
      BY <1>9, <2>2
    <3>. QED  BY <1>7, <3>1, <3>2, <3>3
  <2>7. LoadFrame(r, sf) = loaded
    <3>. HIDE DEF refuses, loaded
    <3>. QED  BY <2>1, <2>6
  <2>8. r.sp - 4 - n = e /\ r.sp - 5 = g
    <3>1. r.sp = g + 5
      BY <1>3
    <3>2. g \in Nat /\ e \in Nat
      BY <1>5
    <3>. QED  BY <2>4, <3>1, <3>2
  <2>. QED  BY <1>1, <1>3, <2>3, <2>5, <2>7, <2>8
<1>14. PutWords(r.stk, g + 5, <<stk[g + 4], stk[g + 3], stk[g + 2], stk[g + 1]>> \o ws)
         = Merged(stk, mem, e)
  BY <1>2, <1>3, <1>12, FramePut DEF ws
<1>15. LoadFrame(r, sf) = [r EXCEPT !.stk = Merged(stk, mem, e), !.sp = e, !.fp = g]
  BY <1>13, <1>14
<1>16. LoadFrame(r, sf) = LoadedAs(b, stk, mem, e, g)
  BY <1>3, <1>15 DEF LoadedAs
<1>. QED  BY <1>16 DEF r, sf

\* The stack before the first call is put first.
LEMMA DummyPut ==
  ASSUME NEW stk \in [Cell -> Word], NEW mem \in [Cell -> Word], NEW d \in 0 .. StackSize
  PROVE  LET dummy == WordsDown(stk, StackSize - 1, d) IN
         /\ PutWords(mem, StackSize, dummy) = Merged(stk, mem, d)
         /\ StackSize - Len(dummy) = d
<1>. DEFINE dummy == WordsDown(stk, StackSize - 1, d)
<1>1. StackSize \in Nat /\ d \in Nat /\ d <= StackSize
  BY Sizes
<1>2. /\ Len(dummy) = (StackSize - 1) - d + 1
      /\ \A i \in 1 .. (StackSize - 1) - d + 1 : dummy[i] = stk[(StackSize - 1) - i + 1]
  <2>1. StackSize - 1 \in Int /\ StackSize - 1 < StackSize /\ d <= (StackSize - 1) + 1
    BY <1>1
  <2>. QED  BY <1>1, <2>1, WordsOfStack
<1>. HIDE DEF dummy
<1>3. StackSize - Len(dummy) = d
  BY <1>1, <1>2
<1>4. ASSUME NEW c \in Cell
      PROVE  (IF c < StackSize /\ c >= StackSize - Len(dummy) THEN dummy[StackSize - c]
                                                               ELSE mem[c])
               = IF c >= d THEN stk[c] ELSE mem[c]
  <2>1. c \in Nat /\ c < StackSize
    BY Sizes
  <2>2. ASSUME c >= d  PROVE dummy[StackSize - c] = stk[c]
    <3>1. StackSize - c \in 1 .. (StackSize - 1) - d + 1
          /\ (StackSize - 1) - (StackSize - c) + 1 = c
      BY <1>1, <2>1, <2>2
    <3>. QED  BY <1>2, <3>1
  <2>. QED  BY <1>3, <2>1, <2>2
<1>5. PutWords(mem, StackSize, dummy) = Merged(stk, mem, d)
  <2>1. PutWords(mem, StackSize, dummy) =
          [c \in Cell |-> IF c < StackSize /\ c >= StackSize - Len(dummy)
                          THEN dummy[StackSize - c] ELSE mem[c]]
    BY DEF PutWords
  <2>2. Merged(stk, mem, d) = [c \in Cell |-> IF c >= d THEN stk[c] ELSE mem[c]]
    BY DEF Merged
  <2>. QED  BY <1>4, <2>1, <2>2
<1>. QED  BY <1>3, <1>5 DEF dummy

\* What restore_quetzal has read is of this form.
IsRead(r) ==
    r = [stk |-> r.stk, sp |-> r.sp, fp |-> r.fp, count |-> r.count, pc |-> r.pc,
         data |-> r.data, got |-> r.got, ok |-> r.ok, astray |-> r.astray, lost |-> r.lost]

LoadBase(r, dummy) ==
    [r EXCEPT !.stk = PutWords(r.stk, StackSize, dummy),
              !.sp = StackSize - Len(dummy),
              !.fp = BaseFrame,
              !.count = 0]

\* By number of frames, what is loaded.
IsLoading(u, r, dummy, frames) ==
    u = [k \in 0 .. Len(frames) |->
           IF k = 0 THEN LoadBase(r, dummy) ELSE LoadFrame(u[k - 1], frames[k])]

\* The stack that is loaded is the stack that was saved, down to its sp.
LEMMA LoadedStack ==
  ASSUME NEW stk \in [Cell -> Word], NEW f \in Cell, NEW s \in 1 .. StackSize,
         Framed(stk, f, s),
         NEW r, IsRead(r), r.ok = TRUE, r.stk \in [Cell -> Word]
  PROVE  LoadStack(r, SavedStack(stk, f, s)) = LoadedAs(r, stk, r.stk, s, f)
<1>. DEFINE mem == r.stk
<1>0. s \in 0 .. StackSize /\ s \in Nat /\ s > 0 /\ StackSize \in Nat
  BY Sizes
<1>1. PICK n \in Nat : \E path : Path(path, n, stk, f)
  BY <1>0, PathExists
<1>2. PICK path : Path(path, n, stk, f)
  BY <1>1
<1>. DEFINE d == EndOn(path, s, n)
            dummy == WordsDown(stk, StackSize - 1, d)
            saved == [k \in 1 .. n |-> SavedOn(stk, path, n, s, k)]
            as(k) == LoadedAs(r, stk, mem, EndOn(path, s, n - k), path[n - k])
            expected == [k \in 0 .. n |-> as(k)]
<1>3. SavedStack(stk, f, s) = [dummy |-> dummy, frames |-> saved]
  BY <1>0, <1>2, SavedOnPath
<1>4. Len(saved) = n
  OBVIOUS
<1>5. \A k \in 1 .. n : saved[k] = SavedOn(stk, path, n, s, k)
  OBVIOUS
<1>6. LoadBase(r, dummy) = as(0)
  <2>1. d \in 0 .. StackSize /\ path[n] = BaseFrame
    BY <1>0, <1>2, FramedOnPath DEF Path
  <2>2. PutWords(mem, StackSize, dummy) = Merged(stk, mem, d) /\ StackSize - Len(dummy) = d
    <3>. HIDE DEF d, mem
    <3>1. mem \in [Cell -> Word]
      BY DEF mem
    <3>. QED  BY <2>1, <3>1, DummyPut
  <2>. HIDE DEF dummy
  <2>3. LoadBase(r, dummy) = [r EXCEPT !.stk = Merged(stk, mem, d), !.sp = d,
                                       !.fp = BaseFrame, !.count = 0]
    BY <2>2 DEF LoadBase
  <2>4. as(0) = LoadedAs(r, stk, mem, d, BaseFrame)
    <3>1. n - 0 = n
      OBVIOUS
    <3>. QED  BY <2>1, <3>1
  <2>. HIDE DEF d, mem, as
  <2>. QED  BY <2>3, <2>4 DEF IsRead, LoadedAs
<1>7. ASSUME NEW k \in 1 .. n  PROVE LoadFrame(as(k - 1), saved[k]) = as(k)
  <2>. DEFINE i == n - k
              g == path[i]
              e == EndOn(path, s, i)
  <2>1. i \in 0 .. n /\ i # n /\ n - (k - 1) = i + 1 /\ i + 1 # 0 /\ (i + 1) - 1 = i
    OBVIOUS
  <2>. HIDE DEF i
  <2>2. /\ g \in Cell /\ e \in 0 .. StackSize /\ Framed(stk, g, e) /\ s <= e /\ g # BaseFrame
    BY <1>0, <1>2, <2>1, FramedOnPath
  <2>3. stk[g + 2] = path[i + 1]
    BY <1>0, <1>2, <2>1, CallerOnPath
  <2>4. EndOn(path, s, i + 1) = g + 5
    BY <2>1 DEF EndOn
  <2>5. as(k - 1) = LoadedAs(r, stk, mem, g + 5, stk[g + 2])
    BY <2>1, <2>3, <2>4
  <2>6. saved[k] = SavedFrame(stk, g, e - 5)
    BY <1>5 DEF SavedOn, i
  <2>7. as(k) = LoadedAs(r, stk, mem, e, g)
    BY DEF i
  <2>8. e > 0
    BY <1>0, <2>2
  <2>. HIDE DEF g, e, mem, as, saved
  <2>9. mem \in [Cell -> Word]
    BY DEF mem
  <2>10. LoadFrame(LoadedAs(r, stk, mem, g + 5, stk[g + 2]), SavedFrame(stk, g, e - 5))
           = LoadedAs(r, stk, mem, e, g)
    BY <2>2, <2>8, <2>9, LoadedFrame
  <2>. QED  BY <2>5, <2>6, <2>7, <2>10
<1>. DEFINE u == CHOOSE w : IsLoading(w, r, dummy, saved)
<1>8. LoadStack(r, [dummy |-> dummy, frames |-> saved]) = u[n]
  <2>. HIDE DEF dummy, saved
  <2>. QED  BY <1>4 DEF LoadStack, IsLoading, LoadBase
<1>. HIDE DEF dummy, saved
<1>9. IsLoading(expected, r, dummy, saved)
  <2>. HIDE DEF as
  <2>1. \A k \in 0 .. n : expected[k] = as(k)
    OBVIOUS
  <2>2. ASSUME NEW k \in 0 .. n
        PROVE  expected[k] = IF k = 0 THEN LoadBase(r, dummy)
                                      ELSE LoadFrame(expected[k - 1], saved[k])
    <3>1. CASE k = 0
      BY <1>6, <2>1, <3>1
    <3>2. CASE k # 0
      <4>1. k \in 1 .. n /\ k - 1 \in 0 .. n
        BY <3>2
      <4>. QED  BY <1>7, <2>1, <3>2, <4>1
    <3>. QED  BY <3>1, <3>2
  <2>3. expected = [k \in 0 .. n |-> expected[k]]
    OBVIOUS
  <2>. HIDE DEF expected
  <2>. QED  BY <1>4, <2>2, <2>3 DEF IsLoading
<1>10. IsLoading(u, r, dummy, saved)
  <2>. HIDE DEF expected
  <2>. QED  BY <1>9
<1>. HIDE DEF u, as, expected
<1>. DEFINE S == {k \in Nat : k <= n => u[k] = as(k)}
<1>11. ASSUME NEW k \in Nat, 0 .. k - 1 \subseteq S  PROVE k \in S
  <2>. SUFFICES ASSUME k <= n  PROVE u[k] = as(k)
    OBVIOUS
  <2>1. u[k] = IF k = 0 THEN LoadBase(r, dummy) ELSE LoadFrame(u[k - 1], saved[k])
    BY <1>4, <1>10 DEF IsLoading
  <2>2. CASE k = 0
    BY <1>6, <2>1, <2>2
  <2>3. CASE k # 0
    <3>1. k - 1 \in 0 .. k - 1 /\ k - 1 <= n /\ k \in 1 .. n
      BY <2>3
    <3>2. u[k - 1] = as(k - 1)
      BY <1>11, <3>1
    <3>. QED  BY <1>7, <2>1, <2>3, <3>1, <3>2
  <2>. QED  BY <2>2, <2>3
<1>12. u[n] = as(n)
  <2>1. Nat \subseteq S
    <3>. HIDE DEF S
    <3>. QED  BY <1>11, Ladder
  <2>2. n \in S /\ n <= n
    <3>. HIDE DEF S
    <3>. QED  BY <2>1
  <2>. QED  BY <2>2
<1>13. as(n) = LoadedAs(r, stk, mem, s, f)
  <2>1. n - n = 0 /\ path[0] = f /\ EndOn(path, s, 0) = s
    BY <1>2 DEF Path, EndOn
  <2>. QED  BY <2>1 DEF as
<1>. QED  BY <1>3, <1>8, <1>12, <1>13

\* SavedGames contains FrameStack: what one says of the frames, the other says.
LEMMA SameOperators ==
  /\ Games!Variables = Abstract!Variables /\ Games!CallTypes = Abstract!CallTypes
  /\ Games!FALSE_WORD = Abstract!FALSE_WORD /\ Games!MINUS_ONE = Abstract!MINUS_ONE
  /\ Games!LocalNumbers = Abstract!LocalNumbers /\ Games!FUNCTION = Abstract!FUNCTION
  /\ Games!MainFrame = Abstract!MainFrame
  /\ \A fs : /\ Games!Depth(fs) = Abstract!Depth(fs)
             /\ Games!TopOf(fs) = Abstract!TopOf(fs)
             /\ Games!Pop(fs) = Abstract!Pop(fs)
             /\ Games!PopValue(fs) = Abstract!PopValue(fs)
             /\ Games!TopValue(fs) = Abstract!TopValue(fs)
             /\ Games!Live(fs) = Abstract!Live(fs)
  /\ \A fs, v : Games!PushValue(fs, v) = Abstract!PushValue(fs, v)
  /\ \A r, i : Games!LocalDefault(r, i) = Abstract!LocalDefault(r, i)
  /\ \A gs, n, v : Games!SetGlobal(gs, n, v) = Abstract!SetGlobal(gs, n, v)
<1>1. /\ Games!Variables = Abstract!Variables /\ Games!CallTypes = Abstract!CallTypes
      /\ Games!FALSE_WORD = Abstract!FALSE_WORD /\ Games!MINUS_ONE = Abstract!MINUS_ONE
      /\ Games!LocalNumbers = Abstract!LocalNumbers /\ Games!FUNCTION = Abstract!FUNCTION
      /\ Games!MainFrame = Abstract!MainFrame
  BY DEF Games!Variables, Abstract!Variables, Games!CallTypes, Abstract!CallTypes,
         Games!FALSE_WORD, Abstract!FALSE_WORD, Games!MINUS_ONE, Abstract!MINUS_ONE,
         Games!LocalNumbers, Abstract!LocalNumbers, Games!FUNCTION, Abstract!FUNCTION,
         Games!PROCEDURE, Abstract!PROCEDURE, Games!MainFrame, Abstract!MainFrame
<1>2. \A fs : /\ Games!Depth(fs) = Abstract!Depth(fs)
              /\ Games!TopOf(fs) = Abstract!TopOf(fs)
              /\ Games!Pop(fs) = Abstract!Pop(fs)
              /\ Games!PopValue(fs) = Abstract!PopValue(fs)
  BY DEF Games!Depth, Abstract!Depth, Games!TopOf, Abstract!TopOf, Games!Pop, Abstract!Pop,
         Games!PopValue, Abstract!PopValue
<1>3. \A fs : /\ Games!TopValue(fs) = Abstract!TopValue(fs)
              /\ Games!Live(fs) = Abstract!Live(fs)
  BY <1>2 DEF Games!TopValue, Abstract!TopValue, Games!Live, Abstract!Live
<1>4. \A fs, v : Games!PushValue(fs, v) = Abstract!PushValue(fs, v)
  BY DEF Games!PushValue, Abstract!PushValue
<1>5. \A r, i : Games!LocalDefault(r, i) = Abstract!LocalDefault(r, i)
  BY DEF Games!LocalDefault, Abstract!LocalDefault
<1>6. \A gs, n, v : Games!SetGlobal(gs, n, v) = Abstract!SetGlobal(gs, n, v)
  BY DEF Games!SetGlobal, Abstract!SetGlobal
<1>. QED  BY <1>1, <1>2, <1>3, <1>4, <1>5, <1>6, Zenon

LEMMA SameVariables ==
  /\ \A fs, n, v : Games!PutVar(fs, n, v) = Abstract!PutVar(fs, n, v)
  /\ \A fs, n, v : Games!PutResult(fs, n, v) = Abstract!PutResult(fs, n, v)
  /\ \A fs, n : Games!GetVar(fs, n) = Abstract!GetVar(fs, n)
  /\ \A fs, n : Games!HasVar(fs, n) <=> Abstract!HasVar(fs, n)
<1>1. \A fs, n, v : Games!PutVar(fs, n, v) = Abstract!PutVar(fs, n, v)
  BY SameOperators DEF Games!PutVar, Abstract!PutVar
<1>2. \A fs, n, v : Games!PutResult(fs, n, v) = Abstract!PutResult(fs, n, v)
  BY <1>1, SameOperators DEF Games!PutResult, Abstract!PutResult
<1>3. \A fs, n : Games!GetVar(fs, n) = Abstract!GetVar(fs, n)
  BY SameOperators DEF Games!GetVar, Abstract!GetVar
<1>4. \A fs, n : Games!HasVar(fs, n) <=> Abstract!HasVar(fs, n)
  BY SameOperators DEF Games!HasVar, Abstract!HasVar
<1>. QED  BY <1>1, <1>2, <1>3, <1>4

LEMMA SameSteps ==
  /\ \A fs, at : Games!TakesResult(fs, at) <=> Abstract!TakesResult(fs, at)
  /\ \A fs, gs, at, v : Games!Result(fs, gs, at, v) <=> Abstract!Result(fs, gs, at, v)
  /\ \A fs, gs, v : Games!ReturnFrom(fs, gs, v) <=> Abstract!ReturnFrom(fs, gs, v)
  /\ \A at, v : Games!Compute(at, v) <=> Abstract!Compute(at, v)
<1>1. \A fs, at : Games!TakesResult(fs, at) <=> Abstract!TakesResult(fs, at)
  BY SameVariables DEF Games!TakesResult, Abstract!TakesResult
<1>2. \A fs, gs, at, v : Games!Result(fs, gs, at, v) <=> Abstract!Result(fs, gs, at, v)
  BY SameOperators, SameVariables DEF Games!Result, Abstract!Result
<1>3. \A fs, gs, v : Games!ReturnFrom(fs, gs, v) <=> Abstract!ReturnFrom(fs, gs, v)
  BY <1>2, SameOperators DEF Games!ReturnFrom, Abstract!ReturnFrom
<1>4. \A at, v : Games!Compute(at, v) <=> Abstract!Compute(at, v)
  BY <1>1, <1>2, Zenon DEF Games!Compute, Abstract!Compute
<1>. QED  BY <1>1, <1>2, <1>3, <1>4, Zenon

\* The same of each action.
LEMMA SameActions ==
  /\ \A v : Games!Return(v) <=> Abstract!Return(v)
  /\ (Games!ReturnPopped <=> Abstract!ReturnPopped)
  /\ \A v : Games!Push(v) <=> Abstract!Push(v)
  /\ (Games!Discard <=> Abstract!Discard)
  /\ \A n, v : Games!Store(n, v) <=> Abstract!Store(n, v)
  /\ \A n : Games!Pull(n) <=> Abstract!Pull(n)
  /\ \A n, by : Games!Counted(n, by) = Abstract!Counted(n, by)
  /\ \A n, by : Games!Count(n, by) <=> Abstract!Count(n, by)
  /\ \A n, by, v : Games!CountAndReturn(n, by, v) <=> Abstract!CountAndReturn(n, by, v)
  /\ \A at, n : Games!Load(at, n) <=> Abstract!Load(at, n)
  /\ \A at : Games!Catch(at) <=> Abstract!Catch(at)
  /\ \A v : Games!Throw(v) <=> Abstract!Throw(v)
  /\ (Games!Restart <=> Abstract!Restart)
  /\ \A at : Games!SaveUndo(at) <=> Abstract!SaveUndo(at)
  /\ (Games!RestoreUndo <=> Abstract!RestoreUndo)
  /\ (Games!Quit <=> Abstract!Quit)
  /\ \A at, r, args, type : Games!Call(at, r, args, type) <=> Abstract!Call(at, r, args, type)
  /\ (Games!Init <=> Abstract!Init)
<1>1. \A v : Games!Return(v) <=> Abstract!Return(v)
  BY SameSteps, Zenon DEF Games!Return, Abstract!Return
<1>2. (Games!ReturnPopped <=> Abstract!ReturnPopped)
  BY SameOperators, SameVariables, SameSteps, Zenon
     DEF Games!ReturnPopped, Abstract!ReturnPopped
<1>3. \A v : Games!Push(v) <=> Abstract!Push(v)
  BY SameOperators, Zenon DEF Games!Push, Abstract!Push
<1>4. (Games!Discard <=> Abstract!Discard)
  BY SameOperators, SameVariables, Zenon DEF Games!Discard, Abstract!Discard
<1>5. \A n, v : Games!Store(n, v) <=> Abstract!Store(n, v)
  BY SameOperators, SameVariables, Zenon DEF Games!Store, Abstract!Store
<1>6. \A n : Games!Pull(n) <=> Abstract!Pull(n)
  BY SameOperators, SameVariables, Zenon DEF Games!Pull, Abstract!Pull
<1>7. \A n, by : Games!Counted(n, by) = Abstract!Counted(n, by)
  BY SameVariables, Zenon DEF Games!Counted, Abstract!Counted
<1>8. \A n, by : Games!Count(n, by) <=> Abstract!Count(n, by)
  BY <1>5, <1>7, SameVariables, Zenon DEF Games!Count, Abstract!Count
<1>9. \A n, by, v : Games!CountAndReturn(n, by, v) <=> Abstract!CountAndReturn(n, by, v)
  BY <1>7, SameOperators, SameVariables, SameSteps, Zenon
     DEF Games!CountAndReturn, Abstract!CountAndReturn
<1>10. \A at, n : Games!Load(at, n) <=> Abstract!Load(at, n)
  BY SameVariables, SameSteps, Zenon DEF Games!Load, Abstract!Load
<1>11. \A at : Games!Catch(at) <=> Abstract!Catch(at)
  BY SameOperators, SameSteps, Zenon DEF Games!Catch, Abstract!Catch
<1>12. \A v : Games!Throw(v) <=> Abstract!Throw(v)
  BY SameSteps, Zenon DEF Games!Throw, Abstract!Throw
<1>13. (Games!Restart <=> Abstract!Restart)
  BY SameOperators, Zenon DEF Games!Restart, Abstract!Restart
<1>14. \A at : Games!SaveUndo(at) <=> Abstract!SaveUndo(at)
  BY SameSteps, Zenon DEF Games!SaveUndo, Abstract!SaveUndo
<1>15. (Games!RestoreUndo <=> Abstract!RestoreUndo)
  BY SameSteps, Zenon DEF Games!RestoreUndo, Abstract!RestoreUndo
<1>16. (Games!Quit <=> Abstract!Quit)
  BY Zenon DEF Games!Quit, Abstract!Quit
<1>17. \A at, r, args, type : Games!Call(at, r, args, type) <=> Abstract!Call(at, r, args, type)
  <2>1. Games!FUNCTION = Abstract!FUNCTION
    BY SameOperators, Zenon
  <2>2. \A r, i : Games!LocalDefault(r, i) = Abstract!LocalDefault(r, i)
    BY SameOperators, Zenon
  <2>3. \A fs, at : Games!TakesResult(fs, at) <=> Abstract!TakesResult(fs, at)
    BY SameSteps, Zenon
  <2>. QED  BY <2>1, <2>2, <2>3, ZenonT(60) DEF Games!Call, Abstract!Call
<1>18. (Games!Init <=> Abstract!Init)
  BY SameOperators, Zenon DEF Games!Init, Abstract!Init
<1>. QED
  BY <1>1, <1>2, <1>3, <1>4, <1>5, <1>6, <1>7, <1>8, <1>9, <1>10, <1>11, <1>12,
     <1>13, <1>14, <1>15, <1>16, <1>17, <1>18, Zenon

\* SavedGames allows every step of FrameStack.
LEMMA SameNext == Abstract!Next => Games!Next
<1>. SUFFICES ASSUME Abstract!Next  PROVE Games!Next
  OBVIOUS
<1>1. CASE Abstract!Discard \/ Abstract!Restart \/ Abstract!RestoreUndo \/ Abstract!Quit
  BY <1>1, SameActions, Zenon DEF Games!Next
<1>2. ASSUME NEW v \in Values, Abstract!Return(v) \/ Abstract!Push(v) \/ Abstract!Throw(v)
      PROVE  Games!Next
  BY <1>2, SameActions, Zenon DEF Games!Next
<1>3. ASSUME NEW at \in Sites, Abstract!Catch(at) \/ Abstract!SaveUndo(at)
      PROVE  Games!Next
  BY <1>3, SameActions, Zenon DEF Games!Next
<1>4. ASSUME NEW at \in Sites, NEW v \in {Abstract!FALSE_WORD, Abstract!MINUS_ONE},
             Abstract!Compute(at, v)
      PROVE  Games!Next
  BY <1>4, SameOperators, SameSteps, Zenon DEF Games!Next
<1>5. CASE Abstract!ReturnPopped
  BY <1>5, SameActions, Zenon DEF Games!Next
<1>6. ASSUME NEW v \in {0, 1}, Abstract!Return(v)  PROVE Games!Next
  BY <1>6, SameActions, Zenon DEF Games!Next
<1>7. ASSUME NEW n \in Abstract!Variables, Abstract!Pull(n)  PROVE Games!Next
  BY <1>7, SameOperators, SameActions, Zenon DEF Games!Next
<1>8. ASSUME NEW n \in Abstract!Variables, NEW by \in {1, -1},
             Abstract!Count(n, by) \/ \E v \in {0, 1} : Abstract!CountAndReturn(n, by, v)
      PROVE  Games!Next
  <2>0. n \in Games!Variables
    BY SameOperators, Zenon
  <2>1. CASE Abstract!Count(n, by)
    <3>1. Games!Count(n, by)
      BY <2>1, SameActions, Zenon
    <3>. QED  BY <2>0, <3>1, Zenon DEF Games!Next
  <2>2. ASSUME NEW v \in {0, 1}, Abstract!CountAndReturn(n, by, v)  PROVE Games!Next
    <3>1. Games!CountAndReturn(n, by, v)
      BY <2>2, SameActions, Zenon
    <3>. QED  BY <2>0, <3>1, Zenon DEF Games!Next
  <2>. QED  BY <1>8, <2>1, <2>2, Zenon
<1>9. ASSUME NEW n \in Abstract!Variables, NEW v \in Values, Abstract!Store(n, v)
      PROVE  Games!Next
  BY <1>9, SameOperators, SameActions, Zenon DEF Games!Next
<1>10. ASSUME NEW at \in Sites, NEW n \in Abstract!Variables, Abstract!Load(at, n)
       PROVE  Games!Next
  BY <1>10, SameOperators, SameActions, Zenon DEF Games!Next
<1>11. ASSUME NEW at \in Sites, NEW r \in Routines, NEW type \in Abstract!CallTypes,
              NEW k \in 0 .. MaxArgs, NEW args \in [1 .. k -> Values],
              Abstract!Call(at, r, args, type)
       PROVE  Games!Next
  BY <1>11, SameOperators, SameActions, Zenon DEF Games!Next
<1>. QED
  BY <1>1, <1>2, <1>3, <1>4, <1>5, <1>6, <1>7, <1>8, <1>9, <1>10, <1>11, Zenon
     DEF Abstract!Next

LEMMA SameVars == UNCHANGED Abstract!vars => UNCHANGED Games!vars
BY DEF Abstract!vars, Games!vars

\* The game in the file c is the one of the stack stk with the pointers f and s.
SavedFrom(c, stk, f, s) ==
    /\ stk \in [Cell -> Word] /\ f \in Cell /\ s \in 5 .. StackSize
    /\ Framed(stk, f, s)
    /\ c.stack = SavedStack(stk, f, s)
    /\ c.data \in [Globals -> Word]
    /\ c.pc \in Sites
    /\ Storable(ResultVar[c.pc], VarsOfFrame(stk, f))
    /\ ResultVar[c.pc] = 0 => s > 5
    /\ c.token = <<None, None>>

\* What restore_quetzal has read of that file.
ReadAs(r, c, stk, f, s) ==
    /\ IsRead(r)
    /\ r.stk \in [Cell -> Word]
    /\ r.ok \in BOOLEAN /\ r.astray \in BOOLEAN /\ r.lost \in BOOLEAN
    /\ "header" \in r.got => r.pc = c.pc
    /\ "memory" \in r.got => r.data = c.data
    /\ "stack" \in r.got /\ r.ok => /\ r.sp = s /\ r.fp = f /\ r.count = 0
                                    /\ \A x \in Cell : x >= s => r.stk[x] = stk[x]

\* A round of the loop by the kind of chunk: q is what has been read behind it.
Round(r, kind, c, q) ==
    /\ kind = "IFhd" /\ "header" \in r.got => q = Refused(r)
    /\ kind = "IFhd" /\ "header" \notin r.got => q = Got([r EXCEPT !.pc = c.pc], "header")
    /\ kind = "foreign IFhd" => q = Refused(r)
    /\ kind = "Stks" /\ "stack" \in r.got => q = [r EXCEPT !.astray = TRUE]
    /\ kind = "Stks" /\ "stack" \notin r.got => q = LoadStack(Got(r, "stack"), c.stack)
    /\ kind \in {"CMem", "UMem"} /\ "memory" \notin r.got =>
         q = Got([r EXCEPT !.data = c.data], "memory")
    /\ kind = "long CMem" /\ "memory" \notin r.got => q = [r EXCEPT !.data = Overwritten]
    /\ kind = "cut CMem" /\ "memory" \notin r.got =>
         q = [r EXCEPT !.data = Overwritten, !.astray = TRUE]
    /\ kind \notin {"IFhd", "foreign IFhd", "Stks"}
       /\ (kind \in {"CMem", "UMem", "long CMem", "cut CMem"} => "memory" \in r.got)
         => q = r

LEMMA ChunkRead ==
  ASSUME NEW r, NEW kind, NEW c, r.ok = TRUE, r.lost = FALSE, r.astray = FALSE
  PROVE  Round(r, kind, c, ReadChunk(r, kind, c))
<1>1. ~(~r.ok \/ r.lost) /\ ~r.astray
  OBVIOUS
<1>. DEFINE q == ReadChunk(r, kind, c)
<1>2. q = CASE kind = "IFhd" ->
                IF "header" \in r.got THEN Refused(r)
                ELSE Got([r EXCEPT !.pc = c.pc], "header")
           [] kind = "foreign IFhd" -> Refused(r)
           [] kind = "Stks" ->
                IF "stack" \in r.got THEN [r EXCEPT !.astray = TRUE]
                ELSE LoadStack(Got(r, "stack"), c.stack)
           [] kind \in {"CMem", "UMem"} /\ "memory" \notin r.got ->
                Got([r EXCEPT !.data = c.data], "memory")
           [] kind = "long CMem" /\ "memory" \notin r.got ->
                [r EXCEPT !.data = Overwritten]
           [] kind = "cut CMem" /\ "memory" \notin r.got ->
                [r EXCEPT !.data = Overwritten, !.astray = TRUE]
           [] OTHER -> r
  BY <1>1 DEF ReadChunk
<1>. HIDE DEF q
<1>3. /\ kind = "IFhd" /\ "header" \in r.got => q = Refused(r)
      /\ kind = "IFhd" /\ "header" \notin r.got => q = Got([r EXCEPT !.pc = c.pc], "header")
      /\ kind = "foreign IFhd" => q = Refused(r)
      /\ kind = "Stks" /\ "stack" \in r.got => q = [r EXCEPT !.astray = TRUE]
      /\ kind = "Stks" /\ "stack" \notin r.got => q = LoadStack(Got(r, "stack"), c.stack)
  BY <1>2
<1>4. /\ kind \in {"CMem", "UMem"} /\ "memory" \notin r.got =>
              q = Got([r EXCEPT !.data = c.data], "memory")
      /\ kind = "long CMem" /\ "memory" \notin r.got => q = [r EXCEPT !.data = Overwritten]
      /\ kind = "cut CMem" /\ "memory" \notin r.got =>
              q = [r EXCEPT !.data = Overwritten, !.astray = TRUE]
  BY <1>2
<1>5. kind \notin {"IFhd", "foreign IFhd", "Stks"}
      /\ (kind \in {"CMem", "UMem", "long CMem", "cut CMem"} => "memory" \in r.got)
        => q = r
  BY <1>2
<1>. QED  BY <1>3, <1>4, <1>5 DEF Round, q

\* The stack of the file loaded.
LEMMA StackRead ==
  ASSUME NEW c, NEW stk, NEW f, NEW s, SavedFrom(c, stk, f, s),
         NEW r, ReadAs(r, c, stk, f, s), r.ok = TRUE
  PROVE  LET q == LoadStack(Got(r, "stack"), c.stack) IN
         /\ q = LoadedAs(Got(r, "stack"), stk, r.stk, s, f)
         /\ q.ok = TRUE /\ q.astray = r.astray /\ q.lost = r.lost
         /\ q.got = r.got \cup {"stack"}
         /\ ReadAs(q, c, stk, f, s)
<1>. DEFINE b == Got(r, "stack")
            q == LoadStack(b, c.stack)
<1>1. b = [stk |-> r.stk, sp |-> r.sp, fp |-> r.fp, count |-> r.count, pc |-> r.pc,
           data |-> r.data, got |-> r.got \cup {"stack"}, ok |-> r.ok, astray |-> r.astray,
           lost |-> r.lost]
  BY DEF ReadAs, IsRead, Got
<1>2. /\ b.stk = r.stk /\ b.ok = r.ok /\ b.got = r.got \cup {"stack"} /\ b.pc = r.pc
      /\ b.data = r.data /\ b.astray = r.astray /\ b.lost = r.lost
      /\ IsRead(b)
  <2>. HIDE DEF b
  <2>. QED  BY <1>1 DEF IsRead
<1>. HIDE DEF b
<1>3. q = LoadedAs(b, stk, r.stk, s, f)
  <2>1. s \in 1 .. StackSize
    BY Sizes DEF SavedFrom
  <2>2. b.stk \in [Cell -> Word] /\ b.ok = TRUE
    BY <1>2 DEF ReadAs
  <2>3. LoadStack(b, SavedStack(stk, f, s)) = LoadedAs(b, stk, b.stk, s, f)
    BY <1>2, <2>1, <2>2, LoadedStack DEF SavedFrom
  <2>4. b.stk = r.stk /\ c.stack = SavedStack(stk, f, s)
    BY <1>2 DEF SavedFrom
  <2>. QED  BY <2>3, <2>4
<1>4. /\ q.stk = Merged(stk, r.stk, s) /\ q.sp = s /\ q.fp = f /\ q.count = 0
      /\ q.pc = r.pc /\ q.data = r.data /\ q.got = r.got \cup {"stack"}
      /\ q.ok = TRUE /\ q.astray = r.astray /\ q.lost = r.lost
      /\ IsRead(q)
  <2>. HIDE DEF q
  <2>. QED  BY <1>2, <1>3 DEF LoadedAs, IsRead
<1>5. /\ Merged(stk, r.stk, s) \in [Cell -> Word]
      /\ \A x \in Cell : x >= s => Merged(stk, r.stk, s)[x] = stk[x]
  BY MergedTyped DEF SavedFrom, ReadAs
<1>. HIDE DEF q
<1>6. ReadAs(q, c, stk, f, s)
  BY <1>4, <1>5 DEF ReadAs
<1>. QED  BY <1>3, <1>4, <1>6 DEF b, q

\* Each round keeps what has been read as the file has it.
LEMMA ReadChunkAs ==
  ASSUME NEW c, NEW stk, NEW f, NEW s, SavedFrom(c, stk, f, s),
         NEW r, ReadAs(r, c, stk, f, s), NEW kind
  PROVE  ReadAs(ReadChunk(r, kind, c), c, stk, f, s)
<1>. DEFINE q == ReadChunk(r, kind, c)
<1>1. CASE ~r.ok \/ r.lost
  BY <1>1 DEF ReadChunk
<1>2. CASE ~(~r.ok \/ r.lost) /\ r.astray
  <2>1. q = [r EXCEPT !.lost = TRUE]
    BY <1>2 DEF ReadChunk
  <2>. HIDE DEF q
  <2>2. q = [stk |-> r.stk, sp |-> r.sp, fp |-> r.fp, count |-> r.count, pc |-> r.pc,
             data |-> r.data, got |-> r.got, ok |-> r.ok, astray |-> r.astray, lost |-> TRUE]
    BY <2>1 DEF ReadAs, IsRead
  <2>3. ReadAs(q, c, stk, f, s)
    BY <2>2 DEF ReadAs, IsRead
  <2>. QED  BY <2>3 DEF q
<1>3. CASE ~(~r.ok \/ r.lost) /\ ~r.astray
  <2>1. r.ok = TRUE /\ r.lost = FALSE /\ r.astray = FALSE
    BY <1>3 DEF ReadAs
  <2>2. /\ Refused(r) = [stk |-> r.stk, sp |-> r.sp, fp |-> r.fp, count |-> r.count,
                         pc |-> r.pc, data |-> r.data, got |-> r.got, ok |-> FALSE,
                         astray |-> r.astray, lost |-> r.lost]
        /\ ReadAs(Refused(r), c, stk, f, s)
    <3>1. Refused(r) = [stk |-> r.stk, sp |-> r.sp, fp |-> r.fp, count |-> r.count,
                        pc |-> r.pc, data |-> r.data, got |-> r.got, ok |-> FALSE,
                        astray |-> r.astray, lost |-> r.lost]
      <4>1. r = [stk |-> r.stk, sp |-> r.sp, fp |-> r.fp, count |-> r.count,
                 pc |-> r.pc, data |-> r.data, got |-> r.got, ok |-> r.ok,
                 astray |-> r.astray, lost |-> r.lost]
        <5>1. IsRead(r)
          BY DEF ReadAs
        <5>. QED  BY <5>1, Zenon DEF IsRead
      <4>2. Refused(r) = [r EXCEPT !.ok = FALSE]
        BY DEF Refused
      <4>. QED  BY <4>1, <4>2
    <3>2. ReadAs(Refused(r), c, stk, f, s)
      BY <3>1 DEF ReadAs, IsRead
    <3>. QED  BY <3>1, <3>2
  <2>0. Round(r, kind, c, q)
    BY <2>1, ChunkRead
  <2>3. CASE (kind = "IFhd" /\ "header" \in r.got) \/ kind = "foreign IFhd"
    <3>1. q = Refused(r)
      BY <2>0, <2>3 DEF Round
    <3>. HIDE DEF q
    <3>. QED  BY <2>2, <3>1 DEF q
  <2>4. CASE kind = "IFhd" /\ "header" \notin r.got
    <3>1. q = Got([r EXCEPT !.pc = c.pc], "header")
      BY <2>0, <2>4 DEF Round
    <3>. HIDE DEF q
    <3>2. q = [stk |-> r.stk, sp |-> r.sp, fp |-> r.fp, count |-> r.count, pc |-> c.pc,
               data |-> r.data, got |-> r.got \cup {"header"}, ok |-> r.ok,
               astray |-> r.astray, lost |-> r.lost]
      BY <3>1 DEF Got, ReadAs, IsRead
    <3>3. ReadAs(q, c, stk, f, s)
      BY <3>2 DEF ReadAs, IsRead
    <3>. QED  BY <3>3 DEF q
  <2>5. CASE kind = "Stks" /\ "stack" \in r.got
    <3>1. q = [r EXCEPT !.astray = TRUE]
      BY <2>0, <2>5 DEF Round
    <3>. HIDE DEF q
    <3>2. q = [stk |-> r.stk, sp |-> r.sp, fp |-> r.fp, count |-> r.count, pc |-> r.pc,
               data |-> r.data, got |-> r.got, ok |-> r.ok, astray |-> TRUE, lost |-> r.lost]
      BY <3>1 DEF ReadAs, IsRead
    <3>3. ReadAs(q, c, stk, f, s)
      BY <3>2 DEF ReadAs, IsRead
    <3>. QED  BY <3>3 DEF q
  <2>6. CASE kind = "Stks" /\ "stack" \notin r.got
    <3>1. q = LoadStack(Got(r, "stack"), c.stack)
      BY <2>0, <2>6 DEF Round
    <3>2. ReadAs(LoadStack(Got(r, "stack"), c.stack), c, stk, f, s)
      BY <2>1, StackRead
    <3>. QED  BY <3>1, <3>2
  <2>7. CASE kind \in {"CMem", "UMem"} /\ "memory" \notin r.got
    <3>1. q = Got([r EXCEPT !.data = c.data], "memory")
      BY <2>0, <2>7 DEF Round
    <3>. HIDE DEF q
    <3>2. q = [stk |-> r.stk, sp |-> r.sp, fp |-> r.fp, count |-> r.count, pc |-> r.pc,
               data |-> c.data, got |-> r.got \cup {"memory"}, ok |-> r.ok,
               astray |-> r.astray, lost |-> r.lost]
      BY <3>1 DEF Got, ReadAs, IsRead
    <3>3. ReadAs(q, c, stk, f, s)
      BY <3>2 DEF ReadAs, IsRead
    <3>. QED  BY <3>3 DEF q
  <2>8. CASE kind = "long CMem" /\ "memory" \notin r.got
    <3>1. q = [r EXCEPT !.data = Overwritten]
      BY <2>0, <2>8 DEF Round
    <3>. HIDE DEF q
    <3>2. q = [stk |-> r.stk, sp |-> r.sp, fp |-> r.fp, count |-> r.count, pc |-> r.pc,
               data |-> Overwritten, got |-> r.got, ok |-> r.ok, astray |-> r.astray,
               lost |-> r.lost]
      BY <3>1 DEF ReadAs, IsRead
    <3>3. ReadAs(q, c, stk, f, s)
      BY <2>8, <3>2 DEF ReadAs, IsRead
    <3>. QED  BY <3>3 DEF q
  <2>9. CASE kind = "cut CMem" /\ "memory" \notin r.got
    <3>1. q = [r EXCEPT !.data = Overwritten, !.astray = TRUE]
      BY <2>0, <2>9 DEF Round
    <3>. HIDE DEF q
    <3>2. q = [stk |-> r.stk, sp |-> r.sp, fp |-> r.fp, count |-> r.count, pc |-> r.pc,
               data |-> Overwritten, got |-> r.got, ok |-> r.ok, astray |-> TRUE,
               lost |-> r.lost]
      BY <3>1 DEF ReadAs, IsRead
    <3>3. ReadAs(q, c, stk, f, s)
      BY <2>9, <3>2 DEF ReadAs, IsRead
    <3>. QED  BY <3>3 DEF q
  <2>10. CASE /\ kind \notin {"IFhd", "foreign IFhd", "Stks"}
              /\ kind \in {"CMem", "UMem", "long CMem", "cut CMem"} => "memory" \in r.got
    <3>1. q = r
      BY <2>0, <2>10 DEF Round
    <3>. QED  BY <3>1
  <2>. QED  BY <2>3, <2>4, <2>5, <2>6, <2>7, <2>8, <2>9, <2>10
<1>. QED  BY <1>1, <1>2, <1>3

\* By number of chunks, what restore_quetzal has read.
Reading(u, n, layout, c) ==
    u = [k \in 0 .. n |-> IF k = 0 THEN NothingRead ELSE ReadChunk(u[k - 1], layout[k], c)]

LEMMA ReadingExists ==
  ASSUME NEW n \in Nat, NEW layout, NEW c
  PROVE  \E u : Reading(u, n, layout, c)
<1>. DEFINE S == {m \in Nat : \E u : Reading(u, m, layout, c)}
<1>1. ASSUME NEW m \in Nat, 0 .. m - 1 \subseteq S  PROVE m \in S
  <2>1. CASE m = 0
    <3>. DEFINE u == [k \in 0 .. 0 |-> NothingRead]
    <3>1. u = [k \in 0 .. 0 |-> IF k = 0 THEN NothingRead
                                         ELSE ReadChunk(u[k - 1], layout[k], c)]
      <4>1. \A k \in 0 .. 0 : k = 0
        OBVIOUS
      <4>. QED  BY <4>1
    <3>2. Reading(u, m, layout, c)
      <4>. HIDE DEF u
      <4>. QED  BY <2>1, <3>1 DEF Reading
    <3>. QED  BY <3>2
  <2>2. CASE m # 0
    <3>1. m - 1 \in 0 .. m - 1 /\ m - 1 \in Nat
      BY <2>2
    <3>2. m - 1 \in S
      <4>. HIDE DEF S
      <4>. QED  BY <1>1, <3>1
    <3>3. PICK u : Reading(u, m - 1, layout, c)
      BY <3>2
    <3>. DEFINE w == [k \in 0 .. m |-> IF k = 0 THEN NothingRead
                                       ELSE ReadChunk(u[k - 1], layout[k], c)]
    <3>4. ASSUME NEW k \in 0 .. m - 1  PROVE w[k] = u[k]
      <4>1. k \in 0 .. m
        OBVIOUS
      <4>2. w[k] = IF k = 0 THEN NothingRead ELSE ReadChunk(u[k - 1], layout[k], c)
        BY <4>1
      <4>3. u[k] = IF k = 0 THEN NothingRead ELSE ReadChunk(u[k - 1], layout[k], c)
        BY <3>3 DEF Reading
      <4>. QED  BY <4>2, <4>3
    <3>5. w = [k \in 0 .. m |-> w[k]]
      OBVIOUS
    <3>6. ASSUME NEW k \in 0 .. m
          PROVE  w[k] = IF k = 0 THEN NothingRead ELSE ReadChunk(w[k - 1], layout[k], c)
      <4>1. w[k] = IF k = 0 THEN NothingRead ELSE ReadChunk(u[k - 1], layout[k], c)
        OBVIOUS
      <4>2. k # 0 => k - 1 \in 0 .. m - 1
        OBVIOUS
      <4>. HIDE DEF w
      <4>. QED  BY <3>4, <4>1, <4>2
    <3>. HIDE DEF w
    <3>7. Reading(w, m, layout, c)
      BY <3>5, <3>6 DEF Reading
    <3>. QED  BY <3>7
  <2>. QED  BY <2>1, <2>2
<1>2. Nat \subseteq S
  <2>. HIDE DEF S
  <2>. QED  BY <1>1, Ladder
<1>. QED  BY <1>2

\* restore_quetzal reads one chunk after the other.
LEMMA ReadByChunk ==
  ASSUME NEW layout \in Layouts, NEW c
  PROVE  /\ Len(layout) \in Nat
         /\ \E u : /\ restore_quetzal(layout, c) = u[Len(layout)]
                   /\ u[0] = NothingRead
                   /\ \A k \in 1 .. Len(layout) : u[k] = ReadChunk(u[k - 1], layout[k], c)
<1>1. layout \in Seq(Kinds) /\ Len(layout) \in Nat
  BY SaveGameAssumption
<1>. DEFINE n == Len(layout)
            u == CHOOSE w : Reading(w, n, layout, c)
<1>2. Reading(u, n, layout, c)
  <2>. HIDE DEF n
  <2>. QED  BY <1>1, ReadingExists DEF n
<1>3. restore_quetzal(layout, c) = u[n]
  BY DEF restore_quetzal, Reading
<1>. HIDE DEF u
<1>4. u[0] = NothingRead /\ \A k \in 1 .. n : u[k] = ReadChunk(u[k - 1], layout[k], c)
  <2>1. \A k \in 0 .. n :
          u[k] = IF k = 0 THEN NothingRead ELSE ReadChunk(u[k - 1], layout[k], c)
    BY <1>2 DEF Reading
  <2>2. 0 \in 0 .. n /\ \A k \in 1 .. n : k \in 0 .. n /\ k # 0
    BY <1>1
  <2>. HIDE DEF n
  <2>. QED  BY <2>1, <2>2
<1>. QED  BY <1>1, <1>3, <1>4

LEMMA NothingReadAs ==
  ASSUME NEW c, NEW stk, NEW f, NEW s, stack \in [Cell -> Word]
  PROVE  /\ ReadAs(NothingRead, c, stk, f, s)
         /\ NothingRead.ok = TRUE /\ NothingRead.astray = FALSE /\ NothingRead.lost = FALSE
         /\ NothingRead.got = {}
<1>. DEFINE r == NothingRead
<1>1. r = [stk |-> stack, sp |-> sp, fp |-> fp, count |-> frame_count, pc |-> pc,
           data |-> datap, got |-> {}, ok |-> TRUE, astray |-> FALSE, lost |-> FALSE]
  BY DEF NothingRead
<1>. HIDE DEF r
<1>2. /\ r.stk = stack /\ r.ok = TRUE /\ r.astray = FALSE /\ r.lost = FALSE /\ r.got = {}
      /\ IsRead(r)
  BY <1>1 DEF IsRead
<1>3. ReadAs(r, c, stk, f, s)
  BY <1>2 DEF ReadAs
<1>. QED  BY <1>2, <1>3 DEF r

\* Whatever the order of the chunks, what is read in the end is as the file has it.
LEMMA RestoredAs ==
  ASSUME NEW c, NEW stk, NEW f, NEW s, SavedFrom(c, stk, f, s),
         NEW layout \in Layouts, stack \in [Cell -> Word]
  PROVE  ReadAs(restore_quetzal(layout, c), c, stk, f, s)
<1>. DEFINE n == Len(layout)
<1>1. n \in Nat /\ \E u : /\ restore_quetzal(layout, c) = u[n]
                          /\ u[0] = NothingRead
                          /\ \A k \in 1 .. n : u[k] = ReadChunk(u[k - 1], layout[k], c)
  BY ReadByChunk
<1>. HIDE DEF n
<1>2. PICK u : /\ restore_quetzal(layout, c) = u[n]
               /\ u[0] = NothingRead
               /\ \A k \in 1 .. n : u[k] = ReadChunk(u[k - 1], layout[k], c)
  BY <1>1
<1>. DEFINE S == {k \in Nat : k <= n => ReadAs(u[k], c, stk, f, s)}
<1>3. ASSUME NEW k \in Nat, 0 .. k - 1 \subseteq S  PROVE k \in S
  <2>. SUFFICES ASSUME k <= n  PROVE ReadAs(u[k], c, stk, f, s)
    OBVIOUS
  <2>1. CASE k = 0
    BY <1>2, <2>1, NothingReadAs
  <2>2. CASE k # 0
    <3>1. k - 1 \in 0 .. k - 1 /\ k - 1 <= n /\ k \in 1 .. n
      BY <1>1, <2>2
    <3>2. ReadAs(u[k - 1], c, stk, f, s)
      BY <1>3, <3>1
    <3>3. u[k] = ReadChunk(u[k - 1], layout[k], c)
      BY <1>2, <3>1
    <3>4. ReadAs(ReadChunk(u[k - 1], layout[k], c), c, stk, f, s)
      BY <3>2, ReadChunkAs
    <3>. QED  BY <3>3, <3>4
  <2>. QED  BY <2>1, <2>2
<1>4. n \in S /\ n <= n
  <2>1. Nat \subseteq S
    <3>. HIDE DEF S
    <3>. QED  BY <1>3, Ladder
  <2>. QED  BY <1>1, <2>1
<1>5. ReadAs(u[n], c, stk, f, s)
  BY <1>4
<1>. QED  BY <1>2, <1>5

Parts == {"header", "stack", "memory"}

\* k chunks of a layout that is complete have been read: its header is chunk h, its
\* stack is chunk t, and chunk m is a good memory chunk.
GoodSoFar(r, k, h, t, m) ==
    /\ r.ok = TRUE /\ r.astray = FALSE /\ r.lost = FALSE
    /\ r.got \subseteq Parts
    /\ "header" \in r.got <=> k >= h
    /\ "stack" \in r.got <=> k >= t
    /\ k >= m => "memory" \in r.got

\* What chunk k can be.
Expected(kind, k, h, t, m) ==
    /\ kind # "foreign IFhd"
    /\ kind = "IFhd" <=> k = h
    /\ kind = "Stks" <=> k = t
    /\ k = m => kind \in {"CMem", "UMem"}
    /\ kind = "cut CMem" => k > m

LEMMA GoodStep ==
  ASSUME NEW c, NEW stk, NEW f, NEW s, SavedFrom(c, stk, f, s),
         NEW r, ReadAs(r, c, stk, f, s), NEW kind,
         NEW k \in Nat \ {0}, NEW h \in Nat, NEW t \in Nat, NEW m \in Nat,
         GoodSoFar(r, k - 1, h, t, m), Expected(kind, k, h, t, m)
  PROVE  GoodSoFar(ReadChunk(r, kind, c), k, h, t, m)
<1>. DEFINE q == ReadChunk(r, kind, c)
<1>0. Round(r, kind, c, q)
  BY ChunkRead DEF GoodSoFar
<1>. HIDE DEF q
<1>1. r = [stk |-> r.stk, sp |-> r.sp, fp |-> r.fp, count |-> r.count,
           pc |-> r.pc, data |-> r.data, got |-> r.got, ok |-> r.ok,
           astray |-> r.astray, lost |-> r.lost]
  <2>1. IsRead(r)
    BY DEF ReadAs
  <2>. QED  BY <2>1, Zenon DEF IsRead
<1>2. /\ k # h => ((k - 1 >= h) <=> (k >= h))
      /\ k # t => ((k - 1 >= t) <=> (k >= t))
      /\ k # m => ((k - 1 >= m) <=> (k >= m))
      /\ ~(k - 1 >= k) /\ k >= k
  OBVIOUS
<1>3. CASE kind = "IFhd"
  <2>1. k = h /\ k # t /\ k # m /\ "header" \notin r.got
    BY <1>2, <1>3 DEF Expected, GoodSoFar
  <2>2. q = Got([r EXCEPT !.pc = c.pc], "header")
    BY <1>0, <1>3, <2>1 DEF Round
  <2>3. q = [stk |-> r.stk, sp |-> r.sp, fp |-> r.fp, count |-> r.count, pc |-> c.pc,
             data |-> r.data, got |-> r.got \cup {"header"}, ok |-> r.ok,
             astray |-> r.astray, lost |-> r.lost]
    BY <1>1, <2>2 DEF Got
  <2>4. q.ok = r.ok /\ q.astray = r.astray /\ q.lost = r.lost /\ q.got = r.got \cup {"header"}
    BY <2>3
  <2>. QED  BY <1>2, <2>1, <2>4 DEF GoodSoFar, q, Parts
<1>4. CASE kind = "Stks"
  <2>1. k = t /\ k # h /\ k # m /\ "stack" \notin r.got
    BY <1>2, <1>4 DEF Expected, GoodSoFar
  <2>2. q = LoadStack(Got(r, "stack"), c.stack)
    BY <1>0, <1>4, <2>1 DEF Round
  <2>3. q.ok = TRUE /\ q.astray = r.astray /\ q.lost = r.lost /\ q.got = r.got \cup {"stack"}
    <3>1. r.ok = TRUE
      BY DEF GoodSoFar
    <3>. DEFINE w == LoadStack(Got(r, "stack"), c.stack)
    <3>2. /\ w = LoadedAs(Got(r, "stack"), stk, r.stk, s, f)
          /\ w.ok = TRUE /\ w.astray = r.astray /\ w.lost = r.lost
          /\ w.got = r.got \cup {"stack"}
          /\ ReadAs(w, c, stk, f, s)
      BY <3>1, StackRead, Zenon
    <3>. QED  BY <2>2, <3>2
  <2>. QED  BY <1>2, <2>1, <2>3 DEF GoodSoFar, q, Parts
<1>5. CASE kind \in {"CMem", "UMem"} /\ "memory" \notin r.got
  <2>1. k # h /\ k # t
    BY <1>5 DEF Expected
  <2>2. q = Got([r EXCEPT !.data = c.data], "memory")
    BY <1>0, <1>5 DEF Round
  <2>3. q = [stk |-> r.stk, sp |-> r.sp, fp |-> r.fp, count |-> r.count, pc |-> r.pc,
             data |-> c.data, got |-> r.got \cup {"memory"}, ok |-> r.ok,
             astray |-> r.astray, lost |-> r.lost]
    BY <1>1, <2>2 DEF Got
  <2>4. q.ok = r.ok /\ q.astray = r.astray /\ q.lost = r.lost /\ q.got = r.got \cup {"memory"}
    BY <2>3
  <2>. QED  BY <1>2, <2>1, <2>4 DEF GoodSoFar, q, Parts
<1>6. CASE kind = "long CMem" /\ "memory" \notin r.got
  <2>1. k # h /\ k # t /\ k # m
    BY <1>6 DEF Expected
  <2>2. q = [r EXCEPT !.data = Overwritten]
    BY <1>0, <1>6 DEF Round
  <2>3. q = [stk |-> r.stk, sp |-> r.sp, fp |-> r.fp, count |-> r.count, pc |-> r.pc,
             data |-> Overwritten, got |-> r.got, ok |-> r.ok, astray |-> r.astray,
             lost |-> r.lost]
    BY <1>1, <2>2
  <2>4. q.ok = r.ok /\ q.astray = r.astray /\ q.lost = r.lost /\ q.got = r.got
    BY <2>3
  <2>. QED  BY <1>2, <2>1, <2>4 DEF GoodSoFar, q
<1>7. CASE kind = "cut CMem" /\ "memory" \notin r.got
  <2>1. k > m
    BY <1>7 DEF Expected
  <2>2. k - 1 >= m
    BY <2>1
  <2>. QED  BY <1>7, <2>2 DEF GoodSoFar
<1>8. CASE /\ kind \notin {"IFhd", "foreign IFhd", "Stks"}
           /\ kind \in {"CMem", "UMem", "long CMem", "cut CMem"} => "memory" \in r.got
  <2>1. q = r
    BY <1>0, <1>8 DEF Round
  <2>2. k # h /\ k # t /\ (k = m => "memory" \in r.got)
    BY <1>8 DEF Expected
  <2>. QED  BY <1>2, <2>1, <2>2 DEF GoodSoFar, q
<1>9. kind # "foreign IFhd"
  BY DEF Expected
<1>. QED  BY <1>3, <1>4, <1>5, <1>6, <1>7, <1>8, <1>9

\* A complete file is read to its end.
LEMMA CompleteRestored ==
  ASSUME NEW c, NEW stk, NEW f, NEW s, SavedFrom(c, stk, f, s),
         NEW layout \in Layouts, Complete(layout), stack \in [Cell -> Word]
  PROVE  LET r == restore_quetzal(layout, c) IN Succeeds(r) /\ r.lost = FALSE
<1>. DEFINE n == Len(layout)
            at(kinds) == {i \in DOMAIN layout : layout[i] \in kinds}
<1>0. n \in Nat /\ DOMAIN layout = 1 .. n
  BY SaveGameAssumption
<1>1. PICK h \in DOMAIN layout : at({"IFhd", "foreign IFhd"}) = {h} /\ layout[h] = "IFhd"
  BY DEF Complete
<1>2. PICK t \in DOMAIN layout : at({"Stks"}) = {t}
  BY DEF Complete
<1>3. PICK m \in at({"CMem", "UMem"}) : \A j \in at({"cut CMem"}) : m < j
  BY DEF Complete
<1>4. ASSUME NEW k \in 1 .. n  PROVE Expected(layout[k], k, h, t, m)
  <2>1. layout[k] \in {"IFhd", "foreign IFhd"} <=> k = h
    BY <1>0, <1>1
  <2>2. layout[k] = "Stks" <=> k = t
    BY <1>0, <1>2
  <2>3. k = m => layout[k] \in {"CMem", "UMem"}
    BY <1>3
  <2>4. layout[k] = "cut CMem" => m < k
    BY <1>0, <1>3
  <2>5. layout[k] # "foreign IFhd" /\ (layout[k] = "IFhd" <=> k = h)
    BY <1>1, <2>1
  <2>6. m \in 1 .. n
    BY <1>0, <1>3
  <2>. QED  BY <2>2, <2>3, <2>4, <2>5, <2>6 DEF Expected
<1>5. h \in 1 .. n /\ t \in 1 .. n /\ m \in 1 .. n
  BY <1>0, <1>1, <1>2, <1>3
<1>6. \E u : /\ restore_quetzal(layout, c) = u[n]
             /\ u[0] = NothingRead
             /\ \A k \in 1 .. n : u[k] = ReadChunk(u[k - 1], layout[k], c)
  BY ReadByChunk
<1>. HIDE DEF n
<1>7. PICK u : /\ restore_quetzal(layout, c) = u[n]
               /\ u[0] = NothingRead
               /\ \A k \in 1 .. n : u[k] = ReadChunk(u[k - 1], layout[k], c)
  BY <1>6
<1>. DEFINE S == {k \in Nat : k <= n => /\ ReadAs(u[k], c, stk, f, s)
                                        /\ GoodSoFar(u[k], k, h, t, m)}
<1>8. ASSUME NEW k \in Nat, 0 .. k - 1 \subseteq S  PROVE k \in S
  <2>. SUFFICES ASSUME k <= n
                PROVE  ReadAs(u[k], c, stk, f, s) /\ GoodSoFar(u[k], k, h, t, m)
    OBVIOUS
  <2>1. CASE k = 0
    <3>1. ReadAs(NothingRead, c, stk, f, s)
      BY NothingReadAs
    <3>2. /\ NothingRead.ok = TRUE /\ NothingRead.astray = FALSE /\ NothingRead.lost = FALSE
          /\ NothingRead.got = {}
      BY NothingReadAs
    <3>3. ~(0 >= h) /\ ~(0 >= t) /\ ~(0 >= m)
      BY <1>0, <1>5
    <3>4. GoodSoFar(NothingRead, 0, h, t, m)
      BY <3>2, <3>3 DEF GoodSoFar
    <3>. QED  BY <1>7, <2>1, <3>1, <3>4
  <2>2. CASE k # 0
    <3>1. k - 1 \in 0 .. k - 1 /\ k - 1 <= n /\ k \in 1 .. n /\ k \in Nat \ {0}
      BY <1>0, <2>2
    <3>2. ReadAs(u[k - 1], c, stk, f, s) /\ GoodSoFar(u[k - 1], k - 1, h, t, m)
      BY <1>8, <3>1
    <3>3. u[k] = ReadChunk(u[k - 1], layout[k], c)
      BY <1>7, <3>1
    <3>4. ReadAs(ReadChunk(u[k - 1], layout[k], c), c, stk, f, s)
      BY <3>2, ReadChunkAs
    <3>5. h \in Nat /\ t \in Nat /\ m \in Nat
      BY <1>0, <1>5
    <3>6. Expected(layout[k], k, h, t, m)
      BY <1>4, <3>1
    <3>7. GoodSoFar(ReadChunk(u[k - 1], layout[k], c), k, h, t, m)
      BY <3>1, <3>2, <3>5, <3>6, GoodStep
    <3>. QED  BY <3>3, <3>4, <3>7
  <2>. QED  BY <2>1, <2>2
<1>9. n \in S /\ n <= n
  <2>1. Nat \subseteq S
    <3>. HIDE DEF S
    <3>. QED  BY <1>8, Ladder
  <2>. QED  BY <1>0, <2>1
<1>10. GoodSoFar(u[n], n, h, t, m)
  BY <1>9
<1>11. n >= h /\ n >= t /\ n >= m
  BY <1>0, <1>5
<1>12. /\ u[n].ok = TRUE /\ u[n].lost = FALSE
       /\ u[n].got = {"header", "stack", "memory"}
  BY <1>10, <1>11 DEF GoodSoFar, Parts
<1>. QED  BY <1>7, <1>12 DEF Succeeds

\* The file, when there is one, holds the game of some legal stack.
FileSaved == \A c \in file : \E stk, f, s : SavedFrom(c, stk, f, s)

NoCatch == "catch" \notin Opcodes

\* The inductive invariant: that of the machine, in a story that catches nothing, and
\* that of the file.
GameInv ==
    /\ Inv
    /\ sp > 4
    /\ UndoSaved
    /\ token = None /\ undo_token[1] = None
    /\ FileSaved

LEMMA GameRefInv ==
  ASSUME GameInv, NoCatch
  PROVE  RefInv
BY DEF GameInv, NoCatch, RefInv, Counting

LEMMA FileKept ==
  ASSUME FileSaved, file' = file \/ file' = {}
  PROVE  FileSaved'
BY DEF FileSaved

\* The game in the file as SavedGames has it.
GameIn(c) ==
    [frames |-> FramesOfChunk(c.stack), globals |-> c.data, token |-> c.token[1],
     pc |-> c.pc]

LEMMA ContentsSaved ==
  ASSUME GameInv, NoCatch, Roomy, NEW at \in Sites, TakesResult(at)
  PROVE  /\ SavedFrom(Contents(at), stack, fp, sp)
         /\ GameIn(Contents(at)) = [frames |-> FramesOf(stack, fp, sp), globals |-> datap,
                                    token |-> token, pc |-> at]
<1>1. /\ Framed(stack, fp, sp) /\ stack \in [Cell -> Word] /\ fp \in Cell
      /\ sp \in 0 .. StackSize /\ datap \in [Globals -> Word]
  BY FrameInUse DEF GameInv
<1>2. Storable(ResultVar[at], VarsOfFrame(stack, fp)) /\ (ResultVar[at] = 0 => sp - 1 > 4)
  BY GameRefInv, ResultTaken
<1>3. token = None /\ catcher = None
  BY DEF GameInv, Inv
<1>. DEFINE c == Contents(at)
<1>4. /\ c.pc = at /\ c.data = datap /\ c.stack = SavedStack(stack, fp, sp)
      /\ c.token = <<token, catcher>>
  BY DEF Contents
<1>. HIDE DEF c
<1>5. sp \in 5 .. StackSize /\ (ResultVar[at] = 0 => sp > 5)
  BY <1>1, <1>2, Sizes DEF GameInv
<1>6. SavedFrom(c, stack, fp, sp)
  BY <1>1, <1>2, <1>3, <1>4, <1>5 DEF SavedFrom
<1>7. FramesOfChunk(c.stack) = FramesOf(stack, fp, sp)
  BY <1>1, <1>4, ChunkStandsFor
<1>8. c.token[1] = token
  BY <1>4
<1>. QED  BY <1>4, <1>6, <1>7, <1>8 DEF c, GameIn

\* An instruction that gives its result and does nothing else to the machine.
LEMMA GivesResultStep ==
  ASSUME GameInv, NoCatch, Roomy, NEW at \in Sites, NEW v \in Word, status = "run",
         TakesResult(at), GivesResult(at, v), UNCHANGED <<undo, ghosts, status>>
  PROVE  /\ Inv' /\ sp' > 4 /\ UndoSaved' /\ token' = None /\ undo_token'[1] = None
         /\ Games!Compute(at, v)
<1>1. store_operand(stack, sp, fp, datap, at, v) /\ UNCHANGED <<fp, frame_count>>
  BY DEF GivesResult
<1>2. Inv'
  BY <1>1, NoUndoInv DEF GameInv
<1>3. sp' > 4 /\ UndoSaved' /\ Abstract!Compute(at, v)
  BY <1>1, GameRefInv, NoUndoStep
<1>4. token' = None /\ undo_token'[1] = None
  BY DEF GameInv, undo, ghosts
<1>. QED  BY <1>2, <1>3, <1>4, SameSteps, Zenon

LEMMA SaveGameStep ==
  ASSUME GameInv, NoCatch, Roomy, NEW at \in Sites, z_save(at)
  PROVE  GameInv' /\ Games!GameNext
<1>1. status = "run" /\ TakesResult(at) /\ UNCHANGED <<undo, ghosts, status>>
  BY DEF z_save
<1>2. 0 \in Word /\ 1 \in Word
  BY StoryAssumption
<1>3. CASE GivesResult(at, 0) /\ file' \in {file, {}}
  <2>1. /\ Inv' /\ sp' > 4 /\ UndoSaved' /\ token' = None /\ undo_token'[1] = None
        /\ Games!Compute(at, 0)
    BY <1>1, <1>2, <1>3, GivesResultStep
  <2>2. FileSaved'
    BY <1>3, FileKept DEF GameInv
  <2>3. Games!SaveFails(at)
    BY <1>3, <2>1 DEF Games!SaveFails
  <2>. QED  BY <2>1, <2>2, <2>3, Zenon DEF GameInv, Games!GameNext
<1>4. CASE GivesResult(at, 1) /\ file' = {Contents(at)}
  <2>1. /\ Inv' /\ sp' > 4 /\ UndoSaved' /\ token' = None /\ undo_token'[1] = None
        /\ Games!Compute(at, 1)
    BY <1>1, <1>2, <1>4, GivesResultStep
  <2>2. SavedFrom(Contents(at), stack, fp, sp)
    BY <1>1, ContentsSaved
  <2>3. FileSaved'
    BY <1>4, <2>2 DEF FileSaved
  <2>4. GameIn(Contents(at)) = [frames |-> FramesOf(stack, fp, sp), globals |-> datap,
                                token |-> token, pc |-> at]
    BY <1>1, ContentsSaved
  <2>5. {GameIn(c) : c \in file'} = {[frames |-> FramesOf(stack, fp, sp), globals |-> datap,
                                      token |-> token, pc |-> at]}
    BY <1>4, <2>4
  <2>6. Games!Save(at)
    BY <2>1, <2>5 DEF Games!Save, GameIn
  <2>. QED  BY <2>1, <2>3, <2>6, Zenon DEF GameInv, Games!GameNext
<1>. QED  BY <1>3, <1>4 DEF z_save

\* A restore that succeeds goes on as the story was saved.
LEMMA RestoredStep ==
  ASSUME GameInv, NoCatch, Roomy, status = "run",
         NEW c \in file, NEW stk, NEW f, NEW s, SavedFrom(c, stk, f, s),
         NEW r, ReadAs(r, c, stk, f, s), Succeeds(r),
         fp' = r.fp, frame_count' = r.count,
         store_operand(r.stk, r.sp, r.fp, r.data, r.pc, 2),
         token' = c.token[1], catcher' = c.token[2],
         UNCHANGED <<status, undo, file>>
  PROVE  GameInv' /\ Games!Restore
<1>1. /\ r.stk \in [Cell -> Word] /\ r.sp = s /\ r.fp = f /\ r.count = 0
      /\ \A x \in Cell : x >= s => r.stk[x] = stk[x]
      /\ r.data = c.data /\ r.pc = c.pc
  <2>1. r.ok /\ "header" \in r.got /\ "stack" \in r.got /\ "memory" \in r.got
    BY DEF Succeeds
  <2>. QED  BY <2>1 DEF ReadAs
<1>2. /\ stk \in [Cell -> Word] /\ f \in Cell /\ s \in 5 .. StackSize /\ Framed(stk, f, s)
      /\ c.data \in [Globals -> Word] /\ c.pc \in Sites
      /\ Storable(ResultVar[c.pc], VarsOfFrame(stk, f))
      /\ (ResultVar[c.pc] = 0 => s > 5)
      /\ c.stack = SavedStack(stk, f, s)
  BY DEF SavedFrom
<1>3. s \in 0 .. StackSize /\ s \in 1 .. StackSize /\ s \in Nat
  BY <1>2, Sizes
<1>4. c.token[1] = None /\ c.token[2] = None
  BY DEF SavedFrom
<1>5. store_operand(r.stk, s, f, c.data, c.pc, 2) /\ fp' = f /\ frame_count' = 0
      /\ token' = None /\ catcher' = None
  BY <1>1, <1>4
<1>. DEFINE mem == r.stk
<1>6. mem \in [Cell -> Word] /\ \A x \in Cell : x >= s => mem[x] = stk[x]
  BY <1>1
<1>7. store_operand(mem, s, f, c.data, c.pc, 2)
  BY <1>5
<1>. HIDE DEF mem
<1>8. s <= f + 1 - VarsOfFrame(stk, f) /\ VarsOfFrame(stk, f) \in 0 .. 15 /\ f \in Nat
  BY <1>2, <1>3, FrameBounds, Sizes
<1>9. \A x \in Cell : x > f => mem[x] = stk[x]
  <2>1. ASSUME NEW x \in Cell, x > f  PROVE x >= s
    <3>. DEFINE v == VarsOfFrame(stk, f)
    <3>1. x \in Nat /\ f \in Nat /\ s \in Nat /\ v \in 0 .. 15 /\ s <= f + 1 - v /\ x > f
      BY <1>3, <1>8, <2>1, Sizes
    <3>. HIDE DEF v
    <3>. QED  BY <3>1
  <2>. QED  BY <1>6, <2>1
<1>10. Framed(mem, f, s)
  <2>1. s \in Int
    BY <1>3
  <2>. QED  BY <1>2, <1>6, <1>8, <1>9, <2>1, FrameKept
<1>11. VarsOfFrame(mem, f) = VarsOfFrame(stk, f)
  <2>1. CASE f = BaseFrame
    BY <2>1 DEF VarsOfFrame
  <2>2. CASE f # BaseFrame
    <3>1. f + 1 \in Cell /\ f + 1 > f
      BY <1>2, <1>3, <1>8, <2>2, FrameBounds
    <3>. QED  BY <1>9, <2>2, <3>1 DEF VarsOfFrame
  <2>. QED  BY <2>1, <2>2
<1>12. FramesOf(mem, f, s) = FramesOfChunk(c.stack)
  <2>1. FramesOf(mem, f, s) = FramesOf(stk, f, s)
    BY <1>2, <1>3, <1>6, FramesKept
  <2>2. FramesOfChunk(SavedStack(stk, f, s)) = FramesOf(stk, f, s)
    BY <1>2, <1>3, ChunkStandsFor
  <2>. QED  BY <1>2, <2>1, <2>2
<1>13. 2 \in Word /\ c.pc \in Nat /\ 0 \in Word
  BY <1>2, StoryAssumption
<1>14. /\ stack' \in [Cell -> Word] /\ sp' \in 0 .. StackSize /\ pc' \in Nat
       /\ datap' \in [Globals -> Word] /\ Framed(stack', f, sp')
  <2>1. ResultVar[c.pc] = 0 => s >= 1
    BY <1>3
  <2>. QED  BY <1>2, <1>3, <1>6, <1>7, <1>10, <1>13, <2>1, StoreOperand
<1>15. Inv'
  <2>1. UNCHANGED undo /\ fp' \in Cell /\ frame_count' \in Word
        /\ status' \in {"run", "quit", "fatal", "undefined"}
    BY <1>2, <1>5, <1>13
  <2>2. /\ token' \in Word \cup {None} /\ catcher' \in Cell \cup {None}
        /\ (token' = None <=> catcher' = None)
    BY <1>5
  <2>3. Framed(stack', fp', sp')
    BY <1>5, <1>14
  <2>. QED  BY <1>14, <2>1, <2>2, <2>3, MachineStep DEF GameInv
<1>16. sp' > 4
  <2>1. sp' = IF ResultVar[c.pc] = 0 THEN s - 1 ELSE s
    BY <1>7 DEF store_operand
  <2>. QED  BY <1>2, <1>3, <2>1
<1>17. UndoneState' = UndoneState /\ UndoSaved'
  BY UndoUntouched DEF GameInv
<1>18. GameInv'
  <2>1. FileSaved'
    BY FileKept DEF GameInv
  <2>2. undo_token'[1] = None
    BY DEF GameInv, undo
  <2>. QED  BY <1>5, <1>15, <1>16, <1>17, <2>1, <2>2 DEF GameInv
<1>19. Abstract!Result(FramesOf(mem, f, s), c.data, c.pc, 2)
  <2>1. ResultVar[c.pc] = 0 => s >= 1
    BY <1>3
  <2>2. Storable(ResultVar[c.pc], VarsOfFrame(mem, f))
    BY <1>2, <1>11
  <2>. QED  BY <1>2, <1>3, <1>5, <1>6, <1>7, <1>10, <1>13, <2>1, <2>2, ResultRefines
<1>. DEFINE game == GameIn(c)
<1>20. game \in {GameIn(k) : k \in file}
  OBVIOUS
<1>21. /\ game.frames = FramesOfChunk(c.stack) /\ game.globals = c.data /\ game.pc = c.pc
       /\ game.token = None
  BY <1>4 DEF GameIn
<1>. HIDE DEF game
<1>22. Games!Result(game.frames, game.globals, game.pc, 2) /\ token' = game.token
  <2>1. Games!Result(FramesOf(mem, f, s), c.data, c.pc, 2)
    BY <1>19, SameSteps, Zenon
  <2>. QED  BY <1>5, <1>12, <1>21, <2>1
<1>23. (status = "run")' = (status = "run")
  OBVIOUS
<1>24. {GameIn(k) : k \in file}' = {GameIn(k) : k \in file}
  OBVIOUS
<1>25. Games!Restore
  BY <1>17, <1>20, <1>22, <1>23, <1>24 DEF Games!Restore, GameIn
<1>. QED  BY <1>18, <1>25

LEMMA RestoreGameStep ==
  ASSUME GameInv, NoCatch, Roomy, NEW at \in Sites, NEW layout \in Layouts,
         z_restore(at, layout)
  PROVE  GameInv' /\ Games!GameNext
<1>1. status = "run" /\ TakesResult(at) /\ UNCHANGED <<undo, file>>
  BY DEF z_restore
<1>2. 0 \in Word
  BY StoryAssumption
<1>3. CASE NoFile(at)
  <2>1. GivesResult(at, 0) /\ UNCHANGED <<undo, ghosts, status>>
    BY <1>1, <1>3 DEF NoFile
  <2>2. /\ Inv' /\ sp' > 4 /\ UndoSaved' /\ token' = None /\ undo_token'[1] = None
        /\ Games!Compute(at, 0)
    BY <1>1, <1>2, <2>1, GivesResultStep
  <2>3. FileSaved'
    BY <1>1, FileKept DEF GameInv
  <2>4. {GameIn(k) : k \in file}' = {GameIn(k) : k \in file}
    BY <1>1
  <2>5. Games!SaveFails(at)
    BY <2>2, <2>4 DEF Games!SaveFails, GameIn
  <2>. QED  BY <2>2, <2>3, <2>5, Zenon DEF GameInv, Games!GameNext
<1>4. ASSUME NEW c \in file, FileRead(restore_quetzal(layout, c), c)
      PROVE  GameInv' /\ Games!GameNext
  <2>. DEFINE r == restore_quetzal(layout, c)
  <2>1. PICK stk, f, s : SavedFrom(c, stk, f, s)
    BY DEF GameInv, FileSaved
  <2>2. ReadAs(r, c, stk, f, s)
    BY <2>1, RestoredAs, FrameInUse DEF GameInv
  <2>3. FileRead(r, c)
    BY <1>4
  <2>. HIDE DEF r
  <2>4. CASE r.lost \/ ~Succeeds(r)
    <3>1. status' # "run" /\ UNCHANGED <<machine, ghosts>>
      BY <2>3, <2>4 DEF FileRead
    <3>2. Abstract!Quit /\ sp' > 4 /\ UndoSaved'
      BY <1>1, <3>1, GameRefInv, QuitStep
    <3>3. Games!Next
      BY <3>2, SameActions, Zenon DEF Games!Next
    <3>4. {GameIn(k) : k \in file}' = {GameIn(k) : k \in file}
      BY <1>1
    <3>5. Games!GameNext
      BY <3>3, <3>4 DEF Games!GameNext, GameIn
    <3>6. Inv'
      <4>1. /\ UNCHANGED undo /\ stack' = stack /\ sp' = sp /\ fp' = fp
            /\ frame_count' = frame_count /\ pc' = pc /\ datap' = datap
            /\ token' = token /\ catcher' = catcher
        BY <1>1, <3>1 DEF machine, ghosts
      <4>2. status' \in {"run", "quit", "fatal", "undefined"}
        BY <2>3, <2>4 DEF FileRead
      <4>3. /\ stack \in [Cell -> Word] /\ sp \in 0 .. StackSize /\ fp \in Cell
            /\ frame_count \in Word /\ pc \in Nat /\ datap \in [Globals -> Word]
            /\ token \in Word \cup {None} /\ catcher \in Cell \cup {None}
            /\ (token = None <=> catcher = None)
            /\ Framed(stack, fp, sp)
        BY DEF GameInv, Inv, TypeOK
      <4>4. Framed(stack', fp', sp')
        BY <4>1, <4>3
      <4>. QED  BY <4>1, <4>2, <4>3, <4>4, MachineStep DEF GameInv
    <3>7. FileSaved' /\ token' = None /\ undo_token'[1] = None
      BY <1>1, <3>1, FileKept DEF GameInv, ghosts, undo
    <3>. QED  BY <3>2, <3>5, <3>6, <3>7 DEF GameInv
  <2>5. CASE ~(r.lost \/ ~Succeeds(r))
    <3>1. /\ fp' = r.fp /\ frame_count' = r.count
          /\ store_operand(r.stk, r.sp, r.fp, r.data, r.pc, 2)
          /\ token' = c.token[1] /\ catcher' = c.token[2]
          /\ UNCHANGED status
      BY <2>3, <2>5 DEF FileRead
    <3>2. GameInv' /\ Games!Restore
      BY <1>1, <2>1, <2>2, <2>5, <3>1, RestoredStep
    <3>. QED  BY <3>2, Zenon DEF Games!GameNext
  <2>. QED  BY <2>4, <2>5
<1>. QED  BY <1>3, <1>4 DEF z_restore

LEMMA GameStep ==
  ASSUME GameInv, NoCatch, Roomy, [GameNext]_game_vars
  PROVE  GameInv' /\ [Games!GameNext]_(Games!game_vars)
<1>1. CASE [Next]_vars /\ UNCHANGED file
  <2>1. Inv'
    BY <1>1, NextInv DEF GameInv
  <2>2. token' = None /\ undo_token'[1] = None
    BY <1>1, NothingCaught DEF GameInv, NoCatch
  <2>3. FileSaved'
    BY <1>1, FileKept DEF GameInv
  <2>4. {GameIn(k) : k \in file}' = {GameIn(k) : k \in file}
    BY <1>1
  <2>5. CASE Next
    <3>1. sp' > 4 /\ UndoSaved' /\ Abstract!Next
      BY <2>5, GameRefInv, NextRefines
    <3>2. Games!Next
      BY <3>1, SameNext, Zenon
    <3>3. Games!GameNext
      BY <2>4, <3>2 DEF Games!GameNext, GameIn
    <3>. QED  BY <2>1, <2>2, <2>3, <3>1, <3>3 DEF GameInv
  <2>6. CASE UNCHANGED vars
    <3>1. sp' > 4 /\ UndoSaved' /\ UNCHANGED Abstract!vars
      BY <2>6, GameRefInv, StutterRefines
    <3>2. UNCHANGED Games!vars
      BY <3>1, SameVars, Zenon
    <3>3. UNCHANGED Games!game_vars
      BY <2>4, <3>2 DEF Games!game_vars, GameIn
    <3>. QED  BY <2>1, <2>2, <2>3, <3>1, <3>3 DEF GameInv
  <2>. QED  BY <1>1, <2>5, <2>6
<1>2. ASSUME NEW at \in Sites, z_save(at)
      PROVE  GameInv' /\ Games!GameNext
  BY <1>2, SaveGameStep
<1>3. ASSUME NEW at \in Sites, NEW layout \in Layouts, z_restore(at, layout)
      PROVE  GameInv' /\ Games!GameNext
  BY <1>3, RestoreGameStep
<1>. QED  BY <1>1, <1>2, <1>3 DEF GameNext, game_vars

LEMMA GameInitInv ==
  ASSUME NoCatch, GameInit
  PROVE  GameInv /\ Games!GameInit
<1>1. Init /\ file = {}
  BY DEF GameInit
<1>2. RefInv /\ Abstract!Init
  BY <1>1, InitRefines DEF NoCatch
<1>3. Games!Init
  BY <1>2, SameActions, Zenon
<1>4. token = None /\ undo_token[1] = None
  BY <1>1 DEF Init
<1>5. FileSaved
  BY <1>1 DEF FileSaved
<1>6. GameInv
  BY <1>2, <1>4, <1>5 DEF GameInv, RefInv
<1>7. Games!GameInit
  BY <1>1, <1>3 DEF Games!GameInit
<1>. QED  BY <1>6, <1>7

\* Saves and restores keep their promise, with files whose chunks come in any order and
\* number: a restore gives back the frames, the global variables and the place that the
\* save saw, all at once, and no step puts a part of a file into a story that goes on.
\* (ImplementsSavedGames, for save_quetzal and restore_quetzal between the instructions of
\* control.c.)
THEOREM SavesImplementGames ==
  Roomy /\ NoCatch /\ GameSpec => ImplementsSavedGames
<1>. SUFFICES ASSUME Roomy, NoCatch  PROVE GameSpec => ImplementsSavedGames
  OBVIOUS
<1>1. GameInit => GameInv /\ Games!GameInit
  BY GameInitInv
<1>2. GameInv /\ [GameNext]_game_vars => GameInv' /\ [Games!GameNext]_(Games!game_vars)
  BY GameStep
<1>. QED  BY <1>1, <1>2, PTL DEF GameSpec, ImplementsSavedGames, Games!GameSpec

\* Neither a fatal error nor undefined behaviour meets a file that is complete: whatever
\* the order of its chunks and whatever else is in it, its restore succeeds.
\* (CompleteFilesRestore, for the loop of restore_quetzal and fatal() in save_restore.)
THEOREM CompleteFilesAreRestored ==
  Roomy /\ NoCatch /\ GameSpec => CompleteFilesRestore
<1>. SUFFICES ASSUME Roomy, NoCatch  PROVE GameSpec => CompleteFilesRestore
  OBVIOUS
<1>1. GameInit => GameInv
  BY GameInitInv
<1>2. GameInv /\ [GameNext]_game_vars => GameInv'
  BY GameStep
<1>. DEFINE Restores == file # {} /\ status' # "run" =>
                          \A at \in Sites, layout \in Layouts :
                            Complete(layout) => ~z_restore(at, layout)
<1>3. GameInv /\ [GameNext]_game_vars => [Restores]_game_vars
  <2>. SUFFICES ASSUME GameInv, status' # "run", NEW at \in Sites, NEW layout \in Layouts,
                       Complete(layout), z_restore(at, layout)
                PROVE  FALSE
    OBVIOUS
  <2>1. status = "run"
    BY DEF z_restore
  <2>2. ~NoFile(at)
    BY <2>1 DEF NoFile
  <2>3. PICK c \in file : FileRead(restore_quetzal(layout, c), c)
    BY <2>2 DEF z_restore
  <2>4. PICK stk, f, s : SavedFrom(c, stk, f, s)
    BY DEF GameInv, FileSaved
  <2>. DEFINE r == restore_quetzal(layout, c)
  <2>5. Succeeds(r) /\ r.lost = FALSE
    BY <2>4, CompleteRestored, FrameInUse DEF GameInv
  <2>6. FileRead(r, c)
    BY <2>3
  <2>. HIDE DEF r
  <2>7. UNCHANGED status
    BY <2>5, <2>6 DEF FileRead
  <2>. QED  BY <2>1, <2>7
<1>. HIDE DEF Restores
<1>4. GameSpec => [][Restores]_game_vars
  BY <1>1, <1>2, <1>3, PTL DEF GameSpec
<1>. QED  BY <1>4 DEF CompleteFilesRestore, Restores
=============================================================================
