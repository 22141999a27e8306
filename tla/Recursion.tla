----------------------------- MODULE Recursion -----------------------------
(***************************************************************************)
(* Induction and recursion with sets and functions in place of operators,  *)
(* for the proofs about the functions the model defines recursively.       *)
(***************************************************************************)
EXTENDS Integers, TLAPS, WellFoundedInduction

\* A set of natural numbers that is not empty has a least element.
LEMMA LeastElement ==
    ASSUME NEW T, T \subseteq Nat, T # {}
    PROVE  \E x \in T : \A y \in T : ~ (y < x)
<1>1. \E x \in T : \A y \in T : ~ (<<y, x>> \in OpToRel(<, Nat))
  BY WFMin, NatLessThanWellFounded, Zenon
<1>2. \A x, y \in Nat : y < x <=> <<y, x>> \in OpToRel(<, Nat)
  BY Zenon DEF OpToRel
<1>. QED  BY <1>1, <1>2

\* Induction over the natural numbers: a set that has each number of which it has
\* all smaller ones has them all.
LEMMA Ladder ==
  ASSUME NEW S, \A i \in Nat : 0 .. i - 1 \subseteq S => i \in S
  PROVE  Nat \subseteq S
<1>. SUFFICES ASSUME NEW j \in Nat, j \notin S  PROVE FALSE
  OBVIOUS
<1>. DEFINE T == {i \in Nat : i \notin S}
<1>1. T \subseteq Nat /\ T # {}
  OBVIOUS
<1>2. PICK m \in T : \A i \in T : ~ (i < m)
  <2>. HIDE DEF T
  <2>. QED  BY <1>1, LeastElement
<1>3. \A i \in 0 .. m - 1 : i \in S
  BY <1>2
<1>. QED  BY <1>2, <1>3

\* A set of indices with a property that passes from each to the next has all
\* of them.
LEMMA LeastIndex ==
  ASSUME NEW n \in Nat, NEW S,
         1 \in S,
         \A i \in 1 .. n - 1 : i \in S => i + 1 \in S
  PROVE  1 .. n \subseteq S
<1>. SUFFICES ASSUME NEW j \in 1 .. n, j \notin S  PROVE FALSE
  OBVIOUS
<1>. DEFINE T == {i \in 1 .. n : i \notin S}
<1>1. T \subseteq Nat /\ T # {}
  OBVIOUS
<1>2. PICK m \in T : \A i \in T : ~ (i < m)
  <2>. HIDE DEF T
  <2>. QED  BY <1>1, LeastElement
<1>3. m # 1 /\ m - 1 \in 1 .. n - 1
  OBVIOUS
<1>4. m - 1 \in S
  BY <1>2, <1>3
<1>. QED  BY <1>3, <1>4

\* step gives each value from those at arguments of lower rank.
Descends(D, V, rank, bound, step) ==
    /\ V # {}
    /\ bound \in Nat /\ rank \in [D -> Nat]
    /\ \A x \in D : rank[x] < bound
    /\ step \in [D -> [[D -> V] -> V]]
    /\ \A x \in D : \A f, g \in [D -> V] :
         (\A y \in D : rank[y] < rank[x] => f[y] = g[y]) => step[x][f] = step[x][g]


\* Then there is a function with these values: the recursive functions of the
\* model are what their definitions say.
LEMMA RecursiveFunction ==
  ASSUME NEW D, NEW V, NEW rank, NEW bound, NEW step, Descends(D, V, rank, bound, step)
  PROVE  \E f \in [D -> V] : \A x \in D : f[x] = step[x][f]
<1>. USE DEF Descends
<1>. DEFINE Right(f, m) == \A x \in D : rank[x] < m => f[x] = step[x][f]
            S == {m \in Nat : \E f \in [D -> V] : Right(f, m)}
<1>1. ASSUME NEW m \in Nat, 0 .. m - 1 \subseteq S  PROVE m \in S
  <2>1. CASE m = 0
    <3>1. PICK v \in V : TRUE
      OBVIOUS
    <3>2. [x \in D |-> v] \in [D -> V] /\ Right([x \in D |-> v], 0)
      OBVIOUS
    <3>. QED  BY <2>1, <3>2
  <2>2. CASE m # 0
    <3>1. m - 1 \in 0 .. m - 1
      BY <2>2
    <3>2. m - 1 \in S
      BY <1>1, <3>1
    <3>3. PICK f \in [D -> V] : Right(f, m - 1)
      BY <3>2
    <3>. DEFINE g == [x \in D |-> step[x][f]]
    <3>4. g \in [D -> V]
      OBVIOUS
    <3>5. \A x \in D : g[x] = step[x][f]
      OBVIOUS
    <3>. HIDE DEF g
    <3>6. ASSUME NEW x \in D, rank[x] < m  PROVE g[x] = step[x][g]
      <4>1. \A y \in D : rank[y] < rank[x] => g[y] = f[y]
        <5>1. \A y \in D : rank[y] < rank[x] => rank[y] < m - 1
          BY <3>6
        <5>. QED  BY <3>3, <3>5, <5>1
      <4>2. step[x][g] = step[x][f]
        BY <3>4, <4>1
      <4>. QED  BY <3>5, <4>2
    <3>. QED  BY <3>4, <3>6
  <2>. QED  BY <2>1, <2>2
<1>2. bound \in S
  <2>. HIDE DEF S
  <2>. QED  BY <1>1, Ladder
<1>. QED  BY <1>2

\* The same without a bound: step gives each value from those at arguments of lower rank.
Falls(D, V, rank, step) ==
    /\ V # {}
    /\ rank \in [D -> Nat]
    /\ step \in [D -> [[D -> V] -> V]]
    /\ \A x \in D : \A f, g \in [D -> V] :
         (\A y \in D : rank[y] < rank[x] => f[y] = g[y]) => step[x][f] = step[x][g]

\* f is as the steps say below rank m.
RightBelow(D, rank, step, f, m) == \A x \in D : rank[x] < m => f[x] = step[x][f]

\* Two functions that are right below a rank agree there.
LEMMA RightBelowUnique ==
  ASSUME NEW D, NEW V, NEW rank, NEW step, Falls(D, V, rank, step),
         NEW f \in [D -> V], NEW g \in [D -> V], NEW m \in Nat,
         RightBelow(D, rank, step, f, m), RightBelow(D, rank, step, g, m)
  PROVE  \A x \in D : rank[x] < m => f[x] = g[x]
<1>. USE DEF Falls, RightBelow
<1>. DEFINE S == {i \in Nat : \A x \in D : rank[x] = i /\ i < m => f[x] = g[x]}
<1>1. ASSUME NEW i \in Nat, 0 .. i - 1 \subseteq S  PROVE i \in S
  <2>1. ASSUME NEW x \in D, rank[x] = i, i < m  PROVE f[x] = g[x]
    <3>1. ASSUME NEW y \in D, rank[y] < rank[x]  PROVE f[y] = g[y]
      <4>1. rank[y] \in 0 .. i - 1 /\ rank[y] < m
        BY <2>1, <3>1
      <4>2. rank[y] \in S
        BY <1>1, <4>1
      <4>. QED  BY <4>1, <4>2
    <3>2. step[x][f] = step[x][g]
      BY <3>1
    <3>. QED  BY <2>1, <3>2
  <2>. QED  BY <2>1
<1>2. Nat \subseteq S
  <2>. HIDE DEF S
  <2>. QED  BY <1>1, Ladder
<1>3. \A x \in D : rank[x] \in Nat /\ rank[x] \in S
  BY <1>2
<1>. QED  BY <1>3

LEMMA RecursiveEverywhere ==
  ASSUME NEW D, NEW V, NEW rank, NEW step, Falls(D, V, rank, step)
  PROVE  \E f \in [D -> V] : \A x \in D : f[x] = step[x][f]
<1>. DEFINE Part(m) == CHOOSE f \in [D -> V] : RightBelow(D, rank, step, f, m)
<1>1. ASSUME NEW m \in Nat
      PROVE  Part(m) \in [D -> V] /\ RightBelow(D, rank, step, Part(m), m)
  <2>. DEFINE E == {x \in D : rank[x] < m}
              pad(f) == [x \in D |-> IF x \in E THEN f[x] ELSE CHOOSE v \in V : TRUE]
              rk == [x \in E |-> rank[x]]
              st == [x \in E |-> [f \in [E -> V] |-> step[x][pad(f)]]]
  <2>1. ASSUME NEW f \in [E -> V]  PROVE pad(f) \in [D -> V] /\ \A x \in E : pad(f)[x] = f[x]
    BY DEF Falls
  <2>2. Descends(E, V, rk, m, st)
    <3>1. rk \in [E -> Nat] /\ \A x \in E : rk[x] < m
      BY DEF Falls
    <3>2. st \in [E -> [[E -> V] -> V]]
      BY <2>1 DEF Falls
    <3>3. ASSUME NEW x \in E, NEW f \in [E -> V], NEW g \in [E -> V],
                 \A y \in E : rk[y] < rk[x] => f[y] = g[y]
          PROVE  st[x][f] = st[x][g]
      <4>1. ASSUME NEW y \in D, rank[y] < rank[x]  PROVE pad(f)[y] = pad(g)[y]
        <5>1. y \in E
          BY <4>1 DEF Falls
        <5>2. rk[y] < rk[x]
          BY <4>1, <5>1
        <5>. QED  BY <2>1, <3>3, <5>1, <5>2
      <4>. DEFINE pf == pad(f)
                  pg == pad(g)
      <4>2. pf \in [D -> V] /\ pg \in [D -> V] /\ x \in D
        BY <2>1
      <4>3. \A y \in D : rank[y] < rank[x] => pf[y] = pg[y]
        BY <4>1
      <4>4. st[x][f] = step[x][pf] /\ st[x][g] = step[x][pg]
        OBVIOUS
      <4>. HIDE DEF pf, pg, st
      <4>. QED  BY <4>2, <4>3, <4>4 DEF Falls
    <3>. HIDE DEF E, rk, st
    <3>. QED  BY <3>1, <3>2, <3>3 DEF Falls, Descends
  <2>. HIDE DEF E, rk, st
  <2>3. PICK f \in [E -> V] : \A x \in E : f[x] = st[x][f]
    BY <2>2, RecursiveFunction
  <2>4. \A x \in E : f[x] = step[x][pad(f)]
    BY <2>3 DEF st
  <2>5. RightBelow(D, rank, step, pad(f), m)
    <3>1. \A x \in D : rank[x] < m => x \in E
      BY DEF E
    <3>2. pad(f) \in [D -> V] /\ \A x \in E : pad(f)[x] = f[x]
      BY <2>1
    <3>. HIDE DEF pad
    <3>. QED  BY <2>4, <3>1, <3>2 DEF RightBelow
  <2>6. pad(f) \in [D -> V]
    BY <2>1
  <2>. HIDE DEF pad
  <2>. QED  BY <2>5, <2>6
<1>. HIDE DEF Part
<1>. DEFINE h == [x \in D |-> Part(rank[x] + 1)[x]]
<1>2. \A x \in D : rank[x] \in Nat /\ rank[x] + 1 \in Nat /\ rank[x] < rank[x] + 1
  BY DEF Falls
<1>3. h \in [D -> V]
  BY <1>1, <1>2
<1>4. \A x \in D : h[x] = Part(rank[x] + 1)[x]
  OBVIOUS
<1>. HIDE DEF h
<1>5. ASSUME NEW x \in D  PROVE h[x] = step[x][h]
  <2>. DEFINE m == rank[x] + 1
              f == Part(m)
  <2>1. m \in Nat /\ rank[x] < m /\ f \in [D -> V] /\ RightBelow(D, rank, step, f, m)
    BY <1>1, <1>2
  <2>2. ASSUME NEW y \in D, rank[y] < rank[x]  PROVE h[y] = f[y]
    <3>. DEFINE k == rank[y] + 1
                g == Part(k)
    <3>1. k \in Nat /\ rank[y] < k /\ k <= m /\ g \in [D -> V] /\ RightBelow(D, rank, step, g, k)
      BY <1>1, <1>2, <2>2
    <3>2. RightBelow(D, rank, step, f, k)
      <4>1. \A z \in D : rank[z] < k => rank[z] < m
        BY <1>2, <2>1, <3>1
      <4>. HIDE DEF f, m, k
      <4>. QED  BY <2>1, <4>1 DEF RightBelow
    <3>3. h[y] = g[y]
      BY <1>4
    <3>. HIDE DEF f, g, k, m
    <3>. QED  BY <2>1, <3>1, <3>2, <3>3, RightBelowUnique
  <2>3. h[x] = f[x]
    BY <1>4
  <2>. HIDE DEF f, m
  <2>4. f[x] = step[x][f]
    BY <2>1 DEF RightBelow
  <2>5. step[x][h] = step[x][f]
    BY <1>3, <2>1, <2>2 DEF Falls
  <2>. QED  BY <2>3, <2>4, <2>5
<1>. QED  BY <1>3, <1>5
=============================================================================
