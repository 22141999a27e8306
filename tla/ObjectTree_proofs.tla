-------------------------- MODULE ObjectTree_proofs --------------------------
(***************************************************************************)
(* For every number of objects and every legal story file: as long as the  *)
(* story passes no object 0 that it is not stopped for, the links          *)
(* represent a sequence of children for every object after every insertion *)
(* and removal, and the walk of remove_obj ends.                           *)
(***************************************************************************)
EXTENDS ObjectTree, TLAPS, Recursion, FiniteSetTheorems

\* The sequence without its element k, and with o before its first.
Dropped(s, k) == [i \in 1 .. Len(s) - 1 |-> IF i < k THEN s[i] ELSE s[i + 1]]
Cons(o, s) == [i \in 1 .. Len(s) + 1 |-> IF i = 1 THEN o ELSE s[i - 1]]

Kids == [Objects -> Seq(Objects)]

\* The sequences of children without o, and with it as the first child of p.
PlaceOf(s, o) == CHOOSE k \in 1 .. Len(s) : s[k] = o
KidsWithout(kids, par, o) ==
    IF par[o] = 0 THEN kids
    ELSE [kids EXCEPT ![par[o]] = Dropped(kids[par[o]], PlaceOf(kids[par[o]], o))]
KidsWith(kids, o, p) == [kids EXCEPT ![p] = Cons(o, kids[p])]

\* The inductive invariant: some sequences of children are represented.
Inv ==
    /\ TypeOK
    /\ WalksEnd
    /\ \E kids \in Kids : Represents(parent, next, child, kids)

\* The story passes real objects only, or is stopped when it does not.
NoObjectZero == Operands \subseteq Objects \/ ReportIsFatal

-----------------------------------------------------------------------------
(* Sequences *)

LEMMA SeqParts ==
  ASSUME NEW S, NEW s \in Seq(S)
  PROVE  /\ Len(s) \in Nat
         /\ \A i \in 1 .. Len(s) : s[i] \in S
OBVIOUS

LEMMA FunctionIsSeq ==
  ASSUME NEW S, NEW n \in Nat, NEW s \in [1 .. n -> S]
  PROVE  /\ s \in Seq(S)
         /\ Len(s) = n
OBVIOUS

LEMMA DroppedIsSeq ==
  ASSUME NEW S, NEW s \in Seq(S), NEW k \in 1 .. Len(s)
  PROVE  /\ Dropped(s, k) \in Seq(S)
         /\ Len(Dropped(s, k)) = Len(s) - 1
         /\ \A i \in 1 .. Len(s) - 1 :
              Dropped(s, k)[i] = IF i < k THEN s[i] ELSE s[i + 1]
<1>1. Len(s) - 1 \in Nat  BY SeqParts
<1>2. Dropped(s, k) \in [1 .. Len(s) - 1 -> S]
  BY SeqParts DEF Dropped
<1>3. Dropped(s, k) \in Seq(S) /\ Len(Dropped(s, k)) = Len(s) - 1
  BY <1>1, <1>2, FunctionIsSeq
<1>. QED  BY <1>3 DEF Dropped

LEMMA ConsIsSeq ==
  ASSUME NEW S, NEW s \in Seq(S), NEW o \in S
  PROVE  /\ Cons(o, s) \in Seq(S)
         /\ Len(Cons(o, s)) = Len(s) + 1
         /\ \A i \in 1 .. Len(s) + 1 :
              Cons(o, s)[i] = IF i = 1 THEN o ELSE s[i - 1]
<1>1. Len(s) + 1 \in Nat  BY SeqParts
<1>2. Cons(o, s) \in [1 .. Len(s) + 1 -> S]
  BY SeqParts DEF Cons
<1>3. Cons(o, s) \in Seq(S) /\ Len(Cons(o, s)) = Len(s) + 1
  BY <1>1, <1>2, FunctionIsSeq
<1>. QED  BY <1>3 DEF Cons

-----------------------------------------------------------------------------
(* Chains *)

\* The facts of Represents about one object with a parent.
LEMMA Place ==
  ASSUME NEW par, NEW nxt, NEW chd, NEW kids \in Kids,
         Represents(par, nxt, chd, kids),
         par \in [Record -> Record],
         NEW o \in Objects, par[o] # 0
  PROVE  /\ par[o] \in Objects
         /\ \E k \in 1 .. Len(kids[par[o]]) : kids[par[o]][k] = o
BY DEF Represents, Objects, Record

\* The walk of remove_obj for the k-th child stops at the one before it.
LEMMA WalkStops ==
  ASSUME TypeOK,
         NEW kids \in Kids, Represents(parent, next, child, kids),
         NEW p \in Objects, NEW k \in 2 .. Len(kids[p])
  PROVE  /\ WalkEnds(kids[p][k])
         /\ Before(kids[p][k]) = kids[p][k - 1]
<1>. DEFINE s == kids[p]
            o == s[k]
            V == {s[i] : i \in 1 .. k - 1}
<1>1. s \in Seq(Objects) /\ Len(s) \in Nat /\ \A i \in 1 .. Len(s) : s[i] \in Objects
  BY SeqParts DEF Kids
<1>2. o \in Objects /\ parent[o] = p /\ child[p] = s[1]
  BY <1>1 DEF Represents
<1>3. \A i \in 1 .. k - 1 : next[s[i]] = s[i + 1] /\ (next[s[i]] = o => i = k - 1)
  BY <1>1 DEF Represents, Listed
<1>4. V \subseteq Record
  BY <1>1 DEF Objects, Record
<1>5. Closed(V, o)
  <2>1. child[parent[o]] \in V
    BY <1>1, <1>2
  <2>2. ASSUME NEW x \in V, next[x] # o  PROVE next[x] \in V
    <3>1. PICK i \in 1 .. k - 1 : x = s[i]  OBVIOUS
    <3>2. next[x] = s[i + 1] /\ i # k - 1  BY <1>1, <1>3, <2>2, <3>1
    <3>. QED  BY <3>1, <3>2
  <2>. QED  BY <2>1, <2>2 DEF Closed
<1>6. ASSUME NEW S, Closed(S, o)  PROVE V \subseteq S
  <2>. DEFINE I == {i \in 1 .. k - 1 : s[i] \in S}
  <2>1. 1 \in I
    BY <1>2, <1>6 DEF Closed
  <2>2. ASSUME NEW i \in 1 .. (k - 1) - 1, i \in I  PROVE i + 1 \in I
    <3>1. next[s[i]] # o /\ next[s[i]] = s[i + 1]  BY <1>1, <1>3
    <3>. QED  BY <2>2, <3>1, <1>6 DEF Closed
  <2>3. k - 1 \in Nat  OBVIOUS
  <2>4. 1 .. k - 1 \subseteq I
    <3>. HIDE DEF I
    <3>. QED  BY <2>1, <2>2, <2>3, LeastIndex
  <2>. QED  BY <2>4
<1>7. Visited(o) = V
  BY <1>4, <1>5, <1>6 DEF Visited
<1>8. s[k - 1] \in V /\ next[s[k - 1]] = o
  BY <1>1, <1>3
<1>9. \A x \in V : next[x] = o => x = s[k - 1]
  BY <1>3
<1>. HIDE DEF V
<1>. QED  BY <1>7, <1>8, <1>9 DEF WalkEnds, Before

-----------------------------------------------------------------------------
(* Removal *)

\* An object without a parent is left alone; any other leaves its family, and
\* its siblings keep their order.
LEMMA RemovalRepresents ==
  ASSUME TypeOK,
         NEW kids \in Kids, Represents(parent, next, child, kids),
         NEW o \in Objects
  PROVE  /\ Removable(o)
         /\ KidsWithout(kids, parent, o) \in Kids
         /\ Represents(ParentRemoved(o), NextRemoved(o), ChildRemoved(o),
                       KidsWithout(kids, parent, o))
<1>1. CASE parent[o] = 0
  <2>1. ParentRemoved(o) = parent /\ NextRemoved(o) = next /\ ChildRemoved(o) = child
    BY <1>1 DEF TypeOK, ParentRemoved, NextRemoved, ChildRemoved, Objects, Record
  <2>. QED  BY <1>1, <2>1 DEF Removable, KidsWithout
<1>2. CASE parent[o] # 0
  <2>. DEFINE p == parent[o]
              s == kids[p]
  <2>1. p \in Objects /\ \E i \in 1 .. Len(s) : s[i] = o
    BY <1>2 DEF TypeOK, Represents, Objects, Record
  <2>2. PICK k \in 1 .. Len(s) : s[k] = o /\ k = PlaceOf(s, o)
    BY <2>1 DEF PlaceOf
  <2>. DEFINE ks == [kids EXCEPT ![p] = Dropped(s, k)]
              old(q, i) == IF q = p /\ i >= k THEN i + 1 ELSE i
  <2>3. /\ \A q \in Objects : kids[q] \in Seq(Objects) /\ Len(kids[q]) \in Nat
        /\ \A q \in Objects : \A i \in 1 .. Len(kids[q]) : kids[q][i] \in Objects
    BY SeqParts DEF Kids
  <2>4. /\ Dropped(s, k) \in Seq(Objects)
        /\ Len(Dropped(s, k)) = Len(s) - 1
        /\ \A i \in 1 .. Len(s) - 1 : Dropped(s, k)[i] = IF i < k THEN s[i] ELSE s[i + 1]
    BY <2>1, <2>3, DroppedIsSeq
  <2>5. ks \in Kids
    BY <2>1, <2>4 DEF Kids
  <2>. /\ k \in Nat /\ Len(s) \in Nat
       /\ \A q \in Objects : ks[q] = IF q = p THEN Dropped(s, k) ELSE kids[q]
    BY <2>1, <2>3 DEF Kids
  <2>6. \A q \in Objects : Len(ks[q]) = IF q = p THEN Len(s) - 1 ELSE Len(kids[q])
    BY <2>1, <2>4 DEF Kids
  <2>7. \A q \in Objects : \A i \in 1 .. Len(ks[q]) :
          /\ old(q, i) \in 1 .. Len(kids[q])
          /\ ks[q][i] = kids[q][old(q, i)]
          /\ ks[q][i] \in Objects
          /\ ks[q][i] # o
    <3>. SUFFICES ASSUME NEW q \in Objects, NEW i \in 1 .. Len(ks[q])
                  PROVE  /\ old(q, i) \in 1 .. Len(kids[q])
                         /\ ks[q][i] = kids[q][old(q, i)]
                         /\ ks[q][i] \in Objects
                         /\ ks[q][i] # o
      OBVIOUS
    <3>1. old(q, i) \in 1 .. Len(kids[q])
      BY <2>1, <2>3, <2>6
    <3>2. ks[q][i] = kids[q][old(q, i)]
      <4>1. CASE q = p
        <5>1. i \in 1 .. Len(s) - 1  BY <4>1, <2>6
        <5>. QED  BY <4>1, <5>1, <2>1, <2>4
      <4>. QED  BY <4>1
    <3>3. kids[q][old(q, i)] # o
      <4>1. ~ (q = p /\ old(q, i) = k)
        BY <2>3
      <4>. QED  BY <4>1, <3>1, <2>1, <2>2 DEF Represents, Listed
    <3>. QED  BY <3>1, <3>2, <3>3, <2>3
  <2>8. IsFirstChild(o) <=> k = 1
    BY <2>1, <2>2, <2>3 DEF IsFirstChild, Represents, Listed
  <2>9. k # 1 => WalkEnds(o) /\ Before(o) = s[k - 1]
    <3>1. k # 1 => k \in 2 .. Len(s)
      OBVIOUS
    <3>. QED  BY <3>1, <2>1, <2>2, WalkStops
  <2>10. Removable(o)
    BY <2>8, <2>9 DEF Removable
  <2>11. next[o] = IF k = Len(s) THEN 0 ELSE s[k + 1]
    BY <2>1, <2>2 DEF Represents
  <2>. DEFINE par == ParentRemoved(o)
              nxt == NextRemoved(o)
              chd == ChildRemoved(o)
  <2>12. \A x \in Objects : par[x] = IF x = o THEN 0 ELSE parent[x]
    BY DEF ParentRemoved, TypeOK, Objects, Record
  <2>13. \A x \in Objects : chd[x] = IF x = p /\ k = 1 THEN next[o] ELSE child[x]
    BY <1>2, <2>8 DEF ChildRemoved, TypeOK, Objects, Record
  <2>14. \A x \in Objects :
           nxt[x] = IF x = o THEN 0
                    ELSE IF k # 1 /\ x = s[k - 1] THEN next[o] ELSE next[x]
    <3>1. CASE k = 1
      BY <3>1, <1>2, <2>8 DEF NextRemoved, TypeOK, Objects, Record
    <3>2. CASE k # 1
      BY <3>2, <1>2, <2>8, <2>9 DEF NextRemoved, TypeOK, Objects, Record
    <3>. QED  BY <3>1, <3>2
  <2>15. Listed(ks)
    <3>. SUFFICES ASSUME NEW q \in Objects, NEW r \in Objects,
                         NEW i \in 1 .. Len(ks[q]), NEW j \in 1 .. Len(ks[r]),
                         ks[q][i] = ks[r][j]
                  PROVE  q = r /\ i = j
      BY DEF Listed
    <3>1. q = r /\ old(q, i) = old(r, j)
      <4>1. /\ old(q, i) \in 1 .. Len(kids[q]) /\ old(r, j) \in 1 .. Len(kids[r])
            /\ kids[q][old(q, i)] = kids[r][old(r, j)]
        <5>. HIDE DEF ks, old
        <5>. QED  BY <2>7
      <4>. HIDE DEF ks, old
      <4>. QED  BY <4>1 DEF Represents, Listed
    <3>2. i \in Int /\ j \in Int /\ k \in Int
      BY <2>3, <2>6
    <3>. QED  BY <3>1, <3>2
  <2>16. ASSUME NEW q \in Objects
         PROVE  chd[q] = IF Len(ks[q]) = 0 THEN 0 ELSE ks[q][1]
    <3>1. child[q] = IF Len(kids[q]) = 0 THEN 0 ELSE kids[q][1]
      BY DEF Represents
    <3>2. CASE q = p
      BY <3>1, <3>2, <2>1, <2>3, <2>6, <2>7, <2>11, <2>13
    <3>3. CASE q # p
      BY <3>1, <3>3, <2>3, <2>6, <2>7, <2>13
    <3>. QED  BY <3>2, <3>3
  <2>17. ASSUME NEW q \in Objects, NEW i \in 1 .. Len(ks[q])
         PROVE  /\ par[ks[q][i]] = q
                /\ nxt[ks[q][i]] = IF i = Len(ks[q]) THEN 0 ELSE ks[q][i + 1]
    <3>. DEFINE x == ks[q][i]
                m == old(q, i)
    <3>1. m \in 1 .. Len(kids[q]) /\ x = kids[q][m] /\ x \in Objects /\ x # o
      BY <2>7
    <3>2. parent[x] = q /\ next[x] = IF m = Len(kids[q]) THEN 0 ELSE kids[q][m + 1]
      BY <3>1 DEF Represents
    <3>3. k # 1 => (x = s[k - 1] <=> q = p /\ m = k - 1)
      <4>. SUFFICES ASSUME k # 1  PROVE x = s[k - 1] <=> q = p /\ m = k - 1
        OBVIOUS
      <4>. DEFINE h == k - 1
      <4>1. h \in 1 .. Len(kids[p]) /\ s[h] = kids[p][h] /\ p \in Objects
        BY <2>1
      <4>. HIDE DEF m, x, h
      <4>2. kids[q][m] = kids[p][h] <=> q = p /\ m = h
        BY <3>1, <4>1 DEF Represents, Listed
      <4>. QED  BY <3>1, <4>1, <4>2 DEF h
    <3>4. i # Len(ks[q]) =>
            ks[q][i + 1] = kids[q][old(q, i + 1)] /\ old(q, i + 1) \in 1 .. Len(kids[q])
      <4>1. i # Len(ks[q]) => i + 1 \in 1 .. Len(ks[q])
        BY <2>3, <2>6
      <4>. HIDE DEF ks, old
      <4>. QED  BY <4>1, <2>7
    <3>5. nxt[x] = IF k # 1 /\ q = p /\ m = k - 1 THEN next[o] ELSE next[x]
      BY <3>1, <3>3, <2>14
    <3>6. CASE q = p /\ k # 1 /\ m = k - 1
      <4>1. i = k - 1 /\ Len(ks[q]) = Len(s) - 1
        <5>1. i \in Nat  BY <2>3, <2>6
        <5>. QED  BY <5>1, <3>6, <2>6
      <4>. QED  BY <4>1, <3>2, <3>4, <3>5, <3>6, <3>1, <2>3, <2>11, <2>12
    <3>7. CASE ~ (q = p /\ k # 1 /\ m = k - 1)
      <4>1. i # Len(ks[q]) => old(q, i + 1) = m + 1
        BY <3>7, <2>3, <2>6
      <4>2. i = Len(ks[q]) <=> m = Len(kids[q])
        BY <3>7, <3>1, <2>3, <2>6
      <4>. QED  BY <4>1, <4>2, <3>1, <3>2, <3>4, <3>5, <3>7, <2>12
    <3>. QED  BY <3>6, <3>7
  <2>18. ASSUME NEW x \in Objects
         PROVE  /\ par[x] = 0 => nxt[x] = 0
                /\ par[x] # 0 => \E i \in 1 .. Len(ks[par[x]]) : ks[par[x]][i] = x
    <3>1. CASE x = o
      BY <3>1, <2>12, <2>14
    <3>2. CASE x # o /\ parent[x] = 0
      <4>1. k # 1 => x # s[k - 1]
        <5>1. k # 1 => k - 1 \in 1 .. Len(kids[p])
          OBVIOUS
        <5>2. k # 1 => parent[s[k - 1]] = p
          BY <5>1, <2>1 DEF Represents
        <5>. QED  BY <5>2, <3>2, <1>2
      <4>2. next[x] = 0
        BY <3>2 DEF Represents
      <4>. QED  BY <3>2, <4>1, <4>2, <2>12, <2>14
    <3>3. CASE x # o /\ parent[x] # 0
      <4>1. parent[x] \in Objects /\ \E j \in 1 .. Len(kids[parent[x]]) : kids[parent[x]][j] = x
        BY <3>3, Place DEF TypeOK
      <4>2. PICK j \in 1 .. Len(kids[parent[x]]) : kids[parent[x]][j] = x
        BY <4>1
      <4>. DEFINE i == IF parent[x] = p /\ j > k THEN j - 1 ELSE j
      <4>3. ~ (parent[x] = p /\ j = k)
        BY <4>2, <3>3, <2>2
      <4>4. i \in 1 .. Len(ks[parent[x]]) /\ old(parent[x], i) = j
        BY <4>1, <4>3, <2>3, <2>6
      <4>5. ks[parent[x]][i] = x
        <5>. HIDE DEF ks, i, old
        <5>. QED  BY <4>1, <4>2, <4>4, <2>7
      <4>6. par[x] = parent[x]
        BY <3>3, <2>12
      <4>. HIDE DEF ks, i, par, nxt
      <4>. QED  BY <3>3, <4>4, <4>5, <4>6
    <3>. QED  BY <3>1, <3>2, <3>3
  <2>. HIDE DEF ks, par, nxt, chd
  <2>19. Represents(par, nxt, chd, ks)
    BY <2>15, <2>16, <2>17, <2>18 DEF Represents
  <2>20. KidsWithout(kids, parent, o) = ks
    BY <1>2, <2>2 DEF KidsWithout, ks
  <2>. QED  BY <2>5, <2>10, <2>19, <2>20 DEF par, nxt, chd
<1>. QED  BY <1>1, <1>2

-----------------------------------------------------------------------------
(* Insertion *)

\* An object without a parent that is linked in front of the children of p is
\* the first of them.
LEMMA LinkingRepresents ==
  ASSUME NEW par, NEW nxt, NEW chd, NEW kids \in Kids,
         par \in [Record -> Record],
         nxt \in [Record -> Record],
         chd \in [Record -> Record],
         Represents(par, nxt, chd, kids),
         NEW o \in Objects, NEW p \in Objects,
         par[o] = 0
  PROVE  /\ KidsWith(kids, o, p) \in Kids
         /\ Represents([par EXCEPT ![o] = p],
                       IF chd[p] = 0 THEN nxt ELSE [nxt EXCEPT ![o] = chd[p]],
                       [chd EXCEPT ![p] = o],
                       KidsWith(kids, o, p))
<1>. DEFINE s == kids[p]
            ks == [kids EXCEPT ![p] = Cons(o, s)]
            par2 == [par EXCEPT ![o] = p]
            nxt2 == IF chd[p] = 0 THEN nxt ELSE [nxt EXCEPT ![o] = chd[p]]
            chd2 == [chd EXCEPT ![p] = o]
            old(q, i) == IF q = p THEN i - 1 ELSE i
            IsNew(q, i) == q = p /\ i = 1
<1>1. /\ \A q \in Objects : kids[q] \in Seq(Objects) /\ Len(kids[q]) \in Nat
      /\ \A q \in Objects : \A i \in 1 .. Len(kids[q]) : kids[q][i] \in Objects
  BY SeqParts DEF Kids
<1>2. /\ Cons(o, s) \in Seq(Objects)
      /\ Len(Cons(o, s)) = Len(s) + 1
      /\ \A i \in 1 .. Len(s) + 1 : Cons(o, s)[i] = IF i = 1 THEN o ELSE s[i - 1]
  <2>1. s \in Seq(Objects)  BY <1>1
  <2>. HIDE DEF s
  <2>. QED  BY <2>1, ConsIsSeq
<1>3. ks \in Kids /\ \A q \in Objects : ks[q] = IF q = p THEN Cons(o, s) ELSE kids[q]
  BY <1>2 DEF Kids
<1>4. \A q \in Objects : Len(ks[q]) = IF q = p THEN Len(s) + 1 ELSE Len(kids[q])
  BY <1>2, <1>3
<1>5. \A q \in Objects : \A i \in 1 .. Len(kids[q]) : kids[q][i] # o /\ par[kids[q][i]] = q
  BY DEF Represents, Objects
<1>6. \A q \in Objects : \A i \in 1 .. Len(ks[q]) :
        IF IsNew(q, i) THEN ks[q][i] = o
        ELSE /\ old(q, i) \in 1 .. Len(kids[q])
             /\ ks[q][i] = kids[q][old(q, i)]
             /\ ks[q][i] \in Objects
             /\ ks[q][i] # o
  <2>. SUFFICES ASSUME NEW q \in Objects, NEW i \in 1 .. Len(ks[q])
                PROVE  IF IsNew(q, i) THEN ks[q][i] = o
                       ELSE /\ old(q, i) \in 1 .. Len(kids[q])
                            /\ ks[q][i] = kids[q][old(q, i)]
                            /\ ks[q][i] \in Objects
                            /\ ks[q][i] # o
    OBVIOUS
  <2>1. CASE q = p
    <3>1. i \in 1 .. Len(s) + 1  BY <2>1, <1>4
    <3>2. ks[q][i] = IF i = 1 THEN o ELSE s[i - 1]  BY <2>1, <3>1, <1>2, <1>3
    <3>3. i # 1 => i - 1 \in 1 .. Len(s)  BY <3>1, <1>1
    <3>. QED  BY <2>1, <3>2, <3>3, <1>1, <1>5
  <2>2. CASE q # p
    BY <2>2, <1>1, <1>3, <1>5
  <2>. QED  BY <2>1, <2>2
<1>7. /\ \A x \in Objects : par2[x] = IF x = o THEN p ELSE par[x]
      /\ \A x \in Objects : nxt2[x] = IF x = o THEN chd[p] ELSE nxt[x]
      /\ \A x \in Objects : chd2[x] = IF x = p THEN o ELSE chd[x]
  BY DEF Represents, Objects, Record
<1>8. Listed(ks)
  <2>. SUFFICES ASSUME NEW q \in Objects, NEW r \in Objects,
                       NEW i \in 1 .. Len(ks[q]), NEW j \in 1 .. Len(ks[r]),
                       ks[q][i] = ks[r][j]
                PROVE  q = r /\ i = j
    BY DEF Listed
  <2>1. CASE IsNew(q, i) \/ IsNew(r, j)
    <3>. HIDE DEF ks, old
    <3>. QED  BY <2>1, <1>6
  <2>2. CASE ~ IsNew(q, i) /\ ~ IsNew(r, j)
    <3>1. /\ old(q, i) \in 1 .. Len(kids[q]) /\ old(r, j) \in 1 .. Len(kids[r])
          /\ kids[q][old(q, i)] = kids[r][old(r, j)]
      <4>. HIDE DEF ks, old, IsNew
      <4>. QED  BY <2>2, <1>6
    <3>2. q = r /\ old(q, i) = old(r, j)
      <4>. HIDE DEF ks, old
      <4>. QED  BY <3>1 DEF Represents, Listed
    <3>3. i \in Int /\ j \in Int
      BY <1>1, <1>4
    <3>. QED  BY <3>2, <3>3
  <2>. QED  BY <2>1, <2>2
<1>9. ASSUME NEW q \in Objects
      PROVE  chd2[q] = IF Len(ks[q]) = 0 THEN 0 ELSE ks[q][1]
  <2>1. chd[q] = IF Len(kids[q]) = 0 THEN 0 ELSE kids[q][1]
    BY DEF Represents
  <2>2. CASE q = p
    BY <2>2, <1>1, <1>2, <1>3, <1>7
  <2>3. CASE q # p
    BY <2>1, <2>3, <1>3, <1>7
  <2>. QED  BY <2>2, <2>3
<1>10. ASSUME NEW q \in Objects, NEW i \in 1 .. Len(ks[q])
       PROVE  /\ par2[ks[q][i]] = q
              /\ nxt2[ks[q][i]] = IF i = Len(ks[q]) THEN 0 ELSE ks[q][i + 1]
  <2>1. i \in Nat /\ Len(ks[q]) \in Nat /\ Len(kids[q]) \in Nat
    BY <1>1, <1>4
  <2>2. i # Len(ks[q]) => i + 1 \in 1 .. Len(ks[q]) /\ ~ IsNew(q, i + 1)
    BY <2>1
  <2>3. i # Len(ks[q]) => ks[q][i + 1] = kids[q][old(q, i + 1)]
    <3>. HIDE DEF ks, old, IsNew
    <3>. QED  BY <2>2, <1>6
  <2>4. CASE IsNew(q, i)
    <3>1. ks[q][i] = o
      <4>. HIDE DEF ks, old, IsNew
      <4>. QED  BY <2>4, <1>6
    <3>2. chd[p] = IF Len(s) = 0 THEN 0 ELSE s[1]
      BY DEF Represents
    <3>3. i = Len(ks[q]) <=> Len(s) = 0
      <4>1. i = 1 /\ Len(ks[q]) = Len(s) + 1 /\ Len(s) \in Nat
        BY <2>4, <1>1, <1>4
      <4>. HIDE DEF s, ks
      <4>. QED  BY <4>1
    <3>4. old(q, i + 1) = 1
      BY <2>4
    <3>. HIDE DEF ks, old, nxt2, par2
    <3>. QED  BY <2>3, <2>4, <3>1, <3>2, <3>3, <3>4, <1>7
  <2>5. CASE ~ IsNew(q, i)
    <3>. DEFINE x == ks[q][i]
                m == old(q, i)
    <3>1. m \in 1 .. Len(kids[q]) /\ x = kids[q][m] /\ x \in Objects /\ x # o
      <4>. HIDE DEF ks, old, IsNew
      <4>. QED  BY <2>5, <1>6
    <3>2. par[x] = q /\ nxt[x] = IF m = Len(kids[q]) THEN 0 ELSE kids[q][m + 1]
      <4>. HIDE DEF m, x
      <4>. QED  BY <3>1 DEF Represents
    <3>3. (i = Len(ks[q]) <=> m = Len(kids[q])) /\ old(q, i + 1) = m + 1
      BY <2>1, <1>4
    <3>. HIDE DEF ks, old, nxt2, par2
    <3>. QED  BY <2>3, <3>1, <3>2, <3>3, <1>7
  <2>. QED  BY <2>4, <2>5
<1>11. ASSUME NEW x \in Objects
       PROVE  /\ par2[x] = 0 => nxt2[x] = 0
              /\ par2[x] # 0 => \E i \in 1 .. Len(ks[par2[x]]) : ks[par2[x]][i] = x
  <2>1. CASE x = o
    <3>1. par2[x] = p /\ p # 0
      BY <2>1, <1>7 DEF Objects
    <3>2. 1 \in 1 .. Len(ks[p]) /\ ks[p][1] = o
      BY <1>1, <1>2, <1>3
    <3>. QED  BY <2>1, <3>1, <3>2
  <2>2. CASE x # o
    <3>1. par2[x] = par[x] /\ nxt2[x] = nxt[x] /\ (par[x] = 0 => nxt[x] = 0)
      BY <2>2, <1>7 DEF Represents
    <3>2. CASE par[x] # 0
      <4>1. par[x] \in Objects /\ \E j \in 1 .. Len(kids[par[x]]) : kids[par[x]][j] = x
        <5>1. par[x] \in Record  BY DEF Objects, Record
        <5>2. par[x] \in Objects  BY <5>1, <3>2 DEF Objects, Record
        <5>3. \E j \in 1 .. Len(kids[par[x]]) : kids[par[x]][j] = x
          BY <3>2 DEF Represents
        <5>. QED  BY <5>2, <5>3
      <4>2. PICK j \in 1 .. Len(kids[par[x]]) : kids[par[x]][j] = x
        BY <4>1
      <4>. DEFINE i == IF par[x] = p THEN j + 1 ELSE j
      <4>3. i \in 1 .. Len(ks[par[x]]) /\ old(par[x], i) = j /\ ~ IsNew(par[x], i)
        BY <4>1, <1>1, <1>4
      <4>4. ks[par[x]][i] = x
        <5>. HIDE DEF ks, i, old, IsNew
        <5>. QED  BY <4>1, <4>2, <4>3, <1>6
      <4>. HIDE DEF ks, i, par2, nxt2
      <4>. QED  BY <3>1, <3>2, <4>3, <4>4
    <3>. QED  BY <3>1, <3>2
  <2>. QED  BY <2>1, <2>2
<1>. HIDE DEF ks, par2, nxt2, chd2
<1>12. Represents(par2, nxt2, chd2, ks)
  BY <1>8, <1>9, <1>10, <1>11 DEF Represents
<1>13. KidsWith(kids, o, p) = ks
  BY DEF KidsWith, ks
<1>. QED  BY <1>3, <1>12, <1>13 DEF par2, nxt2, chd2

-----------------------------------------------------------------------------
(* The invariant *)

LEMMA ZeroRecord == 0 \in Record /\ Objects \subseteq Record
BY ObjectTreeAssumption DEF Record, Objects

LEMMA RemovedTypes ==
  ASSUME TypeOK, NEW o \in Objects,
         parent[o] = 0 \/ IsFirstChild(o) \/ Before(o) \in Record
  PROVE  /\ ParentRemoved(o) \in [Record -> Record]
         /\ NextRemoved(o) \in [Record -> Record]
         /\ ChildRemoved(o) \in [Record -> Record]
<1>1. parent[o] \in Record /\ next[o] \in Record /\ o \in Record /\ 0 \in Record
  BY ZeroRecord DEF TypeOK
<1>2. ParentRemoved(o) \in [Record -> Record]
  BY <1>1 DEF TypeOK, ParentRemoved
<1>3. ChildRemoved(o) \in [Record -> Record]
  BY <1>1 DEF TypeOK, ChildRemoved
<1>4. NextRemoved(o) \in [Record -> Record]
  BY <1>1 DEF TypeOK, NextRemoved
<1>. QED  BY <1>2, <1>3, <1>4

LEMMA RemovableTypes ==
  ASSUME TypeOK, NEW o \in Objects, Removable(o)
  PROVE  /\ ParentRemoved(o) \in [Record -> Record]
         /\ NextRemoved(o) \in [Record -> Record]
         /\ ChildRemoved(o) \in [Record -> Record]
         /\ ParentRemoved(o)[o] = 0
<1>1. WalkEnds(o) => Before(o) \in Record
  BY DEF WalkEnds, Before, Visited
<1>2. ParentRemoved(o)[o] = 0
  BY DEF TypeOK, ParentRemoved, Objects, Record
<1>. QED  BY <1>1, <1>2, RemovedTypes DEF Removable

LEMMA RemoveStep ==
  ASSUME Inv, status = "run", NEW o \in Objects, z_remove_obj(o)
  PROVE  Inv'
<1>1. PICK kids \in Kids : Represents(parent, next, child, kids)
  BY DEF Inv
<1>2. Removable(o) /\ \E ks \in Kids :
        Represents(ParentRemoved(o), NextRemoved(o), ChildRemoved(o), ks)
  BY <1>1, RemovalRepresents DEF Inv
<1>3. ~ Stops({o})
  BY DEF Stops, Objects
<1>4. /\ parent' = ParentRemoved(o)
      /\ next' = NextRemoved(o)
      /\ child' = ChildRemoved(o)
      /\ UNCHANGED <<attributes, result, status>>
  BY <1>2, <1>3 DEF z_remove_obj
<1>5. TypeOK'
  BY <1>2, <1>4, RemovableTypes DEF Inv, TypeOK
<1>. QED  BY <1>2, <1>4, <1>5 DEF Inv, WalksEnd

LEMMA InsertStep ==
  ASSUME Inv, status = "run", NEW o \in Objects, NEW p \in Objects, z_insert_obj(o, p)
  PROVE  Inv'
<1>. DEFINE par == ParentRemoved(o)
            nxt == NextRemoved(o)
            chd == ChildRemoved(o)
<1>1. PICK kids \in Kids : Represents(parent, next, child, kids)
  BY DEF Inv
<1>2. PICK kids2 \in Kids : Removable(o) /\ Represents(par, nxt, chd, kids2)
  BY <1>1, RemovalRepresents DEF Inv
<1>3. ~ Stops({o, p})
  BY DEF Stops, Objects
<1>4. /\ parent' = [par EXCEPT ![o] = p]
      /\ next' = IF chd[p] = 0 THEN nxt ELSE [nxt EXCEPT ![o] = chd[p]]
      /\ child' = [chd EXCEPT ![p] = o]
      /\ UNCHANGED <<attributes, result, status>>
  BY <1>2, <1>3 DEF z_insert_obj
<1>5. /\ par \in [Record -> Record] /\ nxt \in [Record -> Record]
      /\ chd \in [Record -> Record] /\ par[o] = 0
  BY <1>2, RemovableTypes DEF Inv
<1>6. TypeOK'
  BY <1>4, <1>5 DEF Inv, TypeOK, Objects, Record
<1>. HIDE DEF par, nxt, chd
<1>7. /\ KidsWith(kids2, o, p) \in Kids
      /\ Represents([par EXCEPT ![o] = p],
                    IF chd[p] = 0 THEN nxt ELSE [nxt EXCEPT ![o] = chd[p]],
                    [chd EXCEPT ![p] = o], KidsWith(kids2, o, p))
  BY <1>2, <1>5, LinkingRepresents
<1>. QED  BY <1>4, <1>6, <1>7 DEF Inv, WalksEnd

\* The other operations leave the links alone.
LEMMA UnchangedLinks ==
  ASSUME Inv, TypeOK', UNCHANGED links, UNCHANGED status
  PROVE  Inv'
BY DEF Inv, links, WalksEnd

LEMMA GivesStep ==
  ASSUME Inv, NEW o \in Objects, NEW value \in Record, NEW jumps \in BOOLEAN,
         Gives(o, value, jumps)
  PROVE  Inv'
<1>1. ~ Stops({o}) /\ o # 0
  BY DEF Stops, Objects
<1>2. result' = <<value, jumps>> /\ UNCHANGED <<links, attributes, status>>
  BY <1>1 DEF Gives
<1>3. TypeOK' /\ UNCHANGED links
  BY <1>2 DEF Inv, TypeOK, links
<1>. QED  BY <1>2, <1>3, UnchangedLinks

LEMMA JinStep ==
  ASSUME Inv, NEW o \in Objects, NEW p, z_jin(o, p)
  PROVE  Inv'
<1>1. ~ Stops({o})
  BY DEF Stops, Objects
<1>2. \E b \in BOOLEAN : result' = <<0, b>>
  BY <1>1 DEF z_jin
<1>3. UNCHANGED <<links, attributes, status>>
  BY <1>1 DEF z_jin
<1>4. TypeOK' /\ UNCHANGED links
  BY <1>2, <1>3, ZeroRecord DEF Inv, TypeOK, links
<1>. QED  BY <1>3, <1>4, UnchangedLinks

LEMMA AttributeStep ==
  ASSUME Inv, NEW o \in Objects, NEW s \in SUBSET Attributes, Attribute(o, s)
  PROVE  Inv'
<1>1. ~ Stops({o}) /\ o # 0 /\ o \in Record
  BY DEF Stops, Objects, Record
<1>2. attributes' = [attributes EXCEPT ![o] = s] /\ UNCHANGED <<links, result, status>>
  BY <1>1 DEF Attribute
<1>3. TypeOK' /\ UNCHANGED links
  BY <1>1, <1>2 DEF Inv, TypeOK, links
<1>. QED  BY <1>2, <1>3, UnchangedLinks

\* An object 0 the story is stopped for.
LEMMA ZeroStep ==
  ASSUME Inv, ReportIsFatal, NEW o, NEW p, NEW a,
         \/ z_insert_obj(o, p) /\ (o = 0 \/ p = 0)
         \/ o = 0 /\ \/ z_remove_obj(o) \/ z_jin(o, p)
                     \/ z_get_parent(o) \/ z_get_child(o) \/ z_get_sibling(o)
                     \/ z_test_attr(o, a) \/ z_set_attr(o, a) \/ z_clear_attr(o, a)
  PROVE  Inv'
<1>1. Stops({o}) \/ Stops({o, p})
  BY DEF Stops
<1>2. Fatal
  <2>1. CASE z_insert_obj(o, p) /\ (o = 0 \/ p = 0)
    BY <2>1 DEF z_insert_obj, Stops
  <2>2. CASE o = 0 /\ ~ z_insert_obj(o, p)
    <3>1. Stops({o})
      BY <2>2 DEF Stops
    <3>. QED  BY <2>2, <3>1 DEF z_remove_obj, z_jin, z_get_parent, z_get_child,
                z_get_sibling, z_test_attr, z_set_attr, z_clear_attr, Gives, Attribute
  <2>. QED  BY <2>1, <2>2
<1>. QED  BY <1>2 DEF Fatal, Inv, TypeOK, links, WalksEnd

LEMMA NextInv == NoObjectZero /\ Inv /\ [Next]_vars => Inv'
<1>. SUFFICES ASSUME NoObjectZero, Inv, [Next]_vars  PROVE Inv'
  OBVIOUS
<1>1. CASE UNCHANGED vars
  <2>1. TypeOK' /\ UNCHANGED links /\ UNCHANGED status
    BY <1>1 DEF vars, Inv, TypeOK, links
  <2>. QED  BY <2>1, UnchangedLinks
<1>2. ASSUME NEW o \in Objects, status = "run", z_remove_obj(o)  PROVE Inv'
  BY <1>2, RemoveStep
<1>3. ASSUME NEW o \in Objects, NEW p \in Objects, status = "run", z_insert_obj(o, p)
      PROVE  Inv'
  BY <1>3, InsertStep
<1>4. ASSUME NEW o \in Objects, z_get_parent(o) \/ z_get_child(o) \/ z_get_sibling(o)
      PROVE  Inv'
  <2>1. parent[o] \in Record /\ child[o] \in Record /\ next[o] \in Record
    BY DEF Inv, TypeOK, Objects, Record
  <2>. QED  BY <1>4, <2>1, GivesStep DEF z_get_parent, z_get_child, z_get_sibling
<1>5. ASSUME NEW o \in Objects, NEW a \in Attributes,
             z_test_attr(o, a) \/ z_set_attr(o, a) \/ z_clear_attr(o, a)
      PROVE  Inv'
  <2>1. attributes[o] \in SUBSET Attributes /\ 0 \in Record
    BY ZeroRecord DEF Inv, TypeOK
  <2>2. (attributes[o] \cup {a}) \in SUBSET Attributes
        /\ (attributes[o] \ {a}) \in SUBSET Attributes
    BY <2>1
  <2>3. CASE z_test_attr(o, a)
    <3>1. (a \in attributes[o]) \in BOOLEAN
      OBVIOUS
    <3>. QED  BY <2>1, <2>3, <3>1, GivesStep DEF z_test_attr
  <2>4. CASE z_set_attr(o, a)
    BY <2>2, <2>4, AttributeStep DEF z_set_attr
  <2>5. CASE z_clear_attr(o, a)
    BY <2>2, <2>5, AttributeStep DEF z_clear_attr
  <2>. QED  BY <1>5, <2>3, <2>4, <2>5
<1>6. ASSUME NEW o \in Objects, NEW p, z_jin(o, p)  PROVE Inv'
  BY <1>6, JinStep
<1>7. CASE Next
  <2>1. PICK o \in Operands :
          \/ z_remove_obj(o)
          \/ z_get_parent(o) \/ z_get_child(o) \/ z_get_sibling(o)
          \/ \E p \in Operands : z_insert_obj(o, p) \/ z_jin(o, p)
          \/ \E a \in Attributes : z_test_attr(o, a) \/ z_set_attr(o, a) \/ z_clear_attr(o, a)
    BY <1>7 DEF Next
  <2>2. status = "run"
    BY <1>7 DEF Next
  <2>3. \A q \in Operands : q \in Objects \/ (q = 0 /\ ReportIsFatal)
    <3>1. \A q \in Record : q \in Objects \/ q = 0
      BY DEF Objects, Record
    <3>2. Operands \subseteq Record
      BY ObjectTreeAssumption
    <3>. SUFFICES ASSUME NEW q \in Operands, q \notin Objects
                  PROVE  q = 0 /\ ReportIsFatal
      BY Zenon
    <3>3. q = 0
      BY <3>1, <3>2
    <3>4. ReportIsFatal
      BY Zenon DEF NoObjectZero
    <3>. QED  BY <3>3, <3>4, Zenon
  <2>4. CASE \E p \in Operands : z_insert_obj(o, p)
    BY <1>3, <2>2, <2>3, <2>4, ZeroStep
  <2>5. CASE o \in Objects
    BY <1>2, <1>4, <1>5, <1>6, <2>1, <2>2, <2>4, <2>5
  <2>6. CASE o = 0 /\ ReportIsFatal
    BY <2>1, <2>4, <2>6, ZeroStep
  <2>. QED  BY <2>3, <2>5, <2>6
<1>. QED  BY <1>1, <1>7

-----------------------------------------------------------------------------
(* The story file *)

LEMMA StoryRepresented ==
  ASSUME Init
  PROVE  TypeOK /\ StoryKids \in Kids /\ Represents(parent, next, child, StoryKids)
<1>1. StoryKids \in Kids /\ Listed(StoryKids)
  BY ObjectTreeAssumption DEF Kids
<1>2. \A q \in Objects : /\ Len(StoryKids[q]) \in Nat
                         /\ \A i \in 1 .. Len(StoryKids[q]) : StoryKids[q][i] \in Objects
  BY <1>1, SeqParts DEF Kids
<1>3. \A o \in Objects :
        \/ StoryParent(o) = 0 /\ \A p \in Objects : ~ StoryHas(p, o)
        \/ StoryParent(o) \in Objects /\ StoryHas(StoryParent(o), o)
  BY DEF StoryParent
<1>4. \A p \in Objects : \A i \in 1 .. Len(StoryKids[p]) : StoryParent(StoryKids[p][i]) = p
  <2>. SUFFICES ASSUME NEW p \in Objects, NEW i \in 1 .. Len(StoryKids[p])
                PROVE  StoryParent(StoryKids[p][i]) = p
    OBVIOUS
  <2>1. StoryKids[p][i] \in Objects /\ StoryHas(p, StoryKids[p][i])
    BY <1>2 DEF StoryHas
  <2>2. StoryParent(StoryKids[p][i]) \in Objects
        /\ StoryHas(StoryParent(StoryKids[p][i]), StoryKids[p][i])
    BY <1>3, <2>1
  <2>. QED  BY <1>1, <2>2 DEF StoryHas, Listed
<1>5. \A p \in Objects : \A i \in 1 .. Len(StoryKids[p]) :
        StoryNext(StoryKids[p][i]) = IF i = Len(StoryKids[p]) THEN 0 ELSE StoryKids[p][i + 1]
  <2>. SUFFICES ASSUME NEW p \in Objects, NEW i \in 1 .. Len(StoryKids[p])
                PROVE  StoryNext(StoryKids[p][i])
                         = IF i = Len(StoryKids[p]) THEN 0 ELSE StoryKids[p][i + 1]
    OBVIOUS
  <2>1. StoryParent(StoryKids[p][i]) = p /\ p # 0
    BY <1>4 DEF Objects
  <2>2. \A j \in 1 .. Len(StoryKids[p]) : StoryKids[p][j] = StoryKids[p][i] => j = i
    BY <1>1 DEF Listed
  <2>. DEFINE o == StoryKids[p][i]
  <2>3. StoryParent(o) = p
    BY <2>1
  <2>4. /\ i \in 1 .. Len(StoryKids[StoryParent(o)])
        /\ StoryKids[StoryParent(o)][i] = o
        /\ \A j \in 1 .. Len(StoryKids[StoryParent(o)]) :
              StoryKids[StoryParent(o)][j] = o => j = i
    BY <2>2, <2>3
  <2>5. StoryPlace(o) = i
    <3>. HIDE DEF o
    <3>. QED  BY <2>4 DEF StoryPlace
  <2>6. StoryNext(o) = IF i = Len(StoryKids[p]) THEN 0 ELSE StoryKids[p][i + 1]
    <3>1. p # 0
      BY <2>1
    <3>. HIDE DEF o
    <3>. QED  BY <3>1, <2>3, <2>5 DEF StoryNext
  <2>. QED  BY <2>6
<1>6. \A o \in Objects : StoryNext(o) \in Record /\ (StoryParent(o) = 0 => StoryNext(o) = 0)
  <2>. SUFFICES ASSUME NEW o \in Objects, StoryParent(o) # 0
                PROVE  StoryNext(o) \in Record
    BY ZeroRecord DEF StoryNext
  <2>1. StoryParent(o) \in Objects /\ StoryHas(StoryParent(o), o)
    BY <1>3
  <2>2. PICK i \in 1 .. Len(StoryKids[StoryParent(o)]) : StoryKids[StoryParent(o)][i] = o
    BY <2>1 DEF StoryHas
  <2>3. StoryNext(o) = IF i = Len(StoryKids[StoryParent(o)]) THEN 0
                       ELSE StoryKids[StoryParent(o)][i + 1]
    BY <1>5, <2>1, <2>2
  <2>4. i # Len(StoryKids[StoryParent(o)]) => StoryKids[StoryParent(o)][i + 1] \in Objects
    BY <1>2, <2>1
  <2>. QED  BY <2>3, <2>4, ZeroRecord
<1>7. TypeOK
  <2>1. Default.parent \in Record /\ Default.next \in Record /\ Default.child \in Record
    BY ObjectTreeAssumption
  <2>2. \A o \in Record : o = 0 \/ o \in Objects
    BY DEF Record, Objects
  <2>3. 0 \in Record /\ Objects \subseteq Record
    BY ZeroRecord
  <2>4. parent \in [Record -> Record]
    BY <1>3, <2>1, <2>2, <2>3 DEF Init
  <2>5. next \in [Record -> Record]
    BY <1>6, <2>1, <2>2 DEF Init
  <2>6. \A o \in Objects : Len(StoryKids[o]) # 0 => StoryKids[o][1] \in Objects
    BY <1>2
  <2>7. child \in [Record -> Record]
    BY <2>1, <2>2, <2>3, <2>6 DEF Init
  <2>8. /\ attributes \in [Record -> SUBSET Attributes]
        /\ result \in Record \X BOOLEAN
        /\ status \in {"run", "fatal", "lost"}
    BY <2>3 DEF Init
  <2>. QED  BY <2>4, <2>5, <2>7, <2>8 DEF TypeOK
<1>8. \A o \in Objects : /\ parent[o] = StoryParent(o)
                         /\ next[o] = StoryNext(o)
                         /\ child[o] = IF Len(StoryKids[o]) = 0 THEN 0 ELSE StoryKids[o][1]
  BY DEF Init, Record, Objects
<1>9. Represents(parent, next, child, StoryKids)
  <2>1. \A o \in Objects : parent[o] # 0 =>
          \E i \in 1 .. Len(StoryKids[parent[o]]) : StoryKids[parent[o]][i] = o
    BY <1>3, <1>8 DEF StoryHas
  <2>2. \A p \in Objects : \A i \in 1 .. Len(StoryKids[p]) :
          /\ parent[StoryKids[p][i]] = p
          /\ next[StoryKids[p][i]]
               = IF i = Len(StoryKids[p]) THEN 0 ELSE StoryKids[p][i + 1]
    BY <1>2, <1>4, <1>5, <1>8
  <2>. QED  BY <1>1, <1>6, <1>8, <2>1, <2>2 DEF Represents
<1>. QED  BY <1>1, <1>7, <1>9

LEMMA InitInv == Init => Inv
BY StoryRepresented DEF Inv, WalksEnd, Init

-----------------------------------------------------------------------------
(* Theorems *)

\* Unless the story goes on after passing an object 0: in every state some sequences of
\* children are what the links represent.
THEOREM LinksRepresentKids == NoObjectZero => (Spec => []Inv)
<1>. SUFFICES ASSUME NoObjectZero  PROVE Spec => []Inv
  OBVIOUS
<1>1. Inv /\ [Next]_vars => Inv'  BY NextInv
<1>. QED  BY InitInv, <1>1, PTL DEF Spec

LEMMA RepresentedAgree ==
  ASSUME TypeOK, NEW kids \in Kids, Represents(parent, next, child, kids)
  PROVE  LinksAgree
<1>1. \A p \in Objects : /\ p # 0
                        /\ Len(kids[p]) \in Nat
                        /\ \A i \in 1 .. Len(kids[p]) : kids[p][i] \in Objects
  <2>. SUFFICES ASSUME NEW p \in Objects
                PROVE  /\ p # 0 /\ Len(kids[p]) \in Nat
                       /\ \A i \in 1 .. Len(kids[p]) : kids[p][i] \in Objects
    OBVIOUS
  <2>1. kids[p] \in Seq(Objects)
    BY DEF Kids
  <2>2. p # 0
    BY DEF Objects
  <2>. QED  BY <2>1, <2>2, SeqParts
<1>2. \A o \in Objects : parent[o] # 0 => parent[o] \in Objects
  BY DEF TypeOK, Objects, Record
<1>3. \A o \in Objects : child[o] # 0 => parent[child[o]] = o
  BY <1>1 DEF Represents
\* A next sibling is the next one in the sequence of the parent.
<1>4. ASSUME NEW x \in Objects, next[x] # 0
      PROVE  /\ parent[x] \in Objects
             /\ \E i \in 1 .. Len(kids[parent[x]]) :
                  /\ kids[parent[x]][i] = x
                  /\ i + 1 \in 1 .. Len(kids[parent[x]])
                  /\ kids[parent[x]][i + 1] = next[x]
  <2>1. parent[x] \in Objects
    BY <1>2, <1>4 DEF Represents
  <2>2. PICK i \in 1 .. Len(kids[parent[x]]) : kids[parent[x]][i] = x
    BY <1>1, <2>1 DEF Represents
  <2>3. next[x] = IF i = Len(kids[parent[x]]) THEN 0 ELSE kids[parent[x]][i + 1]
    BY <2>1, <2>2 DEF Represents
  <2>4. i + 1 \in 1 .. Len(kids[parent[x]])
    BY <1>1, <1>4, <2>1, <2>3
  <2>. QED  BY <1>4, <2>1, <2>2, <2>3, <2>4
<1>5. ASSUME NEW o \in Objects, next[o] # 0
      PROVE  parent[next[o]] = parent[o] /\ parent[o] # 0
  <2>. DEFINE p == parent[o]
  <2>1. p \in Objects /\ p # 0
    BY <1>1, <1>4, <1>5
  <2>2. PICK j \in 1 .. Len(kids[p]) : kids[p][j] = next[o]
    BY <1>4, <1>5
  <2>. HIDE DEF p
  <2>3. parent[kids[p][j]] = p
    BY <2>1 DEF Represents
  <2>. QED  BY <2>1, <2>2, <2>3 DEF p
<1>6. ASSUME NEW o \in Objects, parent[o] # 0, child[parent[o]] = o,
             NEW x \in Objects, next[x] = o
      PROVE  FALSE
  <2>1. parent[o] \in Objects /\ o # 0
    BY <1>1, <1>2, <1>6
  <2>2. Len(kids[parent[o]]) # 0 /\ kids[parent[o]][1] = o
    BY <1>6, <2>1 DEF Represents
  <2>3. 1 \in 1 .. Len(kids[parent[o]])
    BY <1>1, <2>1, <2>2
  <2>4. parent[x] \in Objects
    BY <1>4, <1>6, <2>1
  <2>5. PICK i \in 1 .. Len(kids[parent[x]]) :
          i + 1 \in 1 .. Len(kids[parent[x]]) /\ kids[parent[x]][i + 1] = o
    BY <1>4, <1>6, <2>1
  <2>6. i + 1 = 1
    BY <2>1, <2>2, <2>3, <2>4, <2>5 DEF Represents, Listed
  <2>. QED  BY <2>6
<1>7. ASSUME NEW o \in Objects, parent[o] # 0, child[parent[o]] # o
      PROVE  \E x \in Objects : next[x] = o
  <2>1. parent[o] \in Objects
    BY <1>2, <1>7
  <2>2. PICK i \in 1 .. Len(kids[parent[o]]) : kids[parent[o]][i] = o
    BY <1>7, <2>1 DEF Represents
  <2>3. i # 1
    BY <1>1, <1>7, <2>1, <2>2 DEF Represents
  <2>4. i - 1 \in 1 .. Len(kids[parent[o]]) /\ i - 1 # Len(kids[parent[o]])
        /\ (i - 1) + 1 = i
    BY <1>1, <2>1, <2>3
  <2>5. next[kids[parent[o]][i - 1]] = o
    BY <2>1, <2>2, <2>4 DEF Represents
  <2>. QED  BY <1>1, <2>1, <2>4, <2>5
<1>8. ASSUME NEW o \in Objects, NEW x \in Objects, NEW y \in Objects,
             next[x] = o, next[y] = o
      PROVE  y = x
  <2>1. o # 0
    BY <1>1
  <2>2. PICK i \in 1 .. Len(kids[parent[x]]) :
          /\ kids[parent[x]][i] = x /\ i + 1 \in 1 .. Len(kids[parent[x]])
          /\ kids[parent[x]][i + 1] = o
    BY <1>4, <1>8, <2>1
  <2>3. PICK j \in 1 .. Len(kids[parent[y]]) :
          /\ kids[parent[y]][j] = y /\ j + 1 \in 1 .. Len(kids[parent[y]])
          /\ kids[parent[y]][j + 1] = o
    BY <1>4, <1>8, <2>1
  <2>4. parent[x] \in Objects /\ parent[y] \in Objects
    BY <1>4, <1>8, <2>1
  <2>5. parent[x] = parent[y] /\ i + 1 = j + 1
    BY <2>2, <2>3, <2>4 DEF Represents, Listed
  <2>6. i = j
    BY <2>5
  <2>. QED  BY <2>2, <2>3, <2>5, <2>6
<1>. QED  BY <1>3, <1>5, <1>6, <1>7, <1>8 DEF LinksAgree

\* No insertion or removal leaves an object half linked.
THEOREM LinksAlwaysAgree == NoObjectZero => (Spec => []LinksAgree)
<1>1. Inv => LinksAgree  BY RepresentedAgree DEF Inv
<1>. QED  BY <1>1, LinksRepresentKids, PTL

\* The type invariant, as the runs check it.
THEOREM TypeCorrect == NoObjectZero => (Spec => []TypeOK)
<1>1. Inv => TypeOK  BY DEF Inv
<1>. QED  BY <1>1, LinksRepresentKids, PTL

\* The loop of remove_obj always finds the object it is looking for.
THEOREM WalksAlwaysEnd == NoObjectZero => (Spec => []WalksEnd)
<1>1. Inv => WalksEnd  BY DEF Inv
<1>. QED  BY <1>1, LinksRepresentKids, PTL
-----------------------------------------------------------------------------
(* The children of an object, found by following the links *)

LEMMA SuffixFrom ==
  ASSUME NEW S, NEW s \in Seq(S), NEW i \in 1 .. Len(s)
  PROVE  <<s[i]>> \o SubSeq(s, i + 1, Len(s)) = SubSeq(s, i, Len(s))
OBVIOUS

LEMMA WholeSequence ==
  ASSUME NEW S, NEW s \in Seq(S)
  PROVE  SubSeq(s, 1, Len(s)) = s
OBVIOUS

LEMMA SameElements ==
  ASSUME NEW S, NEW s \in Seq(S), NEW t \in Seq(S), Len(s) = Len(t),
         \A i \in 1 .. Len(s) : s[i] = t[i]
  PROVE  s = t
OBVIOUS

LEMMA ConcatParts ==
  ASSUME NEW S, NEW s \in Seq(S), NEW t \in Seq(S)
  PROVE  /\ s \o t \in Seq(S) /\ Len(s \o t) = Len(s) + Len(t)
         /\ \A i \in 1 .. Len(s) + Len(t) :
              (s \o t)[i] = IF i <= Len(s) THEN s[i] ELSE t[i - Len(s)]
OBVIOUS

LEMMA SuffixParts ==
  ASSUME NEW S, NEW s \in Seq(S), NEW k \in 1 .. Len(s), k # Len(s)
  PROVE  SubSeq(s, k + 1, Len(s)) # <<>> /\ Head(SubSeq(s, k + 1, Len(s))) = s[k + 1]
<1>. DEFINE t == SubSeq(s, k + 1, Len(s))
<1>1. t \in Seq(S) /\ Len(t) = Len(s) - k /\ \A i \in 1 .. Len(s) - k : t[i] = s[i + k]
  OBVIOUS
<1>2. Len(s) - k \in Nat \ {0} /\ 1 \in 1 .. Len(s) - k /\ 1 + k = k + 1
  BY SeqParts
<1>. HIDE DEF t
<1>3. t # <<>> /\ Head(t) = t[1]
  BY <1>1, <1>2
<1>. QED  BY <1>1, <1>2, <1>3 DEF t

LEMMA ConsIsConcat ==
  ASSUME NEW S, NEW s \in Seq(S), NEW o \in S
  PROVE  Cons(o, s) = <<o>> \o s
<1>1. <<o>> \o s \in Seq(S) /\ Len(<<o>> \o s) = Len(s) + 1
      /\ \A i \in 1 .. Len(s) + 1 : (<<o>> \o s)[i] = IF i = 1 THEN o ELSE s[i - 1]
  OBVIOUS
<1>2. /\ Cons(o, s) \in Seq(S) /\ Len(Cons(o, s)) = Len(s) + 1
      /\ \A i \in 1 .. Len(s) + 1 : Cons(o, s)[i] = IF i = 1 THEN o ELSE s[i - 1]
  BY ConsIsSeq
<1>. DEFINE a == <<o>> \o s
            b == Cons(o, s)
<1>. HIDE DEF a, b
<1>. QED  BY <1>1, <1>2, SameElements DEF a, b

LEMMA DroppedIsConcat ==
  ASSUME NEW S, NEW s \in Seq(S), NEW k \in 1 .. Len(s)
  PROVE  Dropped(s, k) = SubSeq(s, 1, k - 1) \o SubSeq(s, k + 1, Len(s))
<1>. DEFINE a == SubSeq(s, 1, k - 1)
            b == SubSeq(s, k + 1, Len(s))
<1>1. a \in Seq(S) /\ Len(a) = k - 1 /\ \A i \in 1 .. k - 1 : a[i] = s[i]
  OBVIOUS
<1>2. b \in Seq(S) /\ Len(b) = Len(s) - k /\ \A i \in 1 .. Len(s) - k : b[i] = s[i + k]
  OBVIOUS
<1>. HIDE DEF a, b
<1>3. a \o b \in Seq(S) /\ Len(a \o b) = Len(s) - 1
      /\ \A i \in 1 .. Len(s) - 1 : (a \o b)[i] = IF i < k THEN s[i] ELSE s[i + 1]
  <2>1. Len(s) \in Nat /\ k \in 1 .. Len(s)
    BY SeqParts
  <2>2. a \o b \in Seq(S) /\ Len(a \o b) = Len(s) - 1
    <3>1. Len(a \o b) = Len(a) + Len(b) /\ a \o b \in Seq(S)
      BY <1>1, <1>2, ConcatParts
    <3>2. (k - 1) + (Len(s) - k) = Len(s) - 1
      BY <2>1
    <3>. QED  BY <1>1, <1>2, <3>1, <3>2
  <2>3. ASSUME NEW i \in 1 .. Len(s) - 1
        PROVE  (a \o b)[i] = IF i < k THEN s[i] ELSE s[i + 1]
    <3>1. (a \o b)[i] = IF i <= Len(a) THEN a[i] ELSE b[i - Len(a)]
      BY <1>1, <1>2, <2>1
    <3>2. CASE i < k
      <4>1. i \in 1 .. k - 1 /\ i <= k - 1
        BY <2>1, <3>2
      <4>. QED  BY <1>1, <3>1, <3>2, <4>1
    <3>3. CASE ~ (i < k)
      <4>1. i - (k - 1) \in 1 .. Len(s) - k /\ i - (k - 1) + k = i + 1 /\ ~ (i <= k - 1)
        BY <2>1, <3>3
      <4>. QED  BY <1>1, <1>2, <3>1, <3>3, <4>1
    <3>. QED  BY <3>2, <3>3
  <2>. QED  BY <2>2, <2>3
<1>4. /\ Dropped(s, k) \in Seq(S) /\ Len(Dropped(s, k)) = Len(s) - 1
      /\ \A i \in 1 .. Len(s) - 1 : Dropped(s, k)[i] = IF i < k THEN s[i] ELSE s[i + 1]
  BY DroppedIsSeq
<1>. DEFINE c == a \o b
            d == Dropped(s, k)
<1>. HIDE DEF c, d
<1>5. c = d
  BY <1>3, <1>4, SameElements DEF c, d
<1>. QED  BY <1>5 DEF a, b, c, d

\* The chains of at most m objects, as Chains defines them.
IsChains(from, nxt, m) ==
    from = [k \in 0 .. m |->
              [c \in Record |-> IF k = 0 \/ c = 0 THEN <<>> ELSE <<c>> \o from[k - 1][nxt[c]]]]

\* The recursive function of Chains exists.
LEMMA ChainsExist ==
  ASSUME NEW nxt
  PROVE  \E from : IsChains(from, nxt, NumObjects)
<1>. DEFINE S == {i \in Nat \ {0} : \E from : IsChains(from, nxt, i - 1)}
<1>1. 1 \in S
  <2>. DEFINE from == [k \in 0 .. 0 |-> [c \in Record |-> <<>>]]
  <2>1. IsChains(from, nxt, 0)
    BY DEF IsChains
  <2>. HIDE DEF from
  <2>. QED  BY <2>1
<1>2. ASSUME NEW i \in 1 .. NumObjects, i \in S
      PROVE  i + 1 \in S
  <2>1. PICK f : IsChains(f, nxt, i - 1)
    BY <1>2
  <2>. DEFINE row(h, k) == [c \in Record |-> IF k = 0 \/ c = 0 THEN <<>>
                                             ELSE <<c>> \o h[k - 1][nxt[c]]]
              g == [k \in 0 .. i |-> row(f, k)]
  <2>2. f = [k \in 0 .. i - 1 |-> row(f, k)]
    BY <2>1 DEF IsChains
  <2>3. \A k \in 0 .. i : row(g, k) = row(f, k)
    <3>. SUFFICES ASSUME NEW k \in 0 .. i, k # 0
                  PROVE  g[k - 1] = f[k - 1]
      <4>. HIDE DEF g
      <4>. QED  OBVIOUS
    <3>. HIDE DEF row
    <3>1. k - 1 \in 0 .. i - 1 /\ k - 1 \in 0 .. i
      OBVIOUS
    <3>. QED  BY <2>2, <3>1
  <2>4. g = [k \in 0 .. i |->
               [c \in Record |-> IF k = 0 \/ c = 0 THEN <<>> ELSE <<c>> \o g[k - 1][nxt[c]]]]
    <3>1. g = [k \in 0 .. i |-> row(f, k)]
      OBVIOUS
    <3>. HIDE DEF row, g
    <3>2. g = [k \in 0 .. i |-> row(g, k)]
      BY <2>3, <3>1
    <3>. QED  BY <3>2 DEF row
  <2>. HIDE DEF row
  <2>5. IsChains(g, nxt, i)
    BY <2>4 DEF IsChains
  <2>6. i + 1 \in Nat \ {0} /\ i + 1 - 1 = i
    OBVIOUS
  <2>. QED  BY <2>5, <2>6
<1>. DEFINE m == NumObjects + 1
<1>3. m \in Nat /\ m - 1 = NumObjects /\ m \in 1 .. m
  BY ObjectTreeAssumption
<1>. HIDE DEF m
<1>4. m \in S
  <2>. HIDE DEF S
  <2>1. \A i \in 1 .. m - 1 : i \in S => i + 1 \in S
    BY <1>2, <1>3
  <2>. QED  BY <1>1, <1>3, <2>1, LeastIndex
<1>. QED  BY <1>3, <1>4

LEMMA ChainsStep ==
  ASSUME NEW nxt, NEW k \in Record, NEW c \in Record
  PROVE  Chains(nxt)[k][c]
           = IF k = 0 \/ c = 0 THEN <<>> ELSE <<c>> \o Chains(nxt)[k - 1][nxt[c]]
<1>. DEFINE u == CHOOSE from : IsChains(from, nxt, NumObjects)
<1>1. IsChains(u, nxt, NumObjects)
  BY ChainsExist
<1>2. Chains(nxt) = u
  BY DEF Chains, IsChains, Record
<1>. HIDE DEF u
<1>3. u[k][c] = IF k = 0 \/ c = 0 THEN <<>> ELSE <<c>> \o u[k - 1][nxt[c]]
  <2>. DEFINE row(h, j) == [x \in Record |-> IF j = 0 \/ x = 0 THEN <<>>
                                             ELSE <<x>> \o h[j - 1][nxt[x]]]
  <2>1. u = [j \in 0 .. NumObjects |-> row(u, j)]
    BY <1>1 DEF IsChains
  <2>2. u[k] = row(u, k)
    <3>. HIDE DEF row
    <3>. QED  BY <2>1 DEF Record
  <2>. QED  BY <2>2
<1>. QED  BY <1>2, <1>3

\* No object is in a sequence twice, so none is longer than there are objects.
LEMMA FewKids ==
  ASSUME NEW kids \in Kids, Listed(kids), NEW p \in Objects
  PROVE  Len(kids[p]) \in Nat /\ Len(kids[p]) <= NumObjects
<1>. DEFINE n == Len(kids[p])
            I == 1 .. n
<1>1. /\ n \in Nat /\ NumObjects \in Nat
      /\ \A i \in I : kids[p][i] \in Objects
  BY ObjectTreeAssumption, SeqParts DEF Kids
<1>2. \A i, j \in I : kids[p][i] = kids[p][j] => i = j
  BY DEF Listed
<1>. HIDE DEF n
<1>3. IsFiniteSet(I) /\ Cardinality(I) = n
      /\ IsFiniteSet(Objects) /\ Cardinality(Objects) = NumObjects
  BY <1>1, FS_Interval DEF Objects
<1>. DEFINE f == [i \in I |-> kids[p][i]]
<1>4. f \in [I -> Objects]
  BY <1>1
<1>5. ~ (Cardinality(Objects) < Cardinality(I))
  <2>. SUFFICES ASSUME Cardinality(Objects) < Cardinality(I)
                PROVE  FALSE
    OBVIOUS
  <2>. HIDE DEF f, I
  <2>1. \E x, y \in I : x # y /\ f[x] = f[y]
    BY <1>3, <1>4, FS_PigeonHole
  <2>. QED  BY <1>2, <2>1 DEF f
<1>. QED  BY <1>1, <1>3, <1>5 DEF n

\* Following the links finds the children they represent.
LEMMA KidsFound ==
  ASSUME NEW par, NEW nxt, NEW chd, NEW kids \in Kids, Represents(par, nxt, chd, kids),
         NEW p \in Objects
  PROVE  KidsOf(nxt, chd, p) = kids[p]
<1>. DEFINE s == kids[p]
            n == Len(s)
            ch == Chains(nxt)
            S == {k \in Nat \ {0} :
                    \A i \in 1 .. n : i + k - 1 > n => ch[k - 1][s[i]] = SubSeq(s, i, n)}
<1>1. /\ s \in Seq(Objects) /\ n \in Nat /\ n <= NumObjects /\ NumObjects \in Nat
      /\ \A i \in 1 .. n : s[i] \in Objects
  BY FewKids, SeqParts, ObjectTreeAssumption DEF Represents, Kids
<1>2. \A i \in 1 .. n : nxt[s[i]] = IF i = n THEN 0 ELSE s[i + 1]
  BY DEF Represents
<1>3. chd[p] = IF n = 0 THEN 0 ELSE s[1]
  BY DEF Represents
<1>4. /\ 0 \in Record /\ NumObjects \in Record
      /\ \A k \in 1 .. NumObjects : k \in Record /\ k - 1 \in Record /\ k # 0
      /\ \A i \in 1 .. n : s[i] \in Record /\ s[i] # 0
  <2>1. 0 \in 0 .. NumObjects /\ NumObjects \in 0 .. NumObjects
        /\ \A k \in 1 .. NumObjects : k \in 0 .. NumObjects /\ k - 1 \in 0 .. NumObjects
                                      /\ k # 0
    BY <1>1
  <2>. QED  BY <1>1, <2>1 DEF Record, Objects
<1>. HIDE DEF s, n, ch
<1>5. \A k \in Record : ch[k][0] = <<>>
  BY <1>4, ChainsStep DEF ch
<1>6. 1 \in S
  BY <1>1
<1>7. ASSUME NEW k \in 1 .. NumObjects, k \in S
      PROVE  k + 1 \in S
  <2>1. k + 1 \in Nat \ {0} /\ k + 1 - 1 = k
    BY <1>1
  <2>2. ASSUME NEW i \in 1 .. n, i + k > n
        PROVE  ch[k][s[i]] = SubSeq(s, i, n)
    <3>1. ch[k][s[i]] = <<s[i]>> \o ch[k - 1][nxt[s[i]]]
      BY <1>4, ChainsStep DEF ch
    <3>2. ch[k - 1][nxt[s[i]]] = SubSeq(s, i + 1, n)
      <4>1. CASE i = n
        <5>1. nxt[s[i]] = 0
          BY <1>2, <4>1
        <5>2. ch[k - 1][nxt[s[i]]] = <<>>
          BY <1>4, <1>5, <5>1
        <5>3. SubSeq(s, i + 1, n) = <<>>
          BY <1>1, <4>1
        <5>. QED  BY <5>2, <5>3
      <4>2. CASE i # n
        <5>1. i + 1 \in 1 .. n /\ (i + 1) + k - 1 > n
          BY <1>1, <2>2, <4>2
        <5>2. ch[k - 1][s[i + 1]] = SubSeq(s, i + 1, n)
          BY <1>7, <5>1
        <5>. QED  BY <1>2, <4>2, <5>2
      <4>. QED  BY <4>1, <4>2
    <3>3. <<s[i]>> \o SubSeq(s, i + 1, n) = SubSeq(s, i, n)
      BY <1>1, SuffixFrom DEF n
    <3>. QED  BY <3>1, <3>2, <3>3
  <2>3. \A i \in 1 .. n : i + (k + 1) - 1 > n => ch[k + 1 - 1][s[i]] = SubSeq(s, i, n)
    <3>1. \A i \in 1 .. n : i + (k + 1) - 1 = i + k
      BY <1>1
    <3>. QED  BY <2>1, <2>2, <3>1
  <2>. QED  BY <2>1, <2>3
<1>. DEFINE m == NumObjects + 1
<1>8. m \in Nat /\ m - 1 = NumObjects /\ m \in 1 .. m
       /\ \A i \in 1 .. n : i + m - 1 > n
  BY <1>1
<1>. HIDE DEF m
<1>9. m \in S
  <2>. HIDE DEF S
  <2>1. \A i \in 1 .. m - 1 : i \in S => i + 1 \in S
    BY <1>7, <1>8
  <2>. QED  BY <1>6, <1>8, <2>1, LeastIndex
<1>10. KidsOf(nxt, chd, p) = ch[NumObjects][chd[p]]
  BY DEF KidsOf, ch
<1>11. CASE n = 0
  <2>1. s = <<>>
    BY <1>1, <1>11 DEF n
  <2>. QED  BY <1>3, <1>4, <1>5, <1>10, <1>11, <2>1 DEF s
<1>12. CASE n # 0
  <2>1. 1 \in 1 .. n
    BY <1>1, <1>12
  <2>2. ch[NumObjects][s[1]] = SubSeq(s, 1, n)
    BY <1>9, <1>8, <2>1
  <2>3. SubSeq(s, 1, n) = s
    BY <1>1, WholeSequence DEF n
  <2>. QED  BY <1>3, <1>10, <1>12, <2>2, <2>3 DEF s
<1>. QED  BY <1>11, <1>12
-----------------------------------------------------------------------------
(* The promise of Forest *)

\* The children as Forest sees them.
Found == [p \in Objects |-> KidsOf(next, child, p)]

LEMMA FoundIs ==
  ASSUME NEW par, NEW nxt, NEW chd, NEW kids \in Kids, Represents(par, nxt, chd, kids)
  PROVE  [p \in Objects |-> KidsOf(nxt, chd, p)] = kids
<1>1. \A p \in Objects : KidsOf(nxt, chd, p) = kids[p]
  BY KidsFound
<1>. QED  BY <1>1 DEF Kids

LEMMA FoundRepresents ==
  ASSUME Inv
  PROVE  /\ Found \in Kids /\ Represents(parent, next, child, Found)
         /\ \A p \in Objects : /\ Found[p] \in Seq(Objects) /\ Len(Found[p]) \in Nat
                               /\ DOMAIN Found[p] = 1 .. Len(Found[p])
                               /\ \A i \in 1 .. Len(Found[p]) : Found[p][i] \in Objects
<1>1. PICK kids \in Kids : Represents(parent, next, child, kids)
  BY DEF Inv
<1>2. Found = kids
  BY <1>1, FoundIs DEF Found
<1>3. \A p \in Objects : Found[p] \in Seq(Objects)
  BY <1>2 DEF Kids
<1>. QED  BY <1>1, <1>2, <1>3, SeqParts

\* Where an object is in its family.
LEMMA ObjectFound ==
  ASSUME Inv, NEW o \in Objects
  PROVE  /\ parent[o] = 0 =>
              \A p \in Objects : ~ \E i \in DOMAIN Found[p] : Found[p][i] = o
         /\ parent[o] # 0 =>
              /\ parent[o] \in Objects
              /\ PlaceOf(Found[parent[o]], o) \in 1 .. Len(Found[parent[o]])
              /\ Found[parent[o]][PlaceOf(Found[parent[o]], o)] = o
              /\ \A p \in Objects : \A i \in DOMAIN Found[p] :
                   Found[p][i] = o => p = parent[o] /\ i = PlaceOf(Found[p], o)
<1>. DEFINE K == Found
<1>1. /\ K \in Kids /\ Represents(parent, next, child, K)
      /\ \A p \in Objects : DOMAIN K[p] = 1 .. Len(K[p])
  BY FoundRepresents
<1>. HIDE DEF K
<1>2. \A p \in Objects : \A i \in DOMAIN K[p] : K[p][i] = o => p = parent[o]
  BY <1>1 DEF Represents
<1>3. 0 \notin Objects
  BY DEF Objects
<1>4. CASE parent[o] = 0
  BY <1>2, <1>3, <1>4 DEF K
<1>5. CASE parent[o] # 0
  <2>. DEFINE q == parent[o]
              k == PlaceOf(K[q], o)
  <2>1. q \in Objects /\ \E i \in 1 .. Len(K[q]) : K[q][i] = o
    BY <1>1, <1>5, Place DEF Inv, TypeOK
  <2>2. k \in 1 .. Len(K[q]) /\ K[q][k] = o
    BY <2>1 DEF PlaceOf
  <2>. HIDE DEF k, q
  <2>3. \A p \in Objects : \A i \in DOMAIN K[p] : K[p][i] = o => p = q /\ i = k
    <3>. SUFFICES ASSUME NEW p \in Objects, NEW i \in DOMAIN K[p], K[p][i] = o
                  PROVE  p = q /\ i = k
      OBVIOUS
    <3>1. i \in 1 .. Len(K[p]) /\ K[p][i] = K[q][k]
      BY <1>1, <2>2
    <3>2. Listed(K)
      BY <1>1 DEF Represents
    <3>. QED  BY <2>1, <2>2, <3>1, <3>2 DEF Listed
  <2>. QED  BY <1>5, <2>1, <2>2, <2>3 DEF K, k, q
<1>. QED  BY <1>4, <1>5

LEMMA ParentFound ==
  ASSUME Inv, NEW o \in Objects
  PROVE  Family!ParentOf(o) = parent[o]
<1>1. Family!ParentOf(o)
        = IF \E p \in Objects : \E i \in DOMAIN Found[p] : Found[p][i] = o
          THEN CHOOSE p \in Objects : \E i \in DOMAIN Found[p] : Found[p][i] = o
          ELSE 0
  BY DEF Family!ParentOf, Family!Objects, Objects, Found
<1>2. CASE parent[o] = 0
  BY <1>1, <1>2, ObjectFound
<1>3. CASE parent[o] # 0
  <2>1. /\ parent[o] \in Objects
        /\ \E i \in DOMAIN Found[parent[o]] : Found[parent[o]][i] = o
        /\ \A p \in Objects : (\E i \in DOMAIN Found[p] : Found[p][i] = o) => p = parent[o]
    BY <1>3, ObjectFound, FoundRepresents
  <2>. QED  BY <1>1, <2>1
<1>. QED  BY <1>2, <1>3

LEMMA FirstFound ==
  ASSUME Inv, NEW o \in Objects
  PROVE  /\ Family!FirstOf(Found[o]) = child[o]
         /\ Found[o] # <<>> <=> child[o] # 0
<1>1. /\ Found[o] \in Seq(Objects) /\ Len(Found[o]) \in Nat
      /\ \A i \in 1 .. Len(Found[o]) : Found[o][i] \in Objects
      /\ child[o] = IF Len(Found[o]) = 0 THEN 0 ELSE Found[o][1]
  BY FoundRepresents DEF Represents
<1>2. Found[o] = <<>> <=> Len(Found[o]) = 0
  BY <1>1
<1>3. Len(Found[o]) # 0 => Head(Found[o]) = Found[o][1] /\ Found[o][1] # 0
  BY <1>1 DEF Objects
<1>. QED  BY <1>1, <1>2, <1>3 DEF Family!FirstOf

LEMMA SiblingFound ==
  ASSUME Inv, NEW o \in Objects
  PROVE  Family!SiblingOf(o) = next[o]
<1>1. Family!ParentOf(o) = parent[o]
  BY ParentFound
<1>2. CASE parent[o] = 0
  <2>1. next[o] = 0
    BY <1>2, FoundRepresents DEF Represents
  <2>. QED  BY <1>1, <1>2, <2>1 DEF Family!SiblingOf
<1>3. CASE parent[o] # 0
  <2>. DEFINE p == parent[o]
              s == Found[p]
              k == PlaceOf(s, o)
  <2>1. /\ p \in Objects /\ k \in 1 .. Len(s) /\ s[k] = o
        /\ \A i \in DOMAIN s : s[i] = o => i = k
    BY <1>3, ObjectFound
  <2>2. s \in Seq(Objects) /\ Len(s) \in Nat /\ DOMAIN s = 1 .. Len(s)
    BY <2>1, FoundRepresents
  <2>3. next[o] = IF k = Len(s) THEN 0 ELSE s[k + 1]
    BY <2>1, FoundRepresents DEF Represents
  <2>4. Family!SiblingOf(o)
          = LET i == CHOOSE j \in DOMAIN s : s[j] = o
            IN Family!FirstOf(SubSeq(s, i + 1, Len(s)))
    <3>1. Family!SiblingOf(o)
            = IF Family!ParentOf(o) = 0 THEN 0
              ELSE LET t == Found[Family!ParentOf(o)]
                       i == CHOOSE j \in DOMAIN t : t[j] = o
                   IN Family!FirstOf(SubSeq(t, i + 1, Len(t)))
      BY DEF Family!SiblingOf, Found
    <3>. QED  BY <1>1, <1>3, <3>1
  <2>. HIDE DEF s, k, p
  <2>5. (CHOOSE j \in DOMAIN s : s[j] = o) = k
    BY <2>1, <2>2
  <2>6. Family!SiblingOf(o) = Family!FirstOf(SubSeq(s, k + 1, Len(s)))
    BY <2>4, <2>5
  <2>7. k = Len(s) => SubSeq(s, k + 1, Len(s)) = <<>>
    BY <2>1, <2>2
  <2>8. k # Len(s) => SubSeq(s, k + 1, Len(s)) # <<>>
                      /\ Head(SubSeq(s, k + 1, Len(s))) = s[k + 1]
    BY <2>1, <2>2, SuffixParts
  <2>. QED  BY <2>3, <2>6, <2>7, <2>8 DEF Family!FirstOf
<1>. QED  BY <1>2, <1>3
\* Taking an object out of the sequences.
LEMMA UnlistedFound ==
  ASSUME Inv, NEW o \in Objects
  PROVE  Family!Unlisted(o) = KidsWithout(Found, parent, o)
<1>1. Family!Unlisted(o) = [p \in Objects |-> Family!Without(Found[p], o)]
  BY DEF Family!Unlisted, Family!Objects, Objects, Found
<1>2. Found \in Kids
  BY FoundRepresents
<1>3. ASSUME NEW p \in Objects, parent[o] # p
      PROVE  Family!Without(Found[p], o) = Found[p]
  <2>1. ~ \E i \in DOMAIN Found[p] : Found[p][i] = o
    BY <1>3, ObjectFound
  <2>. QED  BY <2>1 DEF Family!Without
<1>4. ASSUME NEW p \in Objects, parent[o] = p
      PROVE  Family!Without(Found[p], o) = Dropped(Found[p], PlaceOf(Found[p], o))
  <2>. DEFINE s == Found[p]
              k == PlaceOf(s, o)
  <2>1. /\ k \in 1 .. Len(s) /\ s[k] = o
        /\ \A i \in DOMAIN s : s[i] = o => i = k
    BY <1>4, ObjectFound DEF Objects
  <2>2. s \in Seq(Objects) /\ DOMAIN s = 1 .. Len(s)
    BY FoundRepresents
  <2>. HIDE DEF s, k
  <2>3. (CHOOSE j \in DOMAIN s : s[j] = o) = k /\ \E j \in DOMAIN s : s[j] = o
    BY <2>1, <2>2
  <2>4. Family!Without(s, o) = SubSeq(s, 1, k - 1) \o SubSeq(s, k + 1, Len(s))
    BY <2>3 DEF Family!Without
  <2>. QED  BY <2>1, <2>2, <2>4, DroppedIsConcat DEF s, k
<1>5. CASE parent[o] = 0
  <2>1. \A p \in Objects : parent[o] # p
    BY <1>5 DEF Objects
  <2>2. Family!Unlisted(o) = [p \in Objects |-> Found[p]]
    BY <1>1, <1>3, <2>1
  <2>. QED  BY <1>2, <1>5, <2>2 DEF KidsWithout, Kids
<1>6. CASE parent[o] # 0
  <2>. DEFINE q == parent[o]
              d == Dropped(Found[q], PlaceOf(Found[q], o))
  <2>1. q \in Objects
    BY <1>6, ObjectFound
  <2>2. \A p \in Objects : Family!Without(Found[p], o) = IF p = q THEN d ELSE Found[p]
    BY <1>3, <1>4
  <2>. HIDE DEF d
  <2>3. [p \in Objects |-> IF p = q THEN d ELSE Found[p]] = [Found EXCEPT ![q] = d]
    BY <1>2, <2>1 DEF Kids
  <2>4. KidsWithout(Found, parent, o) = [Found EXCEPT ![q] = d]
    BY <1>6 DEF KidsWithout, d
  <2>. QED  BY <1>1, <2>2, <2>3, <2>4
<1>. QED  BY <1>5, <1>6

\* What is seen when nothing is rewired.
LEMMA LinksSeen ==
  ASSUME UNCHANGED links
  PROVE  Found' = Found
<1>1. next' = next /\ child' = child
  BY DEF links
<1>. QED  BY <1>1 DEF Found

LEMMA RemoveRefines ==
  ASSUME Inv, NEW o \in Objects, z_remove_obj(o)
  PROVE  Family!Remove(o)
<1>1. /\ Removable(o) /\ KidsWithout(Found, parent, o) \in Kids
      /\ Represents(ParentRemoved(o), NextRemoved(o), ChildRemoved(o),
                    KidsWithout(Found, parent, o))
  BY FoundRepresents, RemovalRepresents DEF Inv
<1>2. /\ next' = NextRemoved(o) /\ child' = ChildRemoved(o)
      /\ UNCHANGED <<attributes, result>>
  BY <1>1 DEF z_remove_obj, Stops, Objects
<1>3. [p \in Objects |-> KidsOf(NextRemoved(o), ChildRemoved(o), p)]
        = KidsWithout(Found, parent, o)
  BY <1>1, FoundIs
<1>4. Found' = Family!Unlisted(o)
  BY <1>2, <1>3, UnlistedFound DEF Found
<1>. QED  BY <1>2, <1>4 DEF Family!Remove, Found

LEMMA InsertRefines ==
  ASSUME Inv, NEW o \in Objects, NEW p \in Objects, z_insert_obj(o, p)
  PROVE  Family!Insert(o, p)
<1>. DEFINE par == ParentRemoved(o)
            nxt == NextRemoved(o)
            chd == ChildRemoved(o)
            ks == KidsWithout(Found, parent, o)
            par2 == [par EXCEPT ![o] = p]
            nxt2 == IF chd[p] = 0 THEN nxt ELSE [nxt EXCEPT ![o] = chd[p]]
            chd2 == [chd EXCEPT ![p] = o]
<1>1. Removable(o) /\ ks \in Kids /\ Represents(par, nxt, chd, ks)
  BY FoundRepresents, RemovalRepresents DEF Inv
<1>2. next' = nxt2 /\ child' = chd2 /\ UNCHANGED <<attributes, result>>
  BY <1>1 DEF z_insert_obj, Stops, Objects
<1>3. /\ par \in [Record -> Record] /\ nxt \in [Record -> Record]
      /\ chd \in [Record -> Record] /\ par[o] = 0
  BY <1>1, RemovableTypes DEF Inv
<1>. HIDE DEF par, nxt, chd, ks
<1>4. KidsWith(ks, o, p) \in Kids /\ Represents(par2, nxt2, chd2, KidsWith(ks, o, p))
  BY <1>1, <1>3, LinkingRepresents
<1>. HIDE DEF par2, nxt2, chd2
<1>5. [q \in Objects |-> KidsOf(nxt2, chd2, q)] = KidsWith(ks, o, p)
  BY <1>4, FoundIs
<1>6. KidsWith(ks, o, p) = [ks EXCEPT ![p] = <<o>> \o @]
  <2>1. Cons(o, ks[p]) = <<o>> \o ks[p]
    BY <1>1, ConsIsConcat DEF Kids
  <2>. QED  BY <2>1 DEF KidsWith
<1>7. ks = Family!Unlisted(o)
  BY UnlistedFound DEF ks
<1>8. Found' = [Family!Unlisted(o) EXCEPT ![p] = <<o>> \o @]
  BY <1>2, <1>5, <1>6, <1>7 DEF Found
<1>. QED  BY <1>2, <1>8 DEF Family!Insert, Found

\* An operation that stores a value or jumps.
LEMMA GivesRefines ==
  ASSUME NEW o \in Objects, NEW value, NEW jumps, Gives(o, value, jumps)
  PROVE  Family!Gives(value, jumps)
<1>1. ~ Stops({o}) /\ o # 0
  BY DEF Stops, Objects
<1>2. result' = <<value, jumps>> /\ UNCHANGED <<links, attributes>>
  BY <1>1 DEF Gives
<1>3. Found' = Found
  BY <1>2, LinksSeen
<1>. QED  BY <1>2, <1>3 DEF Family!Gives, Found

LEMMA AttributeRefines ==
  ASSUME Inv, NEW o \in Objects, NEW s, Attribute(o, s)
  PROVE  Family!SetAttributes(o, s)
<1>1. attributes' = [attributes EXCEPT ![o] = s] /\ UNCHANGED <<links, result>>
  BY DEF Attribute, Stops, Objects
<1>2. Found' = Found
  BY <1>1, LinksSeen
<1>3. [q \in Objects |-> attributes'[q]] = [[q \in Objects |-> attributes[q]] EXCEPT ![o] = s]
  BY <1>1, ZeroRecord DEF Inv, TypeOK
<1>. QED  BY <1>1, <1>2, <1>3 DEF Family!SetAttributes, Found

\* The program stops, in the middle of an operation or between two of them.
LEMMA StopRefines ==
  ASSUME UNCHANGED <<links, attributes, result>>
  PROVE  UNCHANGED Family!vars
<1>1. Found' = Found
  BY LinksSeen
<1>. QED  BY <1>1 DEF Family!vars, Found
LEMMA JinRefines ==
  ASSUME Inv, NEW o \in Objects, NEW p \in Record, z_jin(o, p)
  PROVE  Family!Gives(0, Family!ParentOf(o) = p)
<1>1. ~ Stops({o}) /\ o # 0
  BY DEF Stops, Objects
<1>2. result' = <<0, parent[o] = p>> /\ UNCHANGED <<links, attributes>>
  BY <1>1 DEF z_jin
<1>3. Found' = Found
  BY <1>2, LinksSeen
<1>4. Family!ParentOf(o) = parent[o]
  BY ParentFound
<1>. QED  BY <1>2, <1>3, <1>4 DEF Family!Gives, Found

LEMMA AskedRefines ==
  ASSUME Inv, NEW o \in Objects, z_get_parent(o) \/ z_get_child(o) \/ z_get_sibling(o)
  PROVE  Family!Next
<1>1. CASE z_get_parent(o)
  <2>1. Family!Gives(Family!ParentOf(o), FALSE)
    BY <1>1, GivesRefines, ParentFound DEF z_get_parent
  <2>. QED  BY <2>1 DEF Family!Next, Family!Objects, Objects
<1>2. CASE z_get_child(o)
  <2>1. Family!Gives(child[o], child[o] # 0)
    BY <1>2, GivesRefines DEF z_get_child
  <2>2. Family!FirstOf(Found[o]) = child[o] /\ (Found[o] # <<>>) = (child[o] # 0)
    BY FirstFound
  <2>3. Family!Gives(Family!FirstOf(Found[o]), Found[o] # <<>>)
    BY <2>1, <2>2
  <2>. QED  BY <2>3 DEF Family!Next, Family!Objects, Objects, Found
<1>3. CASE z_get_sibling(o)
  <2>1. Family!Gives(Family!SiblingOf(o), Family!SiblingOf(o) # 0)
    BY <1>3, GivesRefines, SiblingFound DEF z_get_sibling
  <2>. QED  BY <2>1 DEF Family!Next, Family!Objects, Objects
<1>. QED  BY <1>1, <1>2, <1>3

LEMMA AttributesRefine ==
  ASSUME Inv, NEW o \in Objects, NEW a \in Attributes,
         z_test_attr(o, a) \/ z_set_attr(o, a) \/ z_clear_attr(o, a)
  PROVE  Family!Next
<1>. DEFINE seen == [q \in Objects |-> attributes[q]]
<1>1. seen[o] = attributes[o]
  OBVIOUS
<1>2. CASE z_test_attr(o, a)
  <2>1. Family!Gives(0, a \in attributes[o])
    BY <1>2, GivesRefines DEF z_test_attr
  <2>2. Family!Gives(0, a \in seen[o])
    BY <1>1, <2>1
  <2>. QED  BY <2>2 DEF Family!Next, Family!Objects, Objects
<1>3. CASE z_set_attr(o, a)
  <2>1. PICK s : s = attributes[o] \cup {a}
    OBVIOUS
  <2>2. Attribute(o, s)
    BY <1>3, <2>1 DEF z_set_attr, Attribute
  <2>3. Family!SetAttributes(o, s)
    BY <2>2, AttributeRefines
  <2>4. s = seen[o] \cup {a}
    BY <1>1, <2>1
  <2>5. Family!SetAttributes(o, seen[o] \cup {a})
    BY <2>3, <2>4 DEF Family!SetAttributes
  <2>. QED  BY <2>5 DEF Family!Next, Family!SetAttributes, Family!Objects, Objects
<1>4. CASE z_clear_attr(o, a)
  <2>1. PICK s : s = attributes[o] \ {a}
    OBVIOUS
  <2>2. Attribute(o, s)
    BY <1>4, <2>1 DEF z_clear_attr, Attribute
  <2>3. Family!SetAttributes(o, s)
    BY <2>2, AttributeRefines
  <2>4. s = seen[o] \ {a}
    BY <1>1, <2>1
  <2>5. Family!SetAttributes(o, seen[o] \ {a})
    BY <2>3, <2>4 DEF Family!SetAttributes
  <2>. QED  BY <2>5 DEF Family!Next, Family!SetAttributes, Family!Objects, Objects
<1>. QED  BY <1>2, <1>3, <1>4

\* Every operation is one of Forest, or stops the program.
LEMMA NextRefines ==
  ASSUME NoObjectZero, Inv, Next
  PROVE  Family!Next \/ UNCHANGED Family!vars
<1>1. PICK o \in Operands :
        \/ z_remove_obj(o)
        \/ z_get_parent(o) \/ z_get_child(o) \/ z_get_sibling(o)
        \/ \E p \in Operands : z_insert_obj(o, p) \/ z_jin(o, p)
        \/ \E a \in Attributes : z_test_attr(o, a) \/ z_set_attr(o, a) \/ z_clear_attr(o, a)
  BY DEF Next
<1>2. \A q \in Operands : q \in Record /\ (q \in Objects \/ (q = 0 /\ ReportIsFatal))
  <2>1. Operands \subseteq Record /\ \A q \in Record : q \in Objects \/ q = 0
    BY ObjectTreeAssumption DEF Objects, Record
  <2>2. SUFFICES ASSUME NEW q \in Operands, q \notin Objects
                 PROVE  q = 0 /\ ReportIsFatal
    BY <2>1
  <2>3. ReportIsFatal
    BY <2>2, Zenon DEF NoObjectZero
  <2>. QED  BY <2>1, <2>2, <2>3
<1>3. ASSUME NEW q \in Operands, NEW p \in Operands, q = 0 \/ p = 0,
             z_insert_obj(q, p)
      PROVE  UNCHANGED Family!vars
  <2>1. 0 \notin Objects
    BY DEF Objects
  <2>2. Stops({q, p})
    BY <1>2, <1>3, <2>1 DEF Stops
  <2>. QED  BY <1>3, <2>2, StopRefines DEF z_insert_obj, Fatal
<1>4. CASE o = 0
  <2>1. 0 \notin Objects
    BY DEF Objects
  <2>2. Stops({o})
    BY <1>2, <1>4, <2>1 DEF Stops
  <2>3. CASE \E p \in Operands : z_insert_obj(o, p)
    BY <1>3, <1>4, <2>3
  <2>4. CASE ~ \E p \in Operands : z_insert_obj(o, p)
    <3>1. Fatal
      BY <1>1, <2>2, <2>4 DEF z_remove_obj, z_jin, z_get_parent, z_get_child,
         z_get_sibling, z_test_attr, z_set_attr, z_clear_attr, Gives, Attribute
    <3>. QED  BY <3>1, StopRefines DEF Fatal
  <2>. QED  BY <2>3, <2>4
<1>5. CASE o \in Objects
  <2>1. CASE z_remove_obj(o)
    BY <1>5, <2>1, RemoveRefines DEF Family!Next, Family!Objects, Objects
  <2>2. CASE z_get_parent(o) \/ z_get_child(o) \/ z_get_sibling(o)
    BY <1>5, <2>2, AskedRefines
  <2>3. ASSUME NEW p \in Operands, z_insert_obj(o, p)
        PROVE  Family!Next \/ UNCHANGED Family!vars
    <3>1. CASE p \in Objects
      BY <1>5, <2>3, <3>1, InsertRefines DEF Family!Next, Family!Objects, Objects
    <3>2. CASE p \notin Objects
      <4>1. p = 0
        BY <1>2, <3>2
      <4>. QED  BY <1>3, <2>3, <4>1
    <3>. QED  BY <3>1, <3>2
  <2>4. ASSUME NEW p \in Operands, z_jin(o, p)
        PROVE  Family!Next
    <3>1. p \in Record /\ p \in Objects \cup {0}
      BY <1>2
    <3>2. Family!Gives(0, Family!ParentOf(o) = p)
      BY <1>5, <2>4, <3>1, JinRefines
    <3>. QED  BY <1>5, <3>1, <3>2 DEF Family!Next, Family!Objects, Objects
  <2>5. CASE \E a \in Attributes :
               z_test_attr(o, a) \/ z_set_attr(o, a) \/ z_clear_attr(o, a)
    BY <1>5, <2>5, AttributesRefine
  <2>. QED  BY <1>1, <2>1, <2>2, <2>3, <2>4, <2>5
<1>. QED  BY <1>2, <1>4, <1>5

LEMMA InitRefines ==
  ASSUME Init
  PROVE  Family!Init
<1>1. StoryKids \in Kids /\ Represents(parent, next, child, StoryKids)
  BY StoryRepresented
<1>2. Found = StoryKids
  BY <1>1, FoundIs DEF Found
<1>3. /\ [o \in Objects |-> attributes[o]] = [o \in Objects |-> {}]
      /\ result = <<0, FALSE>>
  BY ZeroRecord DEF Init
<1>. QED  BY <1>2, <1>3 DEF Family!Init, Family!Objects, Objects, Found

\* The links keep the promise: for any number of objects and any legal story,
\* an insertion makes the object the first child and moves no other object, a
\* removal takes one object and what is in it, and every question is answered
\* for the families there are.  (ImplementsForest, for all of object.c that is
\* about links and attributes, without object 0 unless it is fatal.)
THEOREM LinksImplementForest == NoObjectZero => (Spec => ImplementsForest)
<1>. SUFFICES ASSUME NoObjectZero  PROVE Spec => ImplementsForest
  OBVIOUS
<1>1. Init => Inv /\ Family!Init
  BY InitInv, InitRefines
<1>2. Inv /\ [Next]_vars => Inv' /\ [Family!Next]_(Family!vars)
  <2>. SUFFICES ASSUME Inv, [Next]_vars
                PROVE  Inv' /\ [Family!Next]_(Family!vars)
    OBVIOUS
  <2>1. Inv'
    BY NextInv
  <2>2. CASE Next
    BY <2>1, <2>2, NextRefines
  <2>3. CASE UNCHANGED vars
    BY <2>1, <2>3, StopRefines DEF vars
  <2>. QED  BY <2>2, <2>3
<1>. QED  BY <1>1, <1>2, PTL DEF Spec, ImplementsForest, Family!Spec
-----------------------------------------------------------------------------
(* No object gets inside itself.  What is above an object is the least set *)
(* of objects that holds it and, with an object, its parent.               *)

Rising(par, S) == \A y \in S : par[y] # 0 => par[y] \in S
AboveIn(par, o) ==
    {x \in Objects : \A S \in SUBSET Objects : o \in S /\ Rising(par, S) => x \in S}
Nested(par) == \A o \in Objects : par[o] # 0 => o \notin AboveIn(par, par[o])

LEMMA ParentsInside ==
  ASSUME NEW par \in [Record -> Record]
  PROVE  \A x \in Objects : par[x] # 0 => par[x] \in Objects
BY ObjectTreeAssumption DEF Objects, Record

\* Above has the object and the parents of its elements.
LEMMA AboveRises ==
  ASSUME NEW par \in [Record -> Record], NEW o \in Objects
  PROVE  /\ AboveIn(par, o) \subseteq Objects
         /\ o \in AboveIn(par, o)
         /\ Rising(par, AboveIn(par, o))
<1>1. \A y \in Objects : par[y] # 0 => par[y] \in Objects
  BY ParentsInside
<1>2. ASSUME NEW y \in AboveIn(par, o), par[y] # 0
      PROVE  par[y] \in AboveIn(par, o)
  <2>1. y \in Objects /\ par[y] \in Objects
    BY <1>1, <1>2 DEF AboveIn
  <2>2. ASSUME NEW S \in SUBSET Objects, o \in S, Rising(par, S)
        PROVE  par[y] \in S
    <3>1. y \in S
      BY <1>2, <2>2 DEF AboveIn
    <3>. QED  BY <1>2, <2>2, <3>1 DEF Rising
  <2>. QED  BY <2>1, <2>2 DEF AboveIn
<1>. QED  BY <1>2 DEF AboveIn, Rising

\* It is the least such set.
LEMMA AboveLeast ==
  ASSUME NEW par, NEW o, NEW S \in SUBSET Objects, o \in S, Rising(par, S)
  PROVE  AboveIn(par, o) \subseteq S
BY DEF AboveIn

\* Removing an object takes nothing inside another.
LEMMA RemovingKeepsNested ==
  ASSUME NEW par \in [Record -> Record], NEW o \in Record, Nested(par)
  PROVE  Nested([par EXCEPT ![o] = 0])
<1>. DEFINE cut == [par EXCEPT ![o] = 0]
<1>1. \A x \in Objects : cut[x] # 0 => cut[x] = par[x] /\ par[x] \in Objects
  <2>1. \A x \in Objects : cut[x] # 0 => cut[x] = par[x]
    BY ZeroRecord
  <2>2. \A x \in Objects : par[x] # 0 => par[x] \in Objects
    BY ParentsInside
  <2>. QED  BY <2>1, <2>2
<1>. HIDE DEF cut
<1>2. ASSUME NEW x \in Objects, cut[x] # 0
      PROVE  x \notin AboveIn(cut, cut[x])
  <2>1. /\ AboveIn(par, par[x]) \subseteq Objects
        /\ par[x] \in AboveIn(par, par[x])
        /\ Rising(par, AboveIn(par, par[x]))
    BY <1>1, <1>2, AboveRises
  <2>2. Rising(cut, AboveIn(par, par[x]))
    BY <1>1, <2>1 DEF Rising
  <2>3. AboveIn(cut, par[x]) \subseteq AboveIn(par, par[x])
    BY <2>1, <2>2, AboveLeast
  <2>4. x \notin AboveIn(par, par[x])
    BY <1>1, <1>2 DEF Nested
  <2>. QED  BY <1>1, <1>2, <2>3, <2>4
<1>3. Nested(cut)
  BY <1>2 DEF Nested
<1>. QED  BY <1>3 DEF cut

\* Nor does moving one into an object it is not above.
LEMMA MovingKeepsNested ==
  ASSUME NEW par \in [Record -> Record], NEW o \in Objects, NEW p \in Objects,
         Nested(par), o \notin AboveIn(par, p)
  PROVE  Nested([par EXCEPT ![o] = p])
<1>. DEFINE moved == [par EXCEPT ![o] = p]
<1>1. /\ moved[o] = p
      /\ \A x \in Objects : x # o => moved[x] = par[x]
      /\ \A x \in Objects : par[x] # 0 => par[x] \in Objects
      /\ p # 0
  <2>1. moved[o] = p /\ \A x \in Objects : x # o => moved[x] = par[x]
    BY ZeroRecord
  <2>2. p # 0
    BY DEF Objects
  <2>. QED  BY <2>1, <2>2, ParentsInside
<1>. HIDE DEF moved
<1>2. /\ AboveIn(par, p) \subseteq Objects
      /\ p \in AboveIn(par, p)
      /\ Rising(par, AboveIn(par, p))
  BY AboveRises
<1>3. ASSUME NEW x \in Objects, x # o, par[x] # 0
      PROVE  x \notin AboveIn(moved, par[x])
  <2>1. /\ AboveIn(par, par[x]) \subseteq Objects
        /\ par[x] \in AboveIn(par, par[x])
        /\ Rising(par, AboveIn(par, par[x]))
    BY <1>1, <1>3, AboveRises
  <2>2. x \notin AboveIn(par, par[x])
    BY <1>3 DEF Nested
  <2>3. CASE o \notin AboveIn(par, par[x])
    <3>1. Rising(moved, AboveIn(par, par[x]))
      BY <1>1, <2>1, <2>3 DEF Rising
    <3>2. AboveIn(moved, par[x]) \subseteq AboveIn(par, par[x])
      BY <2>1, <3>1, AboveLeast
    <3>. QED  BY <2>2, <3>2
  <2>4. CASE o \in AboveIn(par, par[x])
    <3>1. Rising(moved, AboveIn(par, par[x]) \cup AboveIn(par, p))
      BY <1>1, <1>2, <2>1 DEF Rising
    <3>2. AboveIn(moved, par[x]) \subseteq AboveIn(par, par[x]) \cup AboveIn(par, p)
      BY <1>2, <2>1, <3>1, AboveLeast
    <3>3. x \notin AboveIn(par, p)
      <4>1. SUFFICES ASSUME x \in AboveIn(par, p)  PROVE FALSE
        OBVIOUS
      <4>2. par[x] \in AboveIn(par, p)
        BY <1>2, <1>3, <4>1 DEF Rising
      <4>3. AboveIn(par, par[x]) \subseteq AboveIn(par, p)
        BY <1>2, <4>2, AboveLeast
      <4>. QED  BY <2>4, <4>3
    <3>. QED  BY <2>2, <3>2, <3>3
  <2>. QED  BY <2>3, <2>4
<1>4. o \notin AboveIn(moved, p)
  <2>1. Rising(moved, AboveIn(par, p))
    BY <1>1, <1>2 DEF Rising
  <2>2. AboveIn(moved, p) \subseteq AboveIn(par, p)
    BY <1>2, <2>1, AboveLeast
  <2>. QED  BY <2>2
<1>5. Nested(moved)
  BY <1>1, <1>3, <1>4 DEF Nested
<1>. QED  BY <1>5 DEF moved

\* What object 0 is given for a parent is no matter.
LEMMA ZeroKeepsNested ==
  ASSUME NEW par \in [Record -> Record], NEW p, Nested(par)
  PROVE  Nested([par EXCEPT ![0] = p])
<1>. DEFINE other == [par EXCEPT ![0] = p]
<1>1. \A x \in Objects : other[x] = par[x]
  BY ObjectTreeAssumption DEF Objects, Record
<1>. HIDE DEF other
<1>2. \A S \in SUBSET Objects : Rising(other, S) <=> Rising(par, S)
  BY <1>1 DEF Rising
<1>3. \A x : AboveIn(other, x) = AboveIn(par, x)
  BY <1>2 DEF AboveIn
<1>4. Nested(other)
  BY <1>1, <1>3 DEF Nested
<1>. QED  BY <1>4 DEF other

ParentTyped == parent \in [Record -> Record]

\* The parents are numbers of objects, whatever object 0 may do.
LEMMA ParentsAreTyped == Spec => []ParentTyped
<1>1. Init => ParentTyped
  BY StoryRepresented DEF TypeOK, ParentTyped
<1>2. ParentTyped /\ [Next]_vars => ParentTyped'
  <2>. SUFFICES ASSUME ParentTyped, [Next]_vars  PROVE ParentTyped'
    OBVIOUS
  <2>1. \A o, p \in Record : /\ ParentRemoved(o) \in [Record -> Record]
                             /\ [ParentRemoved(o) EXCEPT ![o] = p] \in [Record -> Record]
    BY ZeroRecord DEF ParentTyped, ParentRemoved
  <2>2. Operands \subseteq Record
    BY ObjectTreeAssumption
  <2>3. ASSUME NEW o \in Operands, z_remove_obj(o)  PROVE ParentTyped'
    BY <2>1, <2>2, <2>3 DEF z_remove_obj, Fatal, Lost, links, ParentTyped
  <2>4. ASSUME NEW o \in Operands, NEW p \in Operands, z_insert_obj(o, p)
        PROVE  ParentTyped'
    BY <2>1, <2>2, <2>4 DEF z_insert_obj, Fatal, Lost, links, ParentTyped
  <2>5. UNCHANGED parent => ParentTyped'
    BY DEF ParentTyped
  <2>. QED
    BY <2>3, <2>4, <2>5
    DEF Next, z_get_parent, z_get_child, z_get_sibling, z_jin, z_test_attr,
        z_set_attr, z_clear_attr, Gives, Attribute, Fatal, links, vars
<1>. QED  BY <1>1, <1>2, PTL DEF Spec

LEMMA NestedNext ==
  ASSUME ParentTyped, IsForest,
         ~(\E o, p \in Operands : o \in Above(p) /\ z_insert_obj(o, p)),
         [Next]_vars
  PROVE  IsForest'
<1>1. Nested(parent) /\ parent \in [Record -> Record]
  BY DEF Nested, IsForest, Above, AboveIn, Rising, ParentTyped
<1>2. SUFFICES Nested(parent')
  BY DEF Nested, IsForest, Above, AboveIn, Rising
<1>3. UNCHANGED parent => Nested(parent')
  BY <1>1
<1>4. Operands \subseteq Record
  BY ObjectTreeAssumption
<1>5. ASSUME NEW o \in Operands, z_remove_obj(o)  PROVE Nested(parent')
  <2>1. UNCHANGED parent \/ parent' = ParentRemoved(o)
    BY <1>5 DEF z_remove_obj, Fatal, Lost, links
  <2>. QED  BY <1>1, <1>3, <1>4, <2>1, RemovingKeepsNested DEF ParentRemoved
<1>6. ASSUME NEW o \in Operands, NEW p \in Operands, z_insert_obj(o, p)
      PROVE  Nested(parent')
  <2>1. UNCHANGED parent \/ parent' = [ParentRemoved(o) EXCEPT ![o] = p]
    BY <1>6 DEF z_insert_obj, Fatal, Lost, links
  <2>2. [ParentRemoved(o) EXCEPT ![o] = p] = [parent EXCEPT ![o] = p]
    BY <1>1 DEF ParentRemoved
  <2>3. o \notin AboveIn(parent, p)
    BY <1>6 DEF Above, AboveIn, Rising
  <2>4. o \in Record /\ p \in Record /\ (\A x \in Record : x \in Objects \/ x = 0)
    BY <1>4, ObjectTreeAssumption DEF Record, Objects
  <2>5. CASE o = 0
    <3>1. Nested([parent EXCEPT ![0] = p])
      BY <1>1, ZeroKeepsNested
    <3>. QED  BY <1>3, <2>1, <2>2, <2>5, <3>1
  <2>6. CASE o \in Objects /\ p = 0
    <3>1. 0 \notin Objects
      BY DEF Objects
    <3>. QED  BY <2>3, <2>6, <3>1 DEF AboveIn
  <2>7. CASE o \in Objects /\ p \in Objects
    <3>1. Nested([parent EXCEPT ![o] = p])
      BY <1>1, <2>3, <2>7, MovingKeepsNested
    <3>. QED  BY <1>3, <2>1, <2>2, <3>1
  <2>. QED  BY <2>4, <2>5, <2>6, <2>7
<1>. QED
  BY <1>3, <1>5, <1>6
  DEF Next, z_get_parent, z_get_child, z_get_sibling, z_jin, z_test_attr,
      z_set_attr, z_clear_attr, Gives, Attribute, Fatal, links, vars

\* As long as the story moves no object into itself or into something inside
\* it, which insert_obj does not test, no object gets inside itself, whatever
\* else the story does and also when object 0 is given.  (StaysForest)
THEOREM NothingInsideItself == Spec => StaysForest
<1>1. ParentTyped /\ [Next]_vars
        => [IsForest /\ ~(\E o, p \in Operands : o \in Above(p) /\ z_insert_obj(o, p))
              => IsForest']_vars
  BY NestedNext
<1>. QED  BY <1>1, ParentsAreTyped, PTL DEF Spec, StaysForest

\* Where reports are fatal, no operation given object 0 gets as far as the links.
THEOREM ObjectZeroIsLeftAlone == ReportIsFatal => (Spec => ObjectZeroIsSafe)
<1>. DEFINE Untouched ==
       \A o \in Operands :
         (z_remove_obj(0) \/ z_insert_obj(0, o) \/ z_insert_obj(o, 0))
            => UNCHANGED links /\ status' # "lost"
<1>1. ReportIsFatal => Untouched
  BY DEF z_remove_obj, z_insert_obj, Stops, Fatal
<1>. HIDE DEF Untouched
<1>2. ReportIsFatal /\ [Next]_vars => [Untouched]_vars
  BY <1>1
<1>3. ASSUME ReportIsFatal  PROVE Spec => [][Untouched]_vars
  <2>1. [Next]_vars => [Untouched]_vars
    BY <1>2, <1>3
  <2>. QED  BY <2>1, PTL DEF Spec
<1>. QED  BY <1>3 DEF ObjectZeroIsSafe, Untouched
=============================================================================
