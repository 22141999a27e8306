---------------------------- MODULE Input_proofs ----------------------------
(***************************************************************************)
(* Proofs about Tokeniser and Console.  For every line, token buffer and   *)
(* dictionary the words of the line are in the token buffer once and in    *)
(* order, and each has its entry iff the dictionary, sorted or not, has    *)
(* one.  For every name, line and set of files, recording and replaying    *)
(* exclude each other, and no file is lost or written over unless the      *)
(* player agreed to it.                                                    *)
(***************************************************************************)
EXTENDS Console, Tokeniser, TLAPS, Recursion, FiniteSetTheorems, SequenceTheorems

Chars == 0 .. 255
Triple == [1 .. 3 -> Int]

-----------------------------------------------------------------------------
(* encode_text gives three numbers *)

\* The codes of a version, as a constant: while the version is the same, the
\* codes of a word are.
ZCodesOf(version) == INSTANCE ZCodes WITH h_type <- version, printing <- <<>>, output <- <<>>
Encoded(version, s) == ZCodesOf(version)!encode_text(s)

LEMMA EncodedAs == \A s : encode_text(s) = Encoded(h_type, s)
BY DEF Encoded, encode_text, Codes, LastWord, Pads, EncodedFrom, PrevTables, TableOf, PlaceOf,
       PlacesOf, lookup_table, LastOf, Shifts, ShiftKey, Literal, NextTable,
       ZCodesOf!encode_text, ZCodesOf!Codes, ZCodesOf!LastWord, ZCodesOf!Pads,
       ZCodesOf!EncodedFrom, ZCodesOf!PrevTables, ZCodesOf!TableOf, ZCodesOf!PlaceOf,
       ZCodesOf!PlacesOf, ZCodesOf!lookup_table, ZCodesOf!LastOf, ZCodesOf!Shifts,
       ZCodesOf!ShiftKey, ZCodesOf!Literal, ZCodesOf!NextTable

LEMMA EncodedAsNext == (\A s : encode_text(s) = Encoded(h_type, s))'
BY EncodedAs, PTL

\* The last place of a character is one of its places.
LEMMA LastPlace ==
  ASSUME NEW places, places \subseteq (0 .. 2) \X Columns, places # {}
  PROVE  LastOf(places) \in places
<1>. DEFINE T == {n \in Nat : \E p \in places : n = 77 - (26 * p[1] + p[2])}
<1>1. \A p \in places : p[1] \in 0 .. 2 /\ p[2] \in 0 .. 25
  BY ZCodesAssumption
<1>2. T \subseteq Nat /\ T # {}
  <2>1. PICK p \in places : TRUE
    OBVIOUS
  <2>2. p[1] \in 0 .. 2 /\ p[2] \in 0 .. 25
    BY <1>1
  <2>3. 77 - (26 * p[1] + p[2]) \in Nat
    BY <2>2
  <2>. QED  BY <2>3
<1>3. PICK n \in T : \A m \in T : ~ (m < n)
  <2>. HIDE DEF T
  <2>. QED  BY <1>2, LeastElement
<1>4. PICK p \in places : n = 77 - (26 * p[1] + p[2])
  BY <1>3
<1>5. ASSUME NEW q \in places  PROVE q[1] < p[1] \/ (q[1] = p[1] /\ q[2] <= p[2])
  <2>1. /\ p[1] \in 0 .. 2 /\ p[2] \in 0 .. 25
        /\ q[1] \in 0 .. 2 /\ q[2] \in 0 .. 25
    BY <1>1
  <2>2. 77 - (26 * q[1] + q[2]) \in Nat
    BY <2>1
  <2>3. ~ (77 - (26 * q[1] + q[2]) < 77 - (26 * p[1] + p[2]))
    BY <1>3, <1>4, <2>2
  <2>. QED  BY <2>1, <2>3
<1>. QED  BY <1>5 DEF LastOf

LEMMA PlaceTyped ==
  ASSUME NEW c
  PROVE  PlaceOf(c)[1] \in 0 .. 2 /\ PlaceOf(c)[2] \in 0 .. 25
<1>1. PlacesOf(c) \subseteq (0 .. 2) \X Columns
  BY DEF PlacesOf
<1>2. CASE PlacesOf(c) = {}
  BY <1>2 DEF PlaceOf
<1>3. CASE PlacesOf(c) # {}
  <2>1. LastOf(PlacesOf(c)) \in (0 .. 2) \X Columns
    BY <1>1, <1>3, LastPlace
  <2>2. PlaceOf(c) \in (0 .. 2) \X Columns
    BY <1>3, <2>1 DEF PlaceOf
  <2>. QED  BY <2>2, ZCodesAssumption
<1>. QED  BY <1>2, <1>3

\* A recursion along the n characters of a text.
Steps(n, V, start, next) == n \in Nat /\ start \in V /\ next \in [(1 .. n) \X V -> V]
IsAlong(f, n, V, start, next) ==
    /\ f \in [0 .. n -> V]
    /\ f = [k \in 0 .. n |-> IF k = 0 THEN start ELSE next[<<k, f[k - 1]>>]]

LEMMA AlongText ==
  ASSUME NEW n, NEW V, NEW start, NEW next, Steps(n, V, start, next)
  PROVE  \E f : IsAlong(f, n, V, start, next)
<1>. USE DEF Steps
<1>. DEFINE D == 0 .. n
            body(f, k) == IF k = 0 THEN start ELSE next[<<k, f[k - 1]>>]
            rank == [k \in D |-> k]
            bound == n + 1
            step == [k \in D |-> [f \in [D -> V] |-> body(f, k)]]
<1>1. ASSUME NEW k \in D, NEW f \in [D -> V]  PROVE body(f, k) \in V
  <2>1. k # 0 => k - 1 \in D /\ k \in 1 .. n
    OBVIOUS
  <2>. QED  BY <2>1
<1>2. ASSUME NEW k \in D, NEW f \in [D -> V], NEW g \in [D -> V],
             \A j \in D : rank[j] < rank[k] => f[j] = g[j]
      PROVE  body(f, k) = body(g, k)
  <2>1. k # 0 => k - 1 \in D /\ k - 1 < k
    OBVIOUS
  <2>2. k # 0 => f[k - 1] = g[k - 1]
    BY <1>2, <2>1
  <2>. QED  BY <2>2
<1>3. rank \in [D -> Nat] /\ bound \in Nat /\ \A x \in D : rank[x] < bound
  OBVIOUS
<1>4. \A k \in D : \A f \in [D -> V] : step[k][f] = body(f, k)
  OBVIOUS
<1>. HIDE DEF body
<1>5. step \in [D -> [[D -> V] -> V]]
  BY <1>1
<1>. HIDE DEF step, rank, bound
<1>6. \E f \in [D -> V] : \A x \in D : f[x] = step[x][f]
  <2>1. \A x \in D : \A f, g \in [D -> V] :
          (\A y \in D : rank[y] < rank[x] => f[y] = g[y]) => step[x][f] = step[x][g]
    BY <1>2, <1>4
  <2>2. V # {}
    OBVIOUS
  <2>. HIDE DEF D
  <2>3. Descends(D, V, rank, bound, step)
    BY <1>3, <1>5, <2>1, <2>2 DEF Descends
  <2>. QED  BY <2>3, RecursiveFunction
<1>7. PICK f \in [D -> V] : \A x \in D : f[x] = body(f, x)
  BY <1>4, <1>6
<1>8. f = [k \in D |-> body(f, k)]
  BY <1>7
<1>. QED  BY <1>8 DEF body, IsAlong

IsPrev(prev, start, s) ==
    prev = [k \in 0 .. Len(s) |->
              IF k = 0 THEN start
              ELSE IF TableOf(s[k]) \in {prev[k - 1], NextTable(s, k)} THEN TableOf(s[k])
              ELSE 0]

LEMMA PrevTyped ==
  ASSUME NEW s \in Seq(Chars), NEW start \in 0 .. 2
  PROVE  PrevTables(start, s) \in [0 .. Len(s) -> 0 .. 2]
<1>. DEFINE n == Len(s)
            V == 0 .. 2
            next == [kv \in (1 .. n) \X V |->
                       IF TableOf(s[kv[1]]) \in {kv[2], NextTable(s, kv[1])}
                       THEN TableOf(s[kv[1]]) ELSE 0]
<1>1. n \in Nat
  OBVIOUS
<1>2. \A k : TableOf(s[k]) \in V
  BY PlaceTyped DEF TableOf
<1>. HIDE DEF n
<1>3. next \in [(1 .. n) \X V -> V]
  BY <1>2
<1>4. \A k \in 1 .. n : \A v \in V :
        next[<<k, v>>] = IF TableOf(s[k]) \in {v, NextTable(s, k)} THEN TableOf(s[k]) ELSE 0
  OBVIOUS
<1>. HIDE DEF next
<1>5. PICK f : IsAlong(f, n, V, start, next)
  <2>. HIDE DEF V
  <2>1. start \in V
    BY DEF V
  <2>2. Steps(n, V, start, next)
    BY <1>1, <1>3, <2>1 DEF Steps
  <2>. QED  BY <2>2, AlongText
<1>6. \A k \in 0 .. n : f[k] = IF k = 0 THEN start
                               ELSE IF TableOf(s[k]) \in {f[k - 1], NextTable(s, k)}
                               THEN TableOf(s[k]) ELSE 0
  <2>. SUFFICES ASSUME NEW k \in 0 .. n
                PROVE  f[k] = IF k = 0 THEN start
                              ELSE IF TableOf(s[k]) \in {f[k - 1], NextTable(s, k)}
                              THEN TableOf(s[k]) ELSE 0
    OBVIOUS
  <2>1. f[k] = IF k = 0 THEN start ELSE next[<<k, f[k - 1]>>]
    BY <1>5 DEF IsAlong
  <2>2. k # 0 => k \in 1 .. n /\ f[k - 1] \in V
    BY <1>1, <1>5 DEF IsAlong
  <2>3. k # 0 => next[<<k, f[k - 1]>>] =
                   IF TableOf(s[k]) \in {f[k - 1], NextTable(s, k)} THEN TableOf(s[k]) ELSE 0
    BY <1>4, <2>2
  <2>. QED  BY <2>1, <2>3
<1>7. IsPrev(f, start, s)
  BY <1>5, <1>6 DEF IsPrev, IsAlong, n
<1>8. PrevTables(start, s) = CHOOSE prev : IsPrev(prev, start, s)
  BY DEF PrevTables, IsPrev
<1>9. IsPrev(PrevTables(start, s), start, s)
  BY <1>7, <1>8
<1>. DEFINE P == PrevTables(start, s)
<1>10. P = [k \in 0 .. n |-> IF k = 0 THEN start
                             ELSE IF TableOf(s[k]) \in {P[k - 1], NextTable(s, k)}
                             THEN TableOf(s[k]) ELSE 0]
  BY <1>9 DEF IsPrev, n
<1>. HIDE DEF P
<1>. QED  BY <1>2, <1>10 DEF n, P

IsCodes(codes, start, s) ==
    codes = [k \in 0 .. Len(s) |->
               IF k = 0 THEN <<>>
               ELSE codes[k - 1]
                      \o Shifts(PrevTables(start, s)[k - 1], TableOf(s[k]), NextTable(s, k))
                      \o <<PlaceOf(s[k])[2] + 6>> \o Literal(s[k])]

LEMMA CodesTyped ==
  ASSUME NEW s \in Seq(Chars), NEW start \in 0 .. 2
  PROVE  EncodedFrom(start, s) \in Seq(Int)
<1>. DEFINE n == Len(s)
            V == Seq(Int)
            prev == PrevTables(start, s)
            more(k) == Shifts(prev[k - 1], TableOf(s[k]), NextTable(s, k))
                         \o <<PlaceOf(s[k])[2] + 6>> \o Literal(s[k])
            next == [kv \in (1 .. n) \X V |->
                       kv[2] \o Shifts(prev[kv[1] - 1], TableOf(s[kv[1]]), NextTable(s, kv[1]))
                         \o <<PlaceOf(s[kv[1]])[2] + 6>> \o Literal(s[kv[1]])]
<1>1. n \in Nat
  OBVIOUS
<1>2. prev \in [0 .. n -> 0 .. 2]
  BY PrevTyped
<1>3. ASSUME NEW k \in 1 .. n
      PROVE  /\ Shifts(prev[k - 1], TableOf(s[k]), NextTable(s, k)) \in V
             /\ <<PlaceOf(s[k])[2] + 6>> \in V
             /\ Literal(s[k]) \in V
  <2>1. k - 1 \in 0 .. n
    BY <1>1
  <2>2. prev[k - 1] \in 0 .. 2
    BY <1>2, <2>1
  <2>3. TableOf(s[k]) \in 0 .. 2 /\ PlaceOf(s[k])[2] \in 0 .. 25
    BY PlaceTyped DEF TableOf
  <2>4. s[k] \in 0 .. 255
    <3>1. s[k] \in Chars
      OBVIOUS
    <3>. QED  BY <3>1 DEF Chars
  <2>. HIDE DEF prev
  <2>5. ShiftKey(prev[k - 1], TableOf(s[k]), NextTable(s, k)) \in Int
    BY <2>2, <2>3 DEF ShiftKey
  <2>6. Shifts(prev[k - 1], TableOf(s[k]), NextTable(s, k)) \in V
    BY <2>3, <2>5 DEF Shifts
  <2>7. Literal(s[k]) \in V
    <3>0. \A c \in 0 .. 255 : (c \div 32) % 8 \in Int /\ c % 32 \in Int
      <4>. TAKE c \in 0 .. 255
      <4>1. c \div 32 \in Int /\ c % 32 \in Int
        OBVIOUS
      <4>. QED  BY <4>1
    <3>1. (s[k] \div 32) % 8 \in Int /\ s[k] % 32 \in Int
      BY <2>4, <3>0
    <3>2. <<(s[k] \div 32) % 8, s[k] % 32>> \in V /\ <<>> \in V
      BY <3>1
    <3>. QED  BY <3>2 DEF Literal
  <2>8. <<PlaceOf(s[k])[2] + 6>> \in V
    <3>1. \A x \in 0 .. 25 : <<x + 6>> \in V
      <4>. TAKE x \in 0 .. 25
      <4>1. x + 6 \in Int
        OBVIOUS
      <4>. QED  BY <4>1
    <3>. QED  BY <2>3, <3>1
  <2>. QED  BY <2>6, <2>7, <2>8 DEF prev
<1>. HIDE DEF n
<1>4. \A k \in 1 .. n : \A v \in V :
        next[<<k, v>>] = v \o Shifts(prev[k - 1], TableOf(s[k]), NextTable(s, k))
                           \o <<PlaceOf(s[k])[2] + 6>> \o Literal(s[k])
  OBVIOUS
<1>5. next \in [(1 .. n) \X V -> V]
  <2>1. \A v, a, b, c \in V : v \o a \o b \o c \in V
    OBVIOUS
  <2>. HIDE DEF V
  <2>. QED  BY <1>3, <2>1
<1>. HIDE DEF next
<1>6. PICK f : IsAlong(f, n, V, <<>>, next)
  <2>1. <<>> \in V
    OBVIOUS
  <2>. HIDE DEF V
  <2>2. Steps(n, V, <<>>, next)
    BY <1>1, <1>5, <2>1 DEF Steps
  <2>. QED  BY <2>2, AlongText
<1>. HIDE DEF V
<1>7. \A k \in 0 .. n :
        f[k] = IF k = 0 THEN <<>>
               ELSE f[k - 1] \o Shifts(prev[k - 1], TableOf(s[k]), NextTable(s, k))
                      \o <<PlaceOf(s[k])[2] + 6>> \o Literal(s[k])
  <2>. SUFFICES ASSUME NEW k \in 0 .. n
                PROVE  f[k] = IF k = 0 THEN <<>>
                              ELSE f[k - 1] \o Shifts(prev[k - 1], TableOf(s[k]), NextTable(s, k))
                                     \o <<PlaceOf(s[k])[2] + 6>> \o Literal(s[k])
    OBVIOUS
  <2>1. f[k] = IF k = 0 THEN <<>> ELSE next[<<k, f[k - 1]>>]
    BY <1>6 DEF IsAlong
  <2>2. k # 0 => k \in 1 .. n /\ f[k - 1] \in V
    BY <1>1, <1>6 DEF IsAlong
  <2>3. k # 0 => next[<<k, f[k - 1]>>] =
                   f[k - 1] \o Shifts(prev[k - 1], TableOf(s[k]), NextTable(s, k))
                     \o <<PlaceOf(s[k])[2] + 6>> \o Literal(s[k])
    BY <1>4, <2>2
  <2>. QED  BY <2>1, <2>3
<1>8. IsCodes(f, start, s)
  BY <1>6, <1>7 DEF IsCodes, IsAlong, n, prev
<1>. DEFINE codes == CHOOSE codes : IsCodes(codes, start, s)
<1>9. EncodedFrom(start, s) = codes[n]
  BY DEF EncodedFrom, IsCodes, n
<1>10. IsCodes(codes, start, s)
  BY <1>8
<1>. HIDE DEF codes
<1>11. \A k \in 0 .. n :
        codes[k] = IF k = 0 THEN <<>>
               ELSE codes[k - 1] \o Shifts(prev[k - 1], TableOf(s[k]), NextTable(s, k))
                      \o <<PlaceOf(s[k])[2] + 6>> \o Literal(s[k])
  BY <1>10 DEF IsCodes, n, prev
<1>. HIDE DEF prev
<1>. DEFINE S == {k \in Nat : k \in 0 .. n => codes[k] \in V}
<1>12. ASSUME NEW k \in Nat, 0 .. k - 1 \subseteq S  PROVE k \in S
  <2>. SUFFICES ASSUME k \in 0 .. n  PROVE codes[k] \in V
    OBVIOUS
  <2>1. CASE k = 0
    <3>1. codes[k] = <<>>
      BY <1>11, <2>1, Zenon
    <3>. QED  BY <3>1 DEF V
  <2>2. CASE k # 0
    <3>1. k \in 1 .. n /\ k - 1 \in 0 .. n /\ k - 1 \in 0 .. k - 1
      BY <1>1, <2>2
    <3>2. codes[k - 1] \in V
      BY <1>12, <3>1
    <3>3. \A v, a, b, c \in V : v \o a \o b \o c \in V
      BY DEF V
    <3>4. codes[k] = codes[k - 1] \o Shifts(prev[k - 1], TableOf(s[k]), NextTable(s, k))
                       \o <<PlaceOf(s[k])[2] + 6>> \o Literal(s[k])
      BY <1>11, <2>2, Zenon
    <3>. QED  BY <1>3, <3>1, <3>2, <3>3, <3>4
  <2>. QED  BY <2>1, <2>2
<1>13. Nat \subseteq S
  <2>. HIDE DEF S
  <2>. QED  BY <1>12, Ladder
<1>14. codes[n] \in V
  BY <1>1, <1>13
<1>. QED  BY <1>9, <1>14 DEF V

\* An encoded word has three words.
LEMMA EncodingTyped ==
  ASSUME NEW s \in Seq(Chars)
  PROVE  encode_text(s) \in Triple
<1>. DEFINE codes == Codes(s)
            word3(i) == codes[3 * i - 2] * 1024 + codes[3 * i - 1] * 32 + codes[3 * i]
<1>1. EncodedFrom(0, s) \in Seq(Int)
  BY CodesTyped
<1>2. \A i \in 1 .. 9 : codes[i] \in Int
  <2>. DEFINE e == EncodedFrom(0, s)
              p == Pads
  <2>1. p \in Seq(Int) /\ Len(p) = 9
    BY DEF Pads
  <2>. HIDE DEF e, p
  <2>2. e \in Seq(Int)
    BY <1>1 DEF e
  <2>3. e \o p \in Seq(Int) /\ Len(e \o p) >= 9
    <3>1. e \o p \in Seq(Int) /\ Len(e \o p) = Len(e) + Len(p)
      BY <2>1, <2>2, ConcatProperties
    <3>2. Len(e) \in Nat
      BY <2>2, LenProperties
    <3>. QED  BY <2>1, <3>1, <3>2
  <2>. DEFINE ep == e \o p
  <2>. HIDE DEF ep
  <2>4. codes = SubSeq(ep, 1, 9) /\ ep \in Seq(Int) /\ Len(ep) >= 9
    BY <2>3 DEF ep, e, p, Codes
  <2>5. \A i \in 1 .. 9 : SubSeq(ep, 1, 9)[i] = ep[i] /\ ep[i] \in Int
    <3>1. \A i \in 1 .. 9 : ep[i] \in Int
      <4>. DEFINE n == Len(ep)
      <4>1. n \in Nat /\ n >= 9
        BY <2>4, LenProperties
      <4>2. \A i \in 1 .. n : ep[i] \in Int
        BY <2>4, ElementOfSeq
      <4>. HIDE DEF n
      <4>. TAKE i \in 1 .. 9
      <4>3. i \in 1 .. n
        BY <4>1
      <4>. QED  BY <4>2, <4>3
    <3>2. \A i \in 1 .. 9 - 1 + 1 : SubSeq(ep, 1, 9)[i] = ep[1 + i - 1]
      BY <3>1, SubSeqProperties
    <3>. TAKE i \in 1 .. 9
    <3>3. i \in 1 .. 9 - 1 + 1 /\ 1 + i - 1 = i
      OBVIOUS
    <3>. QED  BY <3>1, <3>2, <3>3
  <2>. QED  BY <2>4, <2>5
<1>3. encode_text(s) = [i \in 1 .. 3 |-> IF i = LastWord THEN word3(i) - 32768 ELSE word3(i)]
  BY DEF encode_text
<1>. HIDE DEF codes
<1>4. ASSUME NEW i \in 1 .. 3  PROVE word3(i) \in Int
  <2>1. 3 * i - 2 \in 1 .. 9 /\ 3 * i - 1 \in 1 .. 9 /\ 3 * i \in 1 .. 9
    OBVIOUS
  <2>. DEFINE a == codes[3 * i - 2]
              b == codes[3 * i - 1]
              c == codes[3 * i]
  <2>2. a \in Int /\ b \in Int /\ c \in Int
    BY <1>2, <2>1
  <2>. HIDE DEF a, b, c
  <2>3. a * 1024 + b * 32 + c \in Int
    BY <2>2
  <2>. QED  BY <2>3 DEF a, b, c
<1>. HIDE DEF word3
<1>5. \A i \in 1 .. 3 : word3(i) \in Int /\ word3(i) - 32768 \in Int
  BY <1>4
<1>. QED  BY <1>3, <1>5 DEF Triple

-----------------------------------------------------------------------------
(* The steps of the binary chop *)

\* The powers of two: the numbers that doubling reaches from 1.
Powers ==
    {c \in Nat : \A Q \in SUBSET Nat : 1 \in Q /\ (\A x \in Q : 2 * x \in Q) => c \in Q}

LEMMA PowerLaws ==
  /\ 1 \in Powers
  /\ \A c \in Powers : 2 * c \in Powers
  /\ \A c \in Powers : c = 1 \/ (c \div 2 \in Powers /\ c = 2 * (c \div 2))
  /\ \A c \in Powers : c \in Nat /\ c >= 1
<1>1. 1 \in Powers
  BY DEF Powers
<1>2. ASSUME NEW c \in Powers  PROVE 2 * c \in Powers
  <2>1. c \in Nat /\ 2 * c \in Nat
    BY DEF Powers
  <2>2. ASSUME NEW Q \in SUBSET Nat, 1 \in Q, \A x \in Q : 2 * x \in Q  PROVE 2 * c \in Q
    <3>1. c \in Q
      BY <2>2 DEF Powers
    <3>. QED  BY <2>2, <3>1
  <2>. QED  BY <2>1, <2>2 DEF Powers
<1>3. ASSUME NEW c \in Powers
      PROVE  c = 1 \/ (c \div 2 \in Powers /\ c = 2 * (c \div 2))
  <2>. DEFINE Q == {1} \cup {2 * x : x \in Powers}
  <2>1. \A x \in Powers : x \in Nat
    BY DEF Powers
  <2>2. Q \in SUBSET Nat /\ 1 \in Q
    BY <2>1
  <2>3. \A x \in Q : 2 * x \in Q
    BY <1>1, <1>2
  <2>4. c \in Q
    <3>. HIDE DEF Q
    <3>. QED  BY <2>2, <2>3 DEF Powers
  <2>5. CASE c # 1
    <3>1. PICK x \in Powers : c = 2 * x
      BY <2>4, <2>5
    <3>2. c \div 2 = x
      BY <2>1, <3>1
    <3>. QED  BY <3>1, <3>2
  <2>. QED  BY <2>5
<1>4. ASSUME NEW c \in Powers  PROVE c \in Nat /\ c >= 1
  <2>. DEFINE Q == Nat \ {0}
  <2>1. Q \in SUBSET Nat /\ 1 \in Q /\ \A x \in Q : 2 * x \in Q
    OBVIOUS
  <2>2. c \in Nat /\ c \in Q
    <3>. HIDE DEF Q
    <3>. QED  BY <2>1 DEF Powers
  <2>. QED  BY <2>2
<1>. QED  BY <1>1, <1>2, <1>3, <1>4

IsDoubled(doubled, n) ==
    doubled = [half \in 0 .. n |->
                 IF half \div 2 = 0 THEN 2 ELSE 2 * doubled[half \div 2]]

LEMMA DoubledExists ==
  ASSUME NEW n \in Nat
  PROVE  \E f \in [0 .. n -> Nat] : IsDoubled(f, n)
<1>. DEFINE D == 0 .. n
            V == Nat
            body(f, k) == IF k \div 2 = 0 THEN 2 ELSE 2 * f[k \div 2]
            rank == [k \in D |-> k]
            bound == n + 1
            step == [k \in D |-> [f \in [D -> V] |-> body(f, k)]]
<1>1. \A k \in D : k \div 2 \in D /\ (k \div 2 # 0 => k \div 2 < k)
  OBVIOUS
<1>2. ASSUME NEW k \in D, NEW f \in [D -> V]  PROVE body(f, k) \in V
  <2>1. f[k \div 2] \in Nat
    BY <1>1
  <2>. QED  BY <2>1
<1>3. ASSUME NEW k \in D, NEW f \in [D -> V], NEW g \in [D -> V],
             \A j \in D : rank[j] < rank[k] => f[j] = g[j]
      PROVE  body(f, k) = body(g, k)
  <2>1. k \div 2 # 0 => f[k \div 2] = g[k \div 2]
    BY <1>1, <1>3
  <2>. QED  BY <2>1
<1>4. rank \in [D -> Nat] /\ bound \in Nat /\ \A x \in D : rank[x] < bound
  OBVIOUS
<1>5. \A k \in D : \A f \in [D -> V] : step[k][f] = body(f, k)
  OBVIOUS
<1>. HIDE DEF body
<1>6. step \in [D -> [[D -> V] -> V]]
  BY <1>2
<1>7. V # {}
  OBVIOUS
<1>. HIDE DEF step, rank, bound, V
<1>8. \E f \in [D -> V] : \A x \in D : f[x] = step[x][f]
  <2>1. \A x \in D : \A f, g \in [D -> V] :
          (\A y \in D : rank[y] < rank[x] => f[y] = g[y]) => step[x][f] = step[x][g]
    <3>. HIDE DEF D
    <3>. TAKE x \in D
    <3>. TAKE f, g \in [D -> V]
    <3>. HAVE \A y \in D : rank[y] < rank[x] => f[y] = g[y]
    <3>1. step[x][f] = body(f, x) /\ step[x][g] = body(g, x)
      BY <1>5
    <3>2. body(f, x) = body(g, x)
      BY <1>3
    <3>. QED  BY <3>1, <3>2
  <2>. HIDE DEF D
  <2>2. Descends(D, V, rank, bound, step)
    BY <1>4, <1>6, <1>7, <2>1 DEF Descends
  <2>. QED  BY <2>2, RecursiveFunction
<1>9. PICK f \in [D -> V] : \A x \in D : f[x] = body(f, x)
  BY <1>5, <1>8
<1>10. f = [k \in D |-> body(f, k)]
  BY <1>9
<1>. QED  BY <1>10 DEF body, IsDoubled, V

\* The chop starts at the power of two that is at most the size of the
\* dictionary and more than half of it; with one entry it starts at two.
LEMMA StartOfChop ==
  ASSUME NEW n \in Nat, n > 0
  PROVE  /\ StartChop(n) \in Powers
         /\ n = 1 => StartChop(n) = 2
         /\ n >= 2 => StartChop(n) <= n /\ n < 2 * StartChop(n)
<1>. DEFINE d == CHOOSE d : IsDoubled(d, n)
<1>1. StartChop(n) = d[n \div 2]
  BY DEF StartChop, IsDoubled
<1>2. IsDoubled(d, n)
  BY DoubledExists
<1>. HIDE DEF d
<1>3. \A h \in 0 .. n : d[h] = IF h \div 2 = 0 THEN 2 ELSE 2 * d[h \div 2]
  BY <1>2 DEF IsDoubled
<1>. DEFINE Good(h) == /\ d[h] \in Powers
                       /\ h \in {0, 1} => d[h] = 2
                       /\ h >= 1 => d[h] <= 2 * h /\ h < d[h]
            S == {h \in Nat : h \in 0 .. n => Good(h)}
<1>4. ASSUME NEW h \in Nat, 0 .. h - 1 \subseteq S  PROVE h \in S
  <2>. SUFFICES ASSUME h \in 0 .. n  PROVE Good(h)
    OBVIOUS
  <2>1. CASE h \div 2 = 0
    <3>1. h \in {0, 1}
      BY <2>1
    <3>2. d[h] = 2
      BY <1>3, <2>1
    <3>3. 2 \in Powers
      <4>1. 2 * 1 \in Powers
        BY PowerLaws
      <4>. QED  BY <4>1
    <3>. QED  BY <3>1, <3>2, <3>3
  <2>2. CASE h \div 2 # 0
    <3>. DEFINE k == h \div 2
    <3>1. k \in 0 .. h - 1 /\ k \in 0 .. n /\ k >= 1 /\ h >= 2 * k /\ h <= 2 * k + 1 /\ h >= 2
      BY <2>2
    <3>2. d[h] = 2 * d[k]
      BY <1>3, <2>2
    <3>3. Good(k)
      BY <1>4, <3>1
    <3>. HIDE DEF k
    <3>4. d[k] \in Nat
      BY <3>3, PowerLaws
    <3>5. d[k] <= 2 * k /\ k < d[k]
      BY <3>1, <3>3
    <3>6. 2 * d[k] \in Powers
      BY <3>3, PowerLaws
    <3>7. 2 * d[k] <= 2 * h /\ h < 2 * d[k]
      BY <3>1, <3>4, <3>5
    <3>. QED  BY <3>1, <3>2, <3>6, <3>7
  <2>. QED  BY <2>1, <2>2
<1>5. Nat \subseteq S
  <2>. HIDE DEF S
  <2>. QED  BY <1>4, Ladder
<1>. DEFINE h == n \div 2
<1>6. h \in 0 .. n /\ h \in Nat /\ n >= 2 * h /\ n <= 2 * h + 1
  OBVIOUS
<1>7. Good(h)
  BY <1>5, <1>6
<1>8. StartChop(n) = d[h]
  BY <1>1
<1>. HIDE DEF h
<1>9. d[h] \in Nat
  BY <1>7, PowerLaws
<1>10. n = 1 => h = 0
  BY <1>6
<1>11. n >= 2 => h >= 1
  BY <1>6
<1>12. n >= 2 => d[h] <= n /\ n < 2 * d[h]
  BY <1>6, <1>7, <1>9, <1>11
<1>. QED  BY <1>7, <1>8, <1>10, <1>12

-----------------------------------------------------------------------------
(* The tokens of a line of n characters, with its letters at L and the     *)
(* separators of the game at P                                             *)

Line(n, L, P) == n \in Nat /\ L \subseteq 1 .. n /\ P \subseteq 1 .. n /\ L \cap P = {}

IsTokenIn(n, L, P, t) ==
    /\ t.start + t.length <= n + 1
    /\ \/ t.length = 1 /\ t.start \in P
       \/ /\ \A p \in t.start .. t.start + t.length - 1 : p \in L
          /\ t.start > 1 => t.start - 1 \notin L
          /\ t.start + t.length - 1 < n => t.start + t.length \notin L

TokensIn(n, L, P) == {t \in [start : 1 .. n, length : 1 .. n] : IsTokenIn(n, L, P, t)}

\* The tokens that start before a place.
Before(n, L, P, c) == {t \in TokensIn(n, L, P) : t.start < c}

\* No token goes across a place.
NoneAcross(L, c) == c = 1 \/ c - 1 \notin L \/ c \notin L

\* What next_token finds behind c: a token and the place behind it, and behind
\* the static separator that ends it, or nothing.
IsNext(n, L, P, c, t, next) ==
    /\ t \in [start : c .. n + 1, length : 0 .. n]
    /\ \A q \in c .. t.start - 1 : q \notin L /\ q \notin P
    /\ \/ t.start = n + 1 /\ t.length = 0 /\ next = n + 1
       \/ t.start \in P /\ t.length = 1 /\ next = t.start + 1
       \/ /\ t.start \in L /\ t.length >= 1 /\ t.start + t.length <= n + 1
          /\ \A q \in t.start .. t.start + t.length - 1 : q \in L
          /\ t.start + t.length \notin L
          /\ \/ next = t.start + t.length
             \/ /\ next = t.start + t.length + 1
                /\ t.start + t.length <= n
                /\ t.start + t.length \notin P

\* A token that starts where next_token's one does, or behind it up to the place
\* behind it, is the same.
LEMMA SameToken ==
  ASSUME NEW n, NEW L, NEW P, Line(n, L, P), NEW c \in 1 .. n + 1, NEW t, NEW next,
         IsNext(n, L, P, c, t, next),
         NEW u \in TokensIn(n, L, P), u.start >= c, u.start < next
  PROVE  t.length > 0 /\ u = t
<1>. USE DEF Line
<1>. DEFINE s == t.start
            k == t.length
            us == u.start
            uk == u.length
<1>1. /\ n \in Nat /\ c \in 1 .. n + 1
      /\ s \in c .. n + 1 /\ k \in 0 .. n /\ us \in 1 .. n /\ uk \in 1 .. n
      /\ t = [start |-> s, length |-> k] /\ u = [start |-> us, length |-> uk]
  BY DEF IsNext, TokensIn
<1>2. /\ \A q \in c .. s - 1 : q \notin L /\ q \notin P
      /\ \/ s = n + 1 /\ k = 0 /\ next = n + 1
         \/ s \in P /\ k = 1 /\ next = s + 1
         \/ /\ s \in L /\ k >= 1 /\ s + k <= n + 1
            /\ \A q \in s .. s + k - 1 : q \in L
            /\ s + k \notin L
            /\ \/ next = s + k
               \/ next = s + k + 1 /\ s + k <= n /\ s + k \notin P
  BY DEF IsNext
<1>3. /\ us + uk <= n + 1
      /\ \/ uk = 1 /\ us \in P
         \/ /\ \A p \in us .. us + uk - 1 : p \in L
            /\ us > 1 => us - 1 \notin L
            /\ us + uk - 1 < n => us + uk \notin L
  BY DEF TokensIn, IsTokenIn
<1>4. us >= c /\ us < next
  OBVIOUS
<1>. HIDE DEF s, k, us, uk
<1>5. us \in L \/ us \in P
  <2>1. us \in us .. us + uk - 1
    BY <1>1
  <2>. QED  BY <1>3, <2>1
<1>6. us >= s
  <2>1. ~ (us \in c .. s - 1)
    BY <1>2, <1>5
  <2>. QED  BY <1>1, <1>4, <2>1
<1>7. CASE s = n + 1 /\ k = 0 /\ next = n + 1
  BY <1>1, <1>4, <1>6, <1>7
<1>8. CASE s \in P /\ k = 1 /\ next = s + 1
  <2>1. us = s
    BY <1>1, <1>4, <1>6, <1>8
  <2>2. us \notin L
    BY <1>8, <2>1
  <2>3. us \in us .. us + uk - 1
    BY <1>1
  <2>4. uk = 1
    BY <1>3, <2>2, <2>3
  <2>. QED  BY <1>1, <1>8, <2>1, <2>4 DEF k, s
<1>9. CASE /\ s \in L /\ k >= 1 /\ s + k <= n + 1
           /\ \A q \in s .. s + k - 1 : q \in L
           /\ s + k \notin L
           /\ \/ next = s + k
              \/ next = s + k + 1 /\ s + k <= n /\ s + k \notin P
  <2>1. us < s + k
    <3>1. us <= s + k
      BY <1>1, <1>4, <1>9
    <3>2. next = s + k => us # s + k
      BY <1>1, <1>4
    <3>3. next # s + k => us # s + k
      BY <1>5, <1>9
    <3>. QED  BY <1>1, <3>1, <3>2, <3>3
  <2>2. us \in s .. s + k - 1
    BY <1>1, <1>6, <2>1
  <2>3. us \in L /\ us \notin P
    BY <1>9, <2>2
  <2>4. /\ \A p \in us .. us + uk - 1 : p \in L
        /\ us > 1 => us - 1 \notin L
        /\ us + uk - 1 < n => us + uk \notin L
    BY <1>3, <2>3
  <2>5. us = s
    <3>1. us # s => us - 1 \in s .. s + k - 1 /\ us > 1
      BY <1>1, <2>2
    <3>. QED  BY <1>9, <2>4, <3>1
  <2>6. ~ (uk < k)
    <3>1. uk < k => us + uk \in s .. s + k - 1 /\ us + uk - 1 < n
      BY <1>1, <1>9, <2>5
    <3>. QED  BY <1>9, <2>4, <3>1
  <2>7. ~ (uk > k)
    <3>1. uk > k => s + k \in us .. us + uk - 1
      BY <1>1, <2>5
    <3>. QED  BY <1>9, <2>4, <3>1
  <2>8. uk = k
    BY <1>1, <2>6, <2>7
  <2>9. k > 0
    BY <1>1, <1>9
  <2>. QED  BY <1>1, <2>5, <2>8, <2>9 DEF k
<1>. QED  BY <1>2, <1>7, <1>8, <1>9

\* What next_token finds is a token, and no token is passed over.
LEMMA NextIsToken ==
  ASSUME NEW n, NEW L, NEW P, Line(n, L, P), NEW c \in 1 .. n + 1, NEW t, NEW next,
         IsNext(n, L, P, c, t, next), NoneAcross(L, c)
  PROVE  /\ next \in 1 .. n + 1 /\ next >= c /\ NoneAcross(L, next)
         /\ t.length = 0 => Before(n, L, P, c) = TokensIn(n, L, P)
                              /\ Before(n, L, P, next) = TokensIn(n, L, P)
         /\ t.length # 0 =>
              /\ t \in TokensIn(n, L, P)
              /\ t.start >= c /\ t.start < next
              /\ Before(n, L, P, next) = Before(n, L, P, c) \cup {t}
              /\ Before(n, L, P, t.start) = Before(n, L, P, c)
<1>0. \A u \in TokensIn(n, L, P) : u.start >= c /\ u.start < next => t.length > 0 /\ u = t
  <2>. HIDE DEF Line
  <2>. QED  BY SameToken
<1>. USE DEF Line
<1>. DEFINE s == t.start
            k == t.length
            T == TokensIn(n, L, P)
<1>1. /\ n \in Nat /\ c \in 1 .. n + 1
      /\ s \in c .. n + 1 /\ k \in 0 .. n
      /\ t = [start |-> s, length |-> k]
  BY DEF IsNext
<1>2. /\ \A q \in c .. s - 1 : q \notin L /\ q \notin P
      /\ \/ s = n + 1 /\ k = 0 /\ next = n + 1
         \/ s \in P /\ k = 1 /\ next = s + 1
         \/ /\ s \in L /\ k >= 1 /\ s + k <= n + 1
            /\ \A q \in s .. s + k - 1 : q \in L
            /\ s + k \notin L
            /\ \/ next = s + k
               \/ next = s + k + 1 /\ s + k <= n /\ s + k \notin P
  BY DEF IsNext
<1>3. \A u \in T : u.start >= c /\ u.start < next => k > 0 /\ u = t
  BY <1>0
<1>4. \A u \in T : u.start \in 1 .. n /\ u.start \in Int
  BY DEF TokensIn
<1>. HIDE DEF s, k, T
<1>5. /\ next \in 1 .. n + 1 /\ next >= c /\ next >= s
      /\ k # 0 => s < next
  <2>1. CASE s = n + 1 /\ k = 0 /\ next = n + 1
    BY <1>1, <2>1
  <2>2. CASE s \in P /\ k = 1 /\ next = s + 1
    <3>1. s \in 1 .. n
      BY <2>2
    <3>. QED  BY <1>1, <2>2, <3>1
  <2>3. CASE k >= 1 /\ s + k <= n + 1 /\ next = s + k
    BY <1>1, <2>3
  <2>4. CASE k >= 1 /\ s + k <= n /\ next = s + k + 1
    BY <1>1, <2>4
  <2>. QED  BY <1>2, <2>1, <2>2, <2>3, <2>4
<1>6. NoneAcross(L, next)
  <2>1. CASE s = n + 1 /\ k = 0 /\ next = n + 1
    <3>1. next \notin L
      BY <1>1, <2>1
    <3>. QED  BY <3>1 DEF NoneAcross
  <2>2. CASE s \in P /\ k = 1 /\ next = s + 1
    <3>1. next - 1 = s /\ s \notin L
      BY <1>1, <2>2
    <3>. QED  BY <3>1 DEF NoneAcross
  <2>3. CASE next = s + k /\ s + k \notin L
    BY <2>3 DEF NoneAcross
  <2>4. CASE next = s + k + 1 /\ s + k \notin L
    <3>1. next - 1 = s + k
      BY <1>1, <2>4
    <3>. QED  BY <2>4, <3>1 DEF NoneAcross
  <2>. QED  BY <1>2, <2>1, <2>2, <2>3, <2>4
<1>7. CASE k = 0
  <2>1. next = n + 1
    BY <1>1, <1>2, <1>7
  <2>2. \A u \in T : u.start < c
    <3>. TAKE u \in T
    <3>1. u.start < next
      BY <1>1, <1>4, <2>1
    <3>2. ~ (u.start >= c)
      BY <1>1, <1>3, <1>7, <3>1
    <3>. QED  BY <1>1, <1>4, <3>2
  <2>3. \A u \in T : u.start < next
    BY <1>1, <1>4, <2>1
  <2>4. Before(n, L, P, c) = T /\ Before(n, L, P, next) = T
    BY <2>2, <2>3 DEF Before, T
  <2>. QED  BY <1>5, <1>6, <1>7, <2>4 DEF T, k
<1>8. CASE k # 0
  <2>1. t \in T
    <3>1. s \in 1 .. n /\ k \in 1 .. n /\ s + k <= n + 1
      <4>1. CASE s \in P /\ k = 1
        BY <1>1, <4>1
      <4>2. CASE k >= 1 /\ s + k <= n + 1
        BY <1>1, <4>2
      <4>. QED  BY <1>1, <1>2, <1>8, <4>1, <4>2
    <3>2. \/ k = 1 /\ s \in P
          \/ /\ \A p \in s .. s + k - 1 : p \in L
             /\ s > 1 => s - 1 \notin L
             /\ s + k - 1 < n => s + k \notin L
      <4>1. CASE s \in P /\ k = 1
        BY <4>1
      <4>2. CASE s \in L /\ (\A q \in s .. s + k - 1 : q \in L) /\ s + k \notin L
        <5>1. s > 1 => s - 1 \notin L
          <6>1. CASE s = c
            BY <4>2, <6>1 DEF NoneAcross
          <6>2. CASE s # c
            <7>1. s - 1 \in c .. s - 1
              BY <1>1, <6>2
            <7>. QED  BY <1>2, <7>1
          <6>. QED  BY <6>1, <6>2
        <5>. QED  BY <4>2, <5>1
      <4>. QED  BY <1>1, <1>2, <1>8, <4>1, <4>2
    <3>3. IsTokenIn(n, L, P, t)
      BY <3>1, <3>2 DEF IsTokenIn, s, k
    <3>. QED  BY <1>1, <3>1, <3>3 DEF T, TokensIn
  <2>2. s >= c /\ s < next
    BY <1>1, <1>5, <1>8
  <2>3. Before(n, L, P, next) = Before(n, L, P, c) \cup {t}
    <3>1. \A u \in T : u.start < next <=> (u.start < c \/ u = t)
      <4>. TAKE u \in T
      <4>1. u.start < next /\ ~ (u.start < c) => u = t
        BY <1>1, <1>3, <1>4
      <4>2. u.start < c => u.start < next
        BY <1>1, <1>4, <1>5
      <4>3. u = t => u.start < next
        BY <2>2 DEF s
      <4>. QED  BY <4>1, <4>2, <4>3
    <3>. QED  BY <2>1, <3>1 DEF Before, T
  <2>4. Before(n, L, P, s) = Before(n, L, P, c)
    <3>1. \A u \in T : u.start < s <=> u.start < c
      <4>. TAKE u \in T
      <4>1. u.start < c => u.start < s
        BY <1>1, <1>4
      <4>2. u.start < s /\ ~ (u.start < c) => FALSE
        <5>1. u.start < s /\ ~ (u.start < c) => u.start < next /\ u.start >= c
          BY <1>1, <1>4, <1>5
        <5>2. u = t => u.start = s
          BY DEF s
        <5>. QED  BY <1>1, <1>3, <1>4, <5>1, <5>2
      <4>. QED  BY <4>1, <4>2
    <3>. QED  BY <3>1 DEF Before, T
  <2>. QED  BY <1>5, <1>6, <1>8, <2>1, <2>2, <2>3, <2>4 DEF T, k, s
<1>. QED  BY <1>7, <1>8

LEMMA TokensAreFinite ==
  ASSUME NEW n, NEW L, NEW P, Line(n, L, P)
  PROVE  IsFiniteSet(TokensIn(n, L, P))
<1>. DEFINE S == (1 .. n) \X (1 .. n)
            T == [start : 1 .. n, length : 1 .. n]
            f == [p \in S |-> [start |-> p[1], length |-> p[2]]]
<1>1. IsFiniteSet(S)
  <2>1. IsFiniteSet(1 .. n)
    BY FS_Interval DEF Line
  <2>. QED  BY <2>1, FS_Product
<1>2. f \in Surjection(S, T)
  <2>1. f \in [S -> T]
    OBVIOUS
  <2>2. ASSUME NEW t \in T  PROVE \E p \in S : f[p] = t
    <3>1. <<t.start, t.length>> \in S /\ f[<<t.start, t.length>>] = t
      OBVIOUS
    <3>. QED  BY <3>1
  <2>. HIDE DEF f
  <2>. QED  BY <2>1, <2>2 DEF Surjection
<1>3. IsFiniteSet(T)
  <2>. HIDE DEF S, T, f
  <2>. QED  BY <1>1, <1>2, FS_Surjection
<1>4. TokensIn(n, L, P) \in SUBSET T
  BY DEF TokensIn
<1>. HIDE DEF T
<1>. QED  BY <1>3, <1>4, FS_Subset

\* A token has fewer tokens before it than a place behind its start.
LEMMA FewerBefore ==
  ASSUME NEW n, NEW L, NEW P, Line(n, L, P), NEW c \in Int,
         NEW t \in TokensIn(n, L, P)
  PROVE  /\ IsFiniteSet(Before(n, L, P, c)) /\ Cardinality(Before(n, L, P, c)) \in Nat
         /\ Cardinality(Before(n, L, P, t.start)) \in Nat
         /\ t.start < c =>
              Cardinality(Before(n, L, P, t.start)) < Cardinality(Before(n, L, P, c))
<1>. DEFINE T == TokensIn(n, L, P)
            A == Before(n, L, P, t.start)
            B == Before(n, L, P, c)
<1>1. IsFiniteSet(T) /\ \A u \in T : u.start \in Int
  BY TokensAreFinite DEF TokensIn
<1>2. A \in SUBSET T /\ B \in SUBSET T /\ t \notin A
  BY <1>1 DEF Before
<1>3. IsFiniteSet(A) /\ IsFiniteSet(B)
  <2>. HIDE DEF T, A, B
  <2>. QED  BY <1>1, <1>2, FS_Subset
<1>4. Cardinality(A) \in Nat /\ Cardinality(B) \in Nat
  <2>. HIDE DEF A, B
  <2>. QED  BY <1>3, FS_CardinalityType
<1>5. ASSUME t.start < c  PROVE Cardinality(A) < Cardinality(B)
  <2>1. A \cup {t} \in SUBSET B
    <3>1. \A u \in T : u.start < t.start => u.start < c
      BY <1>1, <1>5
    <3>. QED  BY <1>5, <3>1 DEF Before
  <2>. HIDE DEF A, B
  <2>2. Cardinality(A \cup {t}) = Cardinality(A) + 1
    BY <1>2, <1>3, FS_AddElement
  <2>3. Cardinality(A \cup {t}) <= Cardinality(B)
    BY <1>3, <2>1, FS_Subset
  <2>. QED  BY <1>4, <2>2, <2>3
<1>. QED  BY <1>3, <1>4, <1>5

LEMMA OneMore ==
  ASSUME NEW n, NEW L, NEW P, Line(n, L, P), NEW c \in Int,
         NEW t \in TokensIn(n, L, P), t.start >= c
  PROVE  Cardinality(Before(n, L, P, c) \cup {t}) = Cardinality(Before(n, L, P, c)) + 1
<1>. DEFINE B == Before(n, L, P, c)
<1>1. IsFiniteSet(B)
  BY FewerBefore
<1>2. t \notin B
  BY DEF Before, TokensIn
<1>. HIDE DEF B
<1>3. Cardinality(B \cup {t}) = Cardinality(B) + 1
  BY <1>1, <1>2, FS_AddElement
<1>. QED  BY <1>3 DEF B

LEMMA NoneBeforeTheLine ==
  ASSUME NEW n, NEW L, NEW P, Line(n, L, P)
  PROVE  /\ Cardinality(Before(n, L, P, 1)) = 0 /\ NoneAcross(L, 1)
         /\ Before(n, L, P, 1) = {}
<1>1. Before(n, L, P, 1) = {}
  BY DEF Before, TokensIn
<1>. QED  BY <1>1, FS_EmptySet DEF NoneAcross

-----------------------------------------------------------------------------
(* The line that is tokenised *)

Length == Len(cbuf)
Letters == {p \in 1 .. Length : Letter(cbuf[p])}
Puncts == {p \in 1 .. Length : Punctuation(cbuf[p])}

LEMMA LineTyped ==
  ASSUME Length \in Nat
  PROVE  /\ Line(Length, Letters, Puncts) /\ End = Length + 1
         /\ \A p \in 1 .. Length : Separates(cbuf[p]) <=> p \notin Letters /\ p \notin Puncts
BY DEF Line, Letters, Puncts, End, Length, Letter, Separates

LEMMA TokensOfLine ==
  ASSUME Length \in Nat
  PROVE  /\ Tokens = TokensIn(Length, Letters, Puncts)
         /\ \A t \in Tokens : Ahead(t) = Before(Length, Letters, Puncts, t.start)
<1>1. ASSUME NEW t \in [start : 1 .. Length, length : 1 .. Length]
      PROVE  /\ t.start + t.length <= End
             /\ IsToken(t.start, t.start + t.length - 1)
             <=> IsTokenIn(Length, Letters, Puncts, t)
  <2>. DEFINE s == t.start
              k == t.length
              e == s + k - 1
  <2>1. s \in 1 .. Length /\ k \in 1 .. Length /\ Length \in Nat
    OBVIOUS
  <2>2. e \in Int /\ e + 1 = s + k /\ (s = e <=> k = 1) /\ e >= s
    BY <2>1
  <2>. HIDE DEF s, k, e
  <2>. SUFFICES ASSUME s + k <= Length + 1
                PROVE  IsToken(s, e) <=>
                         \/ k = 1 /\ s \in Puncts
                         \/ /\ \A p \in s .. e : p \in Letters
                            /\ s > 1 => s - 1 \notin Letters
                            /\ e < Length => s + k \notin Letters
    BY DEF IsTokenIn, End, Length, s, k, e
  <2>3. s \in Puncts <=> Punctuation(cbuf[s])
    BY <2>1 DEF Puncts
  <2>4. \A p \in s .. e : p \in Letters <=> Letter(cbuf[p])
    <3>. TAKE p \in s .. e
    <3>1. p \in 1 .. Length
      BY <2>1, <2>2
    <3>. QED  BY <3>1 DEF Letters
  <2>5. s > 1 => (s - 1 \in Letters <=> Letter(cbuf[s - 1]))
    <3>1. s > 1 => s - 1 \in 1 .. Length
      BY <2>1
    <3>. QED  BY <3>1 DEF Letters
  <2>6. e < Length => (s + k \in Letters <=> Letter(cbuf[e + 1]))
    <3>1. e < Length => s + k \in 1 .. Length
      BY <2>1, <2>2
    <3>. QED  BY <2>2, <3>1 DEF Letters
  <2>. QED  BY <2>2, <2>3, <2>4, <2>5, <2>6 DEF IsToken, Length
<1>2. Tokens = TokensIn(Length, Letters, Puncts)
  BY <1>1 DEF Tokens, TokensIn, Length
<1>. QED  BY <1>2 DEF Ahead, Before

\* The first place that is found, or the end of the line.
LEMMA FirstFound ==
  ASSUME NEW n \in Nat, NEW p \in 1 .. n + 1, NEW found, found \subseteq p .. n
  PROVE  LET f == IF found = {} THEN n + 1
                  ELSE CHOOSE q \in found : \A r \in found : q <= r
         IN /\ f \in p .. n + 1
            /\ \A q \in p .. f - 1 : q \notin found
            /\ f <= n => f \in found
            /\ f = n + 1 <=> found = {}
<1>. DEFINE m == CHOOSE q \in found : \A r \in found : q <= r
<1>1. CASE found = {}
  BY <1>1
<1>2. CASE found # {}
  <2>1. found \subseteq Nat
    OBVIOUS
  <2>2. PICK x \in found : \A y \in found : ~ (y < x)
    BY <1>2, <2>1, LeastElement
  <2>3. m \in found /\ \A r \in found : m <= r
    <3>1. \A r \in found : x <= r
      BY <2>1, <2>2
    <3>. QED  BY <3>1
  <2>. HIDE DEF m
  <2>4. m \in p .. n + 1 /\ m # n + 1 /\ \A q \in p .. m - 1 : q \notin found
    BY <2>3
  <2>5. found # {} /\ m \in found
    BY <1>2, <2>3
  <2>. QED  BY <2>4, <2>5 DEF m
<1>. QED  BY <1>1, <1>2

\* next_token finds the next token.
LEMMA NextTokenIs ==
  ASSUME Length \in Nat, cp \in 1 .. Length + 1, next_token
  PROVE  IsNext(Length, Letters, Puncts, cp, token', cp')
<1>. DEFINE n == Length
            s == First(cp, NotSeparates)
            e == IF s < End /\ Punctuation(cbuf[s]) THEN s + 1 ELSE First(s, NotLetter)
            f == First(s, NotLetter)
<1>1. /\ Line(n, Letters, Puncts) /\ End = n + 1 /\ n \in Nat
      /\ \A p \in 1 .. n : Separates(cbuf[p]) <=> p \notin Letters /\ p \notin Puncts
      /\ \A p \in 1 .. n : Letter(cbuf[p]) <=> p \in Letters
      /\ \A p \in 1 .. n : Punctuation(cbuf[p]) <=> p \in Puncts
  BY LineTyped DEF Letters, Puncts
<1>2. /\ token' = [start |-> s, length |-> e - s]
      /\ cp' = IF s < End /\ Punctuation(cbuf[s]) THEN e ELSE Behind(e)
  BY DEF next_token
<1>3. /\ s \in cp .. n + 1
      /\ \A q \in cp .. s - 1 : q \notin Letters /\ q \notin Puncts
      /\ s <= n => s \in Letters \/ s \in Puncts
  <2>. DEFINE found == {q \in cp .. Len(cbuf) : NotSeparates(cbuf[q])}
  <2>1. found \subseteq cp .. n
    BY DEF Length
  <2>2. s = IF found = {} THEN n + 1 ELSE CHOOSE q \in found : \A r \in found : q <= r
    BY <1>1 DEF First
  <2>3. \A q \in cp .. n : q \in found <=> q \in Letters \/ q \in Puncts
    BY <1>1 DEF Length, NotSeparates
  <2>. HIDE DEF found, s
  <2>4. /\ s \in cp .. n + 1
        /\ \A q \in cp .. s - 1 : q \notin found
        /\ s <= n => s \in found
    <3>. HIDE DEF n
    <3>. QED  BY <1>1, <2>1, <2>2, FirstFound DEF n
  <2>5. \A q \in cp .. s - 1 : q \in cp .. n
    BY <1>1, <2>4
  <2>6. s <= n => s \in cp .. n
    BY <1>1, <2>4
  <2>. QED  BY <2>3, <2>4, <2>5, <2>6
<1>. HIDE DEF s
<1>4. /\ f \in s .. n + 1
      /\ \A q \in s .. f - 1 : q \in Letters
      /\ f <= n => f \notin Letters
  <2>. DEFINE found == {q \in s .. Len(cbuf) : NotLetter(cbuf[q])}
  <2>0. s \in 1 .. n + 1
    BY <1>1, <1>3
  <2>1. found \subseteq s .. n
    BY DEF Length
  <2>2. f = IF found = {} THEN n + 1 ELSE CHOOSE q \in found : \A r \in found : q <= r
    BY <1>1 DEF First
  <2>3. \A q \in s .. n : q \in found <=> q \notin Letters
    BY <1>1, <2>0 DEF Length, NotLetter
  <2>. HIDE DEF found, f
  <2>4. /\ f \in s .. n + 1
        /\ \A q \in s .. f - 1 : q \notin found
        /\ f <= n => f \in found
    <3>. HIDE DEF n
    <3>. QED  BY <1>1, <2>0, <2>1, <2>2, FirstFound DEF n
  <2>5. \A q \in s .. f - 1 : q \in s .. n
    BY <1>1, <2>0, <2>4
  <2>6. f <= n => f \in s .. n
    BY <1>1, <2>0, <2>4
  <2>. QED  BY <2>3, <2>4, <2>5, <2>6
<1>5. s <= n => (Punctuation(cbuf[s]) <=> s \in Puncts)
  BY <1>1, <1>3
<1>6. Letters \cap Puncts = {} /\ Letters \subseteq 1 .. n /\ Puncts \subseteq 1 .. n
  BY <1>1 DEF Line
<1>7. CASE s = n + 1
  <2>1. f = n + 1 /\ e = f
    BY <1>1, <1>4, <1>7
  <2>2. Behind(e) = n + 1
    BY <1>1, <2>1 DEF Behind
  <2>3. token' = [start |-> n + 1, length |-> 0] /\ cp' = n + 1
    BY <1>1, <1>2, <1>7, <2>1, <2>2
  <2>. QED  BY <1>1, <1>3, <1>7, <2>3 DEF IsNext
<1>8. CASE s <= n /\ s \in Puncts
  <2>1. e = s + 1 /\ s < End
    BY <1>1, <1>3, <1>5, <1>8
  <2>2. token' = [start |-> s, length |-> 1] /\ cp' = s + 1
    BY <1>1, <1>2, <1>3, <1>5, <1>8, <2>1
  <2>3. 1 \in 0 .. n
    BY <1>1, <1>3, <1>8
  <2>. HIDE DEF e
  <2>. QED  BY <1>1, <1>3, <1>8, <2>2, <2>3 DEF IsNext
<1>9. CASE s <= n /\ s \in Letters
  <2>1. s \notin Puncts /\ e = f
    BY <1>5, <1>6, <1>9
  <2>2. f # s
    BY <1>4, <1>9
  <2>3. f - s \in 1 .. n /\ s + (f - s) = f /\ f <= n + 1
    BY <1>1, <1>3, <1>4, <2>2
  <2>4. cp' = Behind(f) /\ token' = [start |-> s, length |-> f - s]
    BY <1>2, <1>5, <1>9, <2>1
  <2>5. f \notin Letters
    BY <1>1, <1>4, <1>6
  <2>6. cp' = f \/ (cp' = f + 1 /\ f <= n /\ f \notin Puncts)
    <3>1. CASE f < End /\ Separates(cbuf[f])
      <4>1. f \in 1 .. n
        BY <1>1, <1>3, <1>4, <3>1
      <4>. QED  BY <1>1, <2>4, <3>1, <4>1 DEF Behind
    <3>2. CASE ~ (f < End /\ Separates(cbuf[f]))
      BY <2>4, <3>2 DEF Behind
    <3>. QED  BY <3>1, <3>2
  <2>. DEFINE k == f - s
  <2>. HIDE DEF f, e, k
  <2>7. /\ token'.start = s /\ token'.length = k
        /\ token' \in [start : cp .. n + 1, length : 0 .. n]
        /\ k >= 1 /\ s + k = f
    BY <1>1, <1>3, <2>3, <2>4 DEF k
  <2>8. \A q \in s .. s + k - 1 : q \in Letters
    BY <1>4, <2>7
  <2>. QED  BY <1>3, <1>9, <2>3, <2>5, <2>6, <2>7, <2>8 DEF IsNext
<1>. QED  BY <1>1, <1>3, <1>7, <1>8, <1>9

-----------------------------------------------------------------------------
(* The binary chop of a dictionary with the encoded entries es in a story  *)
(* of version v                                                            *)

\* Status, as a constant.
Compared(v, w, e) ==
    CASE w[1] # e[1] -> w[1] - e[1]
      [] w[1] = e[1] /\ w[2] # e[2] -> w[2] - e[2]
      [] OTHER -> IF v < 4 THEN 0 ELSE w[3] - e[3]

LEMMA StatusCompares == \A w, e : Status(w, e) = Compared(h_type, w, e)
BY DEF Status, Compared

LEMMA StatusComparesNext == (\A w, e : Status(w, e) = Compared(h_type, w, e))'
BY StatusCompares, PTL

LEMMA ComparedLaws ==
  ASSUME NEW v \in Nat
  PROVE  /\ \A w, e \in Triple : Compared(v, w, e) \in Int
         /\ \A w, e \in Triple :
              Compared(v, w, e) = 0 <=>
                /\ w[1] = e[1] /\ w[2] = e[2]
                /\ v < 4 \/ w[3] = e[3]
         /\ \A w, d, e \in Triple :
              /\ Compared(v, w, d) < 0 /\ Compared(v, d, e) < 0 => Compared(v, w, e) < 0
              /\ Compared(v, w, d) = 0 =>
                   /\ Compared(v, w, e) > 0 <=> Compared(v, d, e) > 0
                   /\ Compared(v, w, e) = 0 <=> Compared(v, d, e) = 0
         /\ \A w, e \in Triple : Compared(v, w, e) > 0 <=> Compared(v, e, w) < 0
<1>1. \A w \in Triple : w[1] \in Int /\ w[2] \in Int /\ w[3] \in Int
  BY DEF Triple
<1>2. ASSUME NEW w \in Triple, NEW e \in Triple
      PROVE  /\ Compared(v, w, e) \in Int
             /\ Compared(v, w, e) = 0 <=>
                  /\ w[1] = e[1] /\ w[2] = e[2]
                  /\ v < 4 \/ w[3] = e[3]
             /\ Compared(v, w, e) < 0 <=>
                  \/ w[1] < e[1]
                  \/ w[1] = e[1] /\ w[2] < e[2]
                  \/ w[1] = e[1] /\ w[2] = e[2] /\ ~ (v < 4) /\ w[3] < e[3]
             /\ Compared(v, w, e) > 0 <=>
                  \/ w[1] > e[1]
                  \/ w[1] = e[1] /\ w[2] > e[2]
                  \/ w[1] = e[1] /\ w[2] = e[2] /\ ~ (v < 4) /\ w[3] > e[3]
  <2>. DEFINE a == w[1]
              b == w[2]
              c == w[3]
              x == e[1]
              y == e[2]
              z == e[3]
              r == Compared(v, w, e)
  <2>1. a \in Int /\ b \in Int /\ c \in Int /\ x \in Int /\ y \in Int /\ z \in Int
    BY <1>1
  <2>2. /\ a # x => r = a - x
        /\ a = x /\ b # y => r = b - y
        /\ a = x /\ b = y /\ v < 4 => r = 0
        /\ a = x /\ b = y /\ ~ (v < 4) => r = c - z
    BY DEF Compared
  <2>. HIDE DEF a, b, c, x, y, z, r
  <2>3. /\ r \in Int
        /\ r = 0 <=> a = x /\ b = y /\ (v < 4 \/ c = z)
        /\ r < 0 <=> a < x \/ (a = x /\ b < y) \/ (a = x /\ b = y /\ ~ (v < 4) /\ c < z)
        /\ r > 0 <=> a > x \/ (a = x /\ b > y) \/ (a = x /\ b = y /\ ~ (v < 4) /\ c > z)
    <3>1. CASE a # x
      BY <2>1, <2>2, <3>1
    <3>2. CASE a = x /\ b # y
      BY <2>1, <2>2, <3>2
    <3>3. CASE a = x /\ b = y
      BY <2>1, <2>2, <3>3
    <3>. QED  BY <3>1, <3>2, <3>3
  <2>. QED  BY <2>3 DEF a, b, c, x, y, z, r
<1>3. ASSUME NEW w \in Triple, NEW d \in Triple, NEW e \in Triple
      PROVE  /\ Compared(v, w, d) < 0 /\ Compared(v, d, e) < 0 => Compared(v, w, e) < 0
             /\ Compared(v, w, d) = 0 =>
                  /\ Compared(v, w, e) > 0 <=> Compared(v, d, e) > 0
                  /\ Compared(v, w, e) = 0 <=> Compared(v, d, e) = 0
  BY <1>1, <1>2
<1>4. ASSUME NEW w \in Triple, NEW e \in Triple
      PROVE  Compared(v, w, e) > 0 <=> Compared(v, e, w) < 0
  BY <1>1, <1>2
<1>. QED  BY <1>2, <1>3, <1>4

\* Each entry is less than the next one, and so than all behind it.
Ascending(v, es) == \A i \in 1 .. Len(es) - 1 : Compared(v, es[i], es[i + 1]) < 0

LEMMA Ascends ==
  ASSUME NEW v \in Nat, NEW es \in Seq(Triple), Ascending(v, es)
  PROVE  \A i, j \in 1 .. Len(es) : i < j => Compared(v, es[i], es[j]) < 0
<1>. DEFINE n == Len(es)
<1>1. n \in Nat /\ \A i \in 1 .. n : es[i] \in Triple
  BY ElementOfSeq, LenProperties
<1>2. \A i \in 1 .. n - 1 : Compared(v, es[i], es[i + 1]) < 0
  BY DEF Ascending
<1>. HIDE DEF n
<1>. SUFFICES ASSUME NEW i \in 1 .. n
              PROVE  \A j \in 1 .. n : i < j => Compared(v, es[i], es[j]) < 0
  BY DEF n
<1>. DEFINE S == {j \in Nat : j \in 1 .. n /\ i < j => Compared(v, es[i], es[j]) < 0}
<1>3. ASSUME NEW j \in Nat, 0 .. j - 1 \subseteq S  PROVE j \in S
  <2>. SUFFICES ASSUME j \in 1 .. n, i < j  PROVE Compared(v, es[i], es[j]) < 0
    OBVIOUS
  <2>. DEFINE k == j - 1
  <2>1. k \in 1 .. n - 1 /\ k + 1 = j /\ k \in 1 .. n /\ k \in 0 .. j - 1 /\ (i < k \/ i = k)
    BY <1>1
  <2>. HIDE DEF k
  <2>2. Compared(v, es[k], es[j]) < 0
    BY <1>2, <2>1
  <2>3. CASE i = k
    BY <2>2, <2>3
  <2>4. CASE i < k
    <3>1. Compared(v, es[i], es[k]) < 0
      BY <1>3, <2>1, <2>4
    <3>2. es[i] \in Triple /\ es[k] \in Triple /\ es[j] \in Triple
      BY <1>1, <2>1
    <3>. QED  BY <2>2, <3>1, <3>2, ComparedLaws
  <2>. QED  BY <2>1, <2>3, <2>4
<1>4. Nat \subseteq S
  <2>. HIDE DEF S
  <2>. QED  BY <1>3, Ladder
<1>. QED  BY <1>4

\* The entries that a word is found at.
There(v, es, w) == {i \in 1 .. Len(es) : Compared(v, w, es[i]) = 0}

\* A word is behind an entry that is less than it.
LEMMA Side ==
  ASSUME NEW v \in Nat, NEW es \in Seq(Triple), Ascending(v, es), NEW w \in Triple,
         NEW i \in There(v, es, w), NEW j \in 1 .. Len(es)
  PROVE  /\ Compared(v, w, es[j]) > 0 => j < i
         /\ Compared(v, w, es[j]) = 0 => j = i
         /\ Compared(v, w, es[j]) < 0 => i < j
<1>1. i \in 1 .. Len(es) /\ Compared(v, w, es[i]) = 0 /\ Len(es) \in Nat
  BY LenProperties DEF There
<1>2. es[i] \in Triple /\ es[j] \in Triple
  BY <1>1, ElementOfSeq
<1>3. /\ Compared(v, w, es[j]) > 0 <=> Compared(v, es[i], es[j]) > 0
      /\ Compared(v, w, es[j]) = 0 <=> Compared(v, es[i], es[j]) = 0
      /\ Compared(v, es[i], es[j]) > 0 <=> Compared(v, es[j], es[i]) < 0
      /\ Compared(v, es[i], es[i]) = 0
      /\ Compared(v, es[i], es[j]) \in Int /\ Compared(v, es[j], es[i]) \in Int
      /\ Compared(v, w, es[j]) \in Int
  <2>. DEFINE a == es[i]
              b == es[j]
  <2>1. a \in Triple /\ b \in Triple /\ Compared(v, w, a) = 0
    BY <1>1, <1>2
  <2>. HIDE DEF a, b
  <2>2. /\ Compared(v, w, b) > 0 <=> Compared(v, a, b) > 0
        /\ Compared(v, w, b) = 0 <=> Compared(v, a, b) = 0
    BY <2>1, ComparedLaws
  <2>3. Compared(v, a, b) > 0 <=> Compared(v, b, a) < 0
    BY <2>1, ComparedLaws
  <2>4. Compared(v, a, a) = 0
    BY <2>1, ComparedLaws
  <2>5. /\ Compared(v, a, b) \in Int /\ Compared(v, b, a) \in Int
        /\ Compared(v, w, b) \in Int
    BY <2>1, ComparedLaws
  <2>. QED  BY <2>2, <2>3, <2>4, <2>5 DEF a, b
<1>4. /\ i < j => Compared(v, es[i], es[j]) < 0
      /\ j < i => Compared(v, es[j], es[i]) < 0
  BY <1>1, Ascends
<1>5. CASE i < j
  BY <1>1, <1>3, <1>4, <1>5
<1>6. CASE j < i
  BY <1>1, <1>3, <1>4, <1>6
<1>7. CASE i = j
  BY <1>1, <1>3, <1>7
<1>. QED  BY <1>1, <1>5, <1>6, <1>7

\* Where the chop may be: in the dictionary, by a step no longer than it, but at
\* the second of one entry at the start.
ChopAt(n, at, c) ==
    /\ c \in Powers \cup {0}
    /\ n = 0 => c = 0 /\ at = -1
    /\ n > 0 => (at \in 0 .. n - 1 /\ c <= n) \/ (n = 1 /\ c = 2 /\ at = 1)

\* The word is less than a step away.
Around(there, at, c) == \A i \in there : at - c < i - 1 /\ i - 1 < at + c

LEMMA ChopStarts ==
  ASSUME NEW n \in Nat, NEW there, there \subseteq 1 .. n
  PROVE  ChopAt(n, StartChop(n) - 1, StartChop(n)) /\ Around(there, StartChop(n) - 1, StartChop(n))
<1>. DEFINE c == StartChop(n)
<1>1. CASE n = 0
  BY <1>1 DEF StartChop, ChopAt, Around
<1>2. CASE n > 0
  <2>1. c \in Powers /\ c \in Nat /\ c >= 1
    BY <1>2, StartOfChop, PowerLaws
  <2>2. (n = 1 => c = 2) /\ (n >= 2 => c <= n /\ n < 2 * c)
    BY <1>2, StartOfChop
  <2>. HIDE DEF c
  <2>3. (c - 1 \in 0 .. n - 1 /\ c <= n) \/ (n = 1 /\ c = 2 /\ c - 1 = 1)
    BY <1>2, <2>1, <2>2
  <2>4. \A i \in there : c - 1 - c < i - 1 /\ i - 1 < c - 1 + c
    <3>. TAKE i \in there
    <3>1. i \in 1 .. n
      OBVIOUS
    <3>. QED  BY <1>2, <2>1, <2>2, <3>1
  <2>5. ChopAt(n, c - 1, c)
    BY <1>2, <2>1, <2>3 DEF ChopAt
  <2>6. Around(there, c - 1, c)
    BY <2>4 DEF Around
  <2>. QED  BY <2>5, <2>6 DEF c
<1>. QED  BY <1>1, <1>2

\* A step of the chop for w from at, which did not meet the word.
ChopStep(v, es, w, n, at, c, here, order, half, next) ==
    /\ v \in Nat /\ es \in Seq(Triple) /\ Ascending(v, es) /\ w \in Triple
    /\ n = Len(es) /\ n > 0
    /\ ChopAt(n, at, c) /\ c # 0 /\ Around(There(v, es, w), at, c)
    /\ here = IF at > n - 1 THEN n - 1 ELSE at
    /\ order = Compared(v, w, es[here + 1]) /\ order # 0
    /\ half = c \div 2
    /\ next = IF order > 0
              THEN IF here + half > n - 1 THEN n - 1 ELSE here + half
              ELSE IF here - half < 0 THEN 0 ELSE here - half

\* A step goes on to the side the word is on, half as far.
LEMMA ChopGoesOn ==
  ASSUME NEW v, NEW es, NEW w, NEW n, NEW at, NEW c, NEW here, NEW order, NEW half, NEW next,
         ChopStep(v, es, w, n, at, c, here, order, half, next)
  PROVE  ChopAt(n, next, half) /\ Around(There(v, es, w), next, half)
<1>0. /\ v \in Nat /\ es \in Seq(Triple) /\ Ascending(v, es) /\ w \in Triple
      /\ n = Len(es) /\ n > 0
      /\ ChopAt(n, at, c) /\ c # 0 /\ Around(There(v, es, w), at, c)
      /\ here = IF at > n - 1 THEN n - 1 ELSE at
      /\ order = Compared(v, w, es[here + 1]) /\ order # 0
      /\ half = c \div 2
      /\ next = IF order > 0
                THEN IF here + half > n - 1 THEN n - 1 ELSE here + half
                ELSE IF here - half < 0 THEN 0 ELSE here - half
  BY DEF ChopStep
<1>01. half = c \div 2 /\ n = Len(es) /\ n > 0
  BY DEF ChopStep
<1>02. here = IF at > n - 1 THEN n - 1 ELSE at
  BY DEF ChopStep
<1>03. next = IF order > 0
              THEN IF here + half > n - 1 THEN n - 1 ELSE here + half
              ELSE IF here - half < 0 THEN 0 ELSE here - half
  BY DEF ChopStep
<1>1. n \in Nat /\ n > 0
  BY <1>0, LenProperties
<1>2. c \in Powers /\ c \in Nat /\ c >= 1 /\ (c = 1 \/ (half \in Powers /\ c = 2 * half))
  BY <1>0, PowerLaws DEF ChopAt
<1>3. half \in Nat /\ (half = 0 \/ half \in Powers) /\ (half = 0 => c = 1) /\ (half # 0 => c = 2 * half)
  BY <1>01, <1>2
<1>4. here \in 0 .. n - 1 /\ (here = at \/ n = 1) /\ here + 1 \in 1 .. n /\ half <= n
  BY <1>0, <1>1, <1>2, <1>3 DEF ChopAt
<1>5. next \in 0 .. n - 1
  BY <1>1, <1>3, <1>4, <1>03
<1>6. order \in Int
  <2>1. es[here + 1] \in Triple
    BY <1>0, <1>4, ElementOfSeq
  <2>. QED  BY <1>0, <2>1, ComparedLaws
<1>7. ChopAt(n, next, half)
  BY <1>1, <1>3, <1>4, <1>5 DEF ChopAt
<1>8. ASSUME NEW i \in There(v, es, w)
      PROVE  next - half < i - 1 /\ i - 1 < next + half
  <2>1. i \in 1 .. n
    BY <1>0 DEF There
  <2>. DEFINE k == here + 1
  <2>2. k \in 1 .. n /\ k = here + 1 /\ order = Compared(v, w, es[k])
    BY <1>0, <1>4
  <2>. HIDE DEF k
  <2>3. (order > 0 => k < i) /\ (order < 0 => i < k)
    <3>1. v \in Nat /\ es \in Seq(Triple) /\ Ascending(v, es) /\ w \in Triple
          /\ k \in 1 .. Len(es)
      BY <1>0, <2>2
    <3>2. /\ Compared(v, w, es[k]) > 0 => k < i
          /\ Compared(v, w, es[k]) < 0 => i < k
      BY <3>1, Side
    <3>. QED  BY <2>2, <3>2
  <2>4. (order > 0 => here < i - 1) /\ (order < 0 => i - 1 < here)
    <3>1. k = here + 1 /\ here \in Int /\ i \in Int
      BY <1>4, <2>1, <2>2
    <3>. QED  BY <2>3, <3>1
  <2>5. n # 1
    <3>1. order > 0 \/ order < 0
      <4>1. order # 0
        BY <1>0
      <4>. QED  BY <1>6, <4>1
    <3>2. here \in 0 .. n - 1 /\ here \in Int /\ i \in Int
      BY <1>4, <2>1
    <3>. QED  BY <2>1, <2>4, <3>1, <3>2
  <2>6. at - c < i - 1 /\ i - 1 < at + c
    BY <1>0 DEF Around
  <2>7. here = at
    BY <1>4, <2>5
  <2>8. CASE order > 0
    <3>1. next = IF here + half > n - 1 THEN n - 1 ELSE here + half
      BY <1>03, <2>8
    <3>2. here < i - 1 /\ i - 1 < here + c /\ i - 1 <= n - 1
      BY <1>1, <2>1, <2>4, <2>6, <2>7, <2>8
    <3>3. half # 0 /\ c = 2 * half
      <4>1. here \in Int /\ i \in Int
        BY <1>4, <2>1
      <4>2. c # 1
        BY <3>2, <4>1
      <4>. QED  BY <1>3, <4>2
    <3>4. CASE here + half > n - 1
      BY <1>1, <1>3, <1>4, <2>1, <3>1, <3>2, <3>3, <3>4
    <3>5. CASE ~ (here + half > n - 1)
      BY <1>1, <1>3, <1>4, <2>1, <3>1, <3>2, <3>3, <3>5
    <3>. QED  BY <3>4, <3>5
  <2>9. CASE order < 0
    <3>1. next = IF here - half < 0 THEN 0 ELSE here - half
      BY <1>03, <1>6, <2>9
    <3>2. here - c < i - 1 /\ i - 1 < here
      BY <1>1, <2>1, <2>4, <2>6, <2>7, <2>9
    <3>3. half # 0 /\ c = 2 * half
      <4>1. here \in Int /\ i \in Int
        BY <1>4, <2>1
      <4>2. c # 1
        BY <3>2, <4>1
      <4>. QED  BY <1>3, <4>2
    <3>4. CASE here - half < 0
      BY <1>1, <1>3, <1>4, <2>1, <3>1, <3>2, <3>3, <3>4
    <3>5. CASE ~ (here - half < 0)
      BY <1>1, <1>3, <1>4, <2>1, <3>1, <3>2, <3>3, <3>5
    <3>. QED  BY <3>4, <3>5
  <2>. QED  BY <1>0, <1>6, <2>8, <2>9
<1>. QED  BY <1>7, <1>8 DEF Around

\* When the chop is used up the word is not there.
LEMMA ChopEnds ==
  ASSUME NEW n \in Nat, NEW at, ChopAt(n, at, 0), NEW there, there \subseteq 1 .. n,
         Around(there, at, 0)
  PROVE  there = {}
<1>. SUFFICES ASSUME NEW i \in there  PROVE FALSE
  OBVIOUS
<1>1. at \in Int /\ i \in Int
  BY DEF ChopAt
<1>2. at - 0 < i - 1 /\ i - 1 < at + 0
  BY DEF Around
<1>. QED  BY <1>1, <1>2

-----------------------------------------------------------------------------
(* The inductive invariant *)

\* The entries of the sorted dictionaries of the story ascend, as a dictionary is
\* compiled.
Ordered == \A d \in input.dictionaries : d.sorted => Ascending(h_type, Entries(d))

EntriesIn(v, d) == [i \in DOMAIN d.entries |-> Encoded(v, d.entries[i])]

StoryInv ==
    /\ input \in Inputs /\ h_type = input.version
    /\ \A d \in input.dictionaries : d.sorted => Ascending(h_type, EntriesIn(h_type, d))
    /\ dictionary \in [base : Nat, entries : Seq(Triple), sorted : BOOLEAN,
                       separators : SUBSET Chars]
    /\ dictionary.sorted => Ascending(h_type, dictionary.entries)

Slot(n) == [entry : Nat, length : 0 .. n, start : 0 .. n + 1]

BuffersInv ==
    /\ tbuf \in [0 .. room -> Slot(Length)] /\ before \in [0 .. room -> Slot(Length)]
    /\ words \in 0 .. room + 1 /\ cp \in 1 .. Length + 1
    /\ flag \in {0, 1} /\ calls \in Nat
    /\ phase \in {"idle", "scan", "search"} /\ (phase # "idle" => calls > 0)
    /\ token \in [start : 1 .. Length + 1, length : 0 .. Length]

\* The tokens before a place of the line.
Seen(place) == Before(Length, Letters, Puncts, place)
Count(place) == Cardinality(Seen(place))

\* The words that were counted are those behind which next_token goes on, up to
\* the room, and have their slots; the one that is looked up is the next.
WordsInv ==
    calls > 0 =>
        /\ NoneAcross(Letters, cp)
        /\ phase # "search" => words = IF Count(cp) > room + 1 THEN room + 1 ELSE Count(cp)
        /\ phase = "search" =>
             /\ token \in TokensIn(Length, Letters, Puncts) /\ token.start < cp
             /\ Seen(cp) = Seen(token.start) \cup {token}
             /\ words = Count(token.start) /\ words <= room
        /\ phase = "idle" => Seen(cp) = TokensIn(Length, Letters, Puncts)
        /\ \A t \in Seen(cp) :
             Count(t.start) < words =>
               /\ tbuf[Count(t.start)].start = t.start
               /\ tbuf[Count(t.start)].length = t.length

\* The entry that a slot gets for the encoded word w.
RightEntry(v, d, f, w, entry, old) ==
    LET there == There(v, d.entries, w)
    IN IF there = {} THEN entry = IF f = 0 THEN 0 ELSE old
       ELSE \E i \in there : (\A j \in there : i <= j) /\ entry = d.base + i

InLine(t) == t.start >= 1 /\ t.start + t.length <= Length + 1

\* The slots up to the words counted have the right entries, the others are as
\* before; and the search has not passed the entry of the word.
FoundInv ==
    /\ calls > 0 =>
         /\ \A k \in words .. room : tbuf[k] = before[k]
         /\ \A k \in 0 .. words - 1 :
              /\ InLine(tbuf[k])
              /\ RightEntry(h_type, dictionary, flag, Encoded(h_type, Typed(tbuf[k])),
                            tbuf[k].entry, before[k].entry)
    /\ phase = "search" =>
         /\ word = Encoded(h_type, Typed(token)) /\ word \in Triple
         /\ dictionary.sorted =>
              /\ ChopAt(Size, word_index, chop)
              /\ Around(There(h_type, dictionary.entries, word), word_index, chop)
         /\ ~ dictionary.sorted =>
              /\ chop = 0 /\ word_index \in 0 .. Size
              /\ \A i \in There(h_type, dictionary.entries, word) : word_index <= i - 1

Inv == StoryInv /\ BuffersInv /\ WordsInv /\ FoundInv

LEMMA StoryFacts ==
  StoryInv =>
    /\ h_type \in Versions /\ h_type \in Nat
    /\ cbuf \in Seq(Chars) /\ Length \in Nat /\ room \in Nat /\ End = Length + 1
    /\ \A k \in 1 .. Length : cbuf[k] \in Chars
    /\ input.dictionaries \subseteq [base : Nat, entries : Seq(Seq(Chars)),
                                     sorted : BOOLEAN, separators : SUBSET Chars]
    /\ dictionary.base \in Nat /\ dictionary.sorted \in BOOLEAN
    /\ dictionary.entries \in Seq(Triple) /\ Size \in Nat
    /\ \A i \in 1 .. Size : dictionary.entries[i] \in Triple
    /\ Line(Length, Letters, Puncts)
<1>. SUFFICES ASSUME StoryInv
              PROVE  /\ h_type \in Versions /\ h_type \in Nat
                     /\ cbuf \in Seq(Chars) /\ Length \in Nat /\ room \in Nat /\ End = Length + 1
                     /\ \A k \in 1 .. Length : cbuf[k] \in Chars
                     /\ input.dictionaries \subseteq [base : Nat, entries : Seq(Seq(Chars)),
                                                      sorted : BOOLEAN, separators : SUBSET Chars]
                     /\ dictionary.base \in Nat /\ dictionary.sorted \in BOOLEAN
                     /\ dictionary.entries \in Seq(Triple) /\ Size \in Nat
                     /\ \A i \in 1 .. Size : dictionary.entries[i] \in Triple
                     /\ Line(Length, Letters, Puncts)
  OBVIOUS
<1>1. /\ h_type \in Versions /\ cbuf \in Seq(Chars) /\ room \in Nat
      /\ input.dictionaries \subseteq [base : Nat, entries : Seq(Seq(Chars)),
                                       sorted : BOOLEAN, separators : SUBSET Chars]
  BY TokeniserAssumption DEF StoryInv, cbuf, room, Chars
<1>2. h_type \in Nat
  BY <1>1, ZCodesAssumption
<1>3. Length \in Nat /\ \A k \in 1 .. Length : cbuf[k] \in Chars
  <2>. HIDE DEF cbuf
  <2>. QED  BY <1>1, LenProperties, ElementOfSeq DEF Length
<1>4. /\ dictionary.base \in Nat /\ dictionary.sorted \in BOOLEAN
      /\ dictionary.entries \in Seq(Triple)
  BY DEF StoryInv
<1>5. Size \in Nat /\ \A i \in 1 .. Size : dictionary.entries[i] \in Triple
  BY <1>4, LenProperties, ElementOfSeq DEF Size
<1>6. End = Length + 1
  BY DEF End, Length
<1>. QED  BY <1>1, <1>2, <1>3, <1>4, <1>5, <1>6, LineTyped

LEMMA StoryFactsNext == (StoryInv => Line(Length, Letters, Puncts) /\ Length \in Nat)'
BY StoryFacts, PTL

\* A part of the line has an encoding.
LEMMA TypedText ==
  ASSUME StoryInv, NEW s \in 1 .. Length + 1, NEW k \in 0 .. Length, s + k <= Length + 1
  PROVE  /\ SubSeq(cbuf, s, s + k - 1) \in Seq(Chars)
         /\ Encoded(h_type, SubSeq(cbuf, s, s + k - 1)) \in Triple
<1>1. \A i \in s .. s + k - 1 : cbuf[i] \in Chars
  <2>1. \A i \in s .. s + k - 1 : i \in 1 .. Length
    BY StoryFacts
  <2>. QED  BY <2>1, StoryFacts
<1>2. s \in Int /\ s + k - 1 \in Int
  OBVIOUS
<1>3. SubSeq(cbuf, s, s + k - 1) \in Seq(Chars)
  <2>. HIDE DEF cbuf
  <2>. QED  BY <1>1, <1>2, SubSeqProperties
<1>4. encode_text(SubSeq(cbuf, s, s + k - 1)) \in Triple
  <2>. HIDE DEF cbuf
  <2>. QED  BY <1>3, EncodingTyped
<1>. QED  BY <1>3, <1>4, EncodedAs

\* While neither the line nor the dictionary changes, the tokens do not.
LEMMA SameLine ==
  ASSUME UNCHANGED <<input, dictionary>>
  PROVE  /\ Length' = Length /\ Letters' = Letters /\ Puncts' = Puncts
         /\ room' = room /\ cbuf' = cbuf /\ Size' = Size
BY DEF Length, Letters, Puncts, room, cbuf, Size, Letter, Separates, Punctuation

LEMMA EntriesAre ==
  \A d : Entries(d) = EntriesIn(h_type, d)
BY EncodedAs DEF Entries, EntriesIn

\* Encoded entries are a sequence.
LEMMA EntriesTyped ==
  ASSUME NEW d, d.entries \in Seq(Seq(Chars))
  PROVE  Entries(d) \in Seq(Triple)
<1>1. Len(d.entries) \in Nat /\ DOMAIN d.entries = 1 .. Len(d.entries)
  BY LenProperties
<1>2. \A i \in 1 .. Len(d.entries) : d.entries[i] \in Seq(Chars)
  BY ElementOfSeq
<1>3. \A i \in 1 .. Len(d.entries) : encode_text(d.entries[i]) \in Triple
  BY <1>2, EncodingTyped
<1>4. Entries(d) \in [1 .. Len(d.entries) -> Triple]
  BY <1>1, <1>3 DEF Entries
<1>. DEFINE n == Len(d.entries)
            es == Entries(d)
<1>5. n \in Nat /\ es \in [1 .. n -> Triple]
  BY <1>1, <1>4
<1>. HIDE DEF n, es
<1>6. es = [i \in 1 .. n |-> es[i]] /\ \A i \in 1 .. n : es[i] \in Triple
  BY <1>5
<1>7. es \in Seq(Triple)
  BY <1>5, <1>6, IsASeq
<1>. QED  BY <1>7 DEF es

LEMMA InitHolds ==
  ASSUME Init, Ordered
  PROVE  Inv
<1>1. NoDictionary \in [base : Nat, entries : Seq(Triple), sorted : BOOLEAN,
                        separators : SUBSET Chars]
  BY DEF NoDictionary
<1>2. Ascending(h_type, NoDictionary.entries)
  BY DEF NoDictionary, Ascending
<1>3. StoryInv
  BY <1>1, <1>2, EntriesAre DEF Init, StoryInv, Ordered
<1>4. Length \in Nat /\ room \in Nat
  BY <1>3, StoryFacts
<1>5. tbuf \in [0 .. room -> Slot(Length)] /\ before \in [0 .. room -> Slot(Length)]
  <2>1. [entry |-> 0, length |-> 0, start |-> 0] \in Slot(Length)
    BY <1>4 DEF Slot
  <2>2. tbuf = [k \in 0 .. room |-> [entry |-> 0, length |-> 0, start |-> 0]] /\ before = tbuf
    BY DEF Init, Slots
  <2>. QED  BY <2>1, <2>2
<1>6. BuffersInv
  <2>1. /\ words = 0 /\ cp = 1 /\ flag = 0 /\ calls = 0 /\ phase = "idle"
        /\ token = [start |-> 1, length |-> 0]
    BY DEF Init
  <2>2. /\ 0 \in 0 .. room + 1 /\ 1 \in 1 .. Length + 1 /\ 0 \in 0 .. Length
    BY <1>4
  <2>. QED  BY <1>5, <2>1, <2>2 DEF BuffersInv
<1>7. WordsInv /\ FoundInv
  BY DEF Init, WordsInv, FoundInv
<1>. QED  BY <1>3, <1>6, <1>7 DEF Inv

\* Printing changes nothing of the tokens.
LEMMA OthersKeep ==
  ASSUME Inv, UNCHANGED <<arguments, tbuf, words, cp, token, search, phase>>
  PROVE  Inv'
<1>1. /\ input' = input /\ dictionary' = dictionary /\ flag' = flag /\ calls' = calls
      /\ before' = before /\ h_type' = h_type /\ tbuf' = tbuf /\ words' = words /\ cp' = cp
      /\ token' = token /\ word' = word /\ word_index' = word_index /\ chop' = chop
      /\ phase' = phase
  BY DEF arguments, search
<1>2. /\ Length' = Length /\ Letters' = Letters /\ Puncts' = Puncts
      /\ room' = room /\ cbuf' = cbuf /\ Size' = Size
  BY <1>1, SameLine
<1>3. StoryInv'
  BY <1>1 DEF Inv, StoryInv
<1>4. BuffersInv'
  BY <1>1, <1>2 DEF Inv, BuffersInv
<1>5. WordsInv'
  BY <1>1, <1>2 DEF Inv, WordsInv, Count, Seen
<1>6. FoundInv'
  BY <1>1, <1>2 DEF Inv, FoundInv, InLine, Typed
<1>. QED  BY <1>3, <1>4, <1>5, <1>6 DEF Inv

\* A call of tokenise has no word yet.
LEMMA TokeniseKeeps ==
  ASSUME Inv, z_tokenise
  PROVE  Inv'
<1>1. PICK d \in input.dictionaries : dictionary' = [d EXCEPT !.entries = Entries(d)]
  BY DEF z_tokenise
<1>2. /\ input' = input /\ h_type' = h_type /\ tbuf' = tbuf /\ token' = token
      /\ calls' = calls + 1 /\ flag' \in {0, 1} /\ before' = tbuf
      /\ words' = 0 /\ cp' = 1 /\ phase' = "scan"
  BY DEF z_tokenise
<1>3. StoryInv /\ BuffersInv
  BY DEF Inv
<1>4. /\ d \in [base : Nat, entries : Seq(Seq(Chars)), sorted : BOOLEAN, separators : SUBSET Chars]
      /\ Entries(d) \in Seq(Triple)
  BY <1>3, StoryFacts, EntriesTyped
<1>5. StoryInv'
  <2>1. dictionary' \in [base : Nat, entries : Seq(Triple), sorted : BOOLEAN,
                         separators : SUBSET Chars]
    BY <1>1, <1>4
  <2>2. dictionary'.entries = Entries(d) /\ dictionary'.sorted = d.sorted
    BY <1>1, <1>4
  <2>3. d.sorted => Ascending(h_type, Entries(d))
    BY <1>3, EntriesAre DEF StoryInv
  <2>. QED  BY <1>2, <1>3, <2>1, <2>2, <2>3 DEF StoryInv
<1>6. Length' = Length /\ room' = room /\ Length \in Nat /\ room \in Nat /\ calls \in Nat
  BY <1>2, <1>3, StoryFacts DEF Length, room, cbuf, BuffersInv
<1>7. BuffersInv'
  <2>1. calls' \in Nat /\ calls' > 0
    BY <1>2, <1>6
  <2>2. 0 \in 0 .. room + 1 /\ 1 \in 1 .. Length + 1
    BY <1>6
  <2>. QED  BY <1>2, <1>3, <1>6, <2>1, <2>2 DEF BuffersInv
<1>8. WordsInv'
  <2>1. Line(Length', Letters', Puncts')
    BY <1>5, StoryFactsNext
  <2>2. /\ Cardinality(Before(Length', Letters', Puncts', 1)) = 0
        /\ NoneAcross(Letters', 1)
        /\ Before(Length', Letters', Puncts', 1) = {}
    BY <2>1, NoneBeforeTheLine
  <2>3. Count(cp)' = 0 /\ Seen(cp)' = {}
    BY <1>2, <2>2 DEF Count, Seen
  <2>4. 0 = IF 0 > room' + 1 THEN room' + 1 ELSE 0
    BY <1>6
  <2>. QED  BY <1>2, <2>2, <2>3, <2>4 DEF WordsInv
<1>9. FoundInv'
  BY <1>2, <1>6 DEF FoundInv
<1>. QED  BY <1>5, <1>7, <1>8, <1>9 DEF Inv

\* next_token leaves the words counted as they are, and finds the one to look up.
LEMMA NextTokenKeeps ==
  ASSUME Inv, NextToken
  PROVE  Inv'
<1>1. /\ phase = "scan" /\ next_token
      /\ input' = input /\ dictionary' = dictionary /\ flag' = flag /\ calls' = calls
      /\ before' = before /\ h_type' = h_type /\ tbuf' = tbuf /\ words' = words
  BY DEF NextToken, arguments
<1>2. /\ Length' = Length /\ Letters' = Letters /\ Puncts' = Puncts
      /\ room' = room /\ cbuf' = cbuf /\ Size' = Size
  BY <1>1, SameLine
<1>3. StoryInv /\ BuffersInv /\ WordsInv /\ FoundInv
  BY DEF Inv
<1>4. /\ Length \in Nat /\ room \in Nat /\ Line(Length, Letters, Puncts)
      /\ cp \in 1 .. Length + 1 /\ words \in 0 .. room + 1 /\ calls > 0
  BY <1>1, <1>3, StoryFacts DEF BuffersInv
<1>5. /\ NoneAcross(Letters, cp)
      /\ words = IF Count(cp) > room + 1 THEN room + 1 ELSE Count(cp)
      /\ \A t \in Seen(cp) :
           Count(t.start) < words =>
             /\ tbuf[Count(t.start)].start = t.start
             /\ tbuf[Count(t.start)].length = t.length
  BY <1>1, <1>3, <1>4 DEF WordsInv
<1>6. IsNext(Length, Letters, Puncts, cp, token', cp')
  BY <1>1, <1>4, NextTokenIs
<1>. DEFINE t == token'
<1>7. /\ cp' \in 1 .. Length + 1 /\ cp' >= cp /\ NoneAcross(Letters, cp')
      /\ t.length = 0 => Seen(cp) = TokensIn(Length, Letters, Puncts)
                           /\ Seen(cp') = TokensIn(Length, Letters, Puncts)
      /\ t.length # 0 =>
           /\ t \in TokensIn(Length, Letters, Puncts)
           /\ t.start >= cp /\ t.start < cp'
           /\ Seen(cp') = Seen(cp) \cup {t}
           /\ Seen(t.start) = Seen(cp)
  <2>1. \A next, u : IsNext(Length, Letters, Puncts, cp, u, next) =>
          /\ next \in 1 .. Length + 1 /\ next >= cp /\ NoneAcross(Letters, next)
          /\ u.length = 0 => Seen(cp) = TokensIn(Length, Letters, Puncts)
                               /\ Seen(next) = TokensIn(Length, Letters, Puncts)
          /\ u.length # 0 =>
               /\ u \in TokensIn(Length, Letters, Puncts)
               /\ u.start >= cp /\ u.start < next
               /\ Seen(next) = Seen(cp) \cup {u}
               /\ Seen(u.start) = Seen(cp)
    BY <1>4, <1>5, NextIsToken DEF Seen
  <2>. HIDE DEF t
  <2>2. IsNext(Length, Letters, Puncts, cp, t, cp')
    BY <1>6 DEF t
  <2>. QED  BY <2>1, <2>2
<1>8. t \in [start : 1 .. Length + 1, length : 0 .. Length]
  <2>1. t \in [start : cp .. Length + 1, length : 0 .. Length]
    BY <1>6 DEF IsNext
  <2>2. cp .. Length + 1 \subseteq 1 .. Length + 1
    BY <1>4
  <2>. HIDE DEF t
  <2>. QED  BY <2>1, <2>2
<1>9. /\ Seen(cp)' = Seen(cp') /\ Count(cp)' = Count(cp')
      /\ \A place : Seen(place)' = Seen(place) /\ Count(place)' = Count(place)
      /\ Seen(token.start)' = Seen(t.start) /\ Count(token.start)' = Count(t.start)
  BY <1>2 DEF Seen, Count
<1>10. StoryInv'
  BY <1>1, <1>3 DEF StoryInv
<1>11. \/ t.length = 0 /\ phase' = "idle" /\ UNCHANGED search
       \/ t.length # 0 /\ ~ HasSpace /\ phase' = "scan" /\ UNCHANGED search
       \/ /\ t.length # 0 /\ HasSpace /\ phase' = "search"
          /\ word' = encode_text(Typed(token'))
          /\ chop' = StartChop(dictionary_size)
          /\ word_index' = IF dictionary.sorted THEN chop' - 1 ELSE 0
  BY DEF NextToken
<1>12. BuffersInv'
  <2>1. phase' \in {"idle", "scan", "search"}
    BY <1>11
  <2>. HIDE DEF t
  <2>2. token' \in [start : 1 .. Length + 1, length : 0 .. Length]
    BY <1>8 DEF t
  <2>. QED  BY <1>1, <1>2, <1>3, <1>7, <2>1, <2>2 DEF BuffersInv
<1>13. ASSUME t.length # 0
       PROVE  /\ Count(cp') = Count(cp) + 1 /\ Count(cp) \in Nat
              /\ Count(t.start) = Count(cp)
  <2>. HIDE DEF t
  <2>1. cp \in Int /\ cp' \in Int
    BY <1>4, <1>7
  <2>2. Count(cp) \in Nat
    BY <1>4, <1>7, <1>13, <2>1, FewerBefore DEF Count, Seen
  <2>3. Count(cp') = Count(cp) + 1
    <3>0. /\ t \in TokensIn(Length, Letters, Puncts) /\ t.start >= cp
          /\ Seen(cp') = Seen(cp) \cup {t}
      BY <1>7, <1>13
    <3>1. Cardinality(Before(Length, Letters, Puncts, cp) \cup {t})
            = Cardinality(Before(Length, Letters, Puncts, cp)) + 1
      BY <1>4, <2>1, <3>0, OneMore
    <3>. QED  BY <3>0, <3>1 DEF Count, Seen
  <2>. QED  BY <1>7, <1>13, <2>2, <2>3 DEF Count
<1>14. \A u \in Seen(cp') : u \in Seen(cp) \/ (u = t /\ t.length # 0)
  <2>. HIDE DEF t
  <2>. QED  BY <1>7
<1>15. WordsInv'
  <2>. DEFINE Slots2 == \A u \in Seen(cp') :
                          Count(u.start) < words =>
                            /\ tbuf[Count(u.start)].start = u.start
                            /\ tbuf[Count(u.start)].length = u.length
  <2>1. Slots2
    <3>1. t.length # 0 => ~ (Count(t.start) < words)
      BY <1>4, <1>5, <1>13
    <3>. HIDE DEF t
    <3>. QED  BY <1>5, <1>14, <3>1
  <2>2. CASE t.length = 0 /\ phase' = "idle"
    <3>1. Seen(cp') = Seen(cp) /\ Seen(cp') = TokensIn(Length, Letters, Puncts)
      BY <1>7, <2>2
    <3>2. Count(cp') = Count(cp)
      BY <3>1 DEF Count
    <3>3. /\ (phase # "search")' /\ ~ (phase = "search")'
          /\ (words = IF Count(cp) > room + 1 THEN room + 1 ELSE Count(cp))'
      BY <1>1, <1>2, <1>5, <1>9, <2>2, <3>2
    <3>. HIDE DEF t
    <3>. QED  BY <1>1, <1>2, <1>7, <1>9, <2>1, <3>1, <3>3 DEF WordsInv
  <2>3. CASE t.length # 0 /\ ~ HasSpace /\ phase' = "scan"
    <3>1. words = room + 1 /\ Count(cp) \in Nat /\ Count(cp') = Count(cp) + 1
      BY <1>4, <1>13, <2>3 DEF HasSpace
    <3>2. words = IF Count(cp') > room + 1 THEN room + 1 ELSE Count(cp')
      BY <1>4, <1>5, <3>1
    <3>3. /\ (phase # "search")' /\ ~ (phase = "search")' /\ ~ (phase = "idle")'
          /\ (words = IF Count(cp) > room + 1 THEN room + 1 ELSE Count(cp))'
      BY <1>1, <1>2, <1>9, <2>3, <3>2
    <3>. HIDE DEF t
    <3>. QED  BY <1>1, <1>2, <1>7, <1>9, <2>1, <3>3 DEF WordsInv
  <2>4. CASE t.length # 0 /\ HasSpace /\ phase' = "search"
    <3>1. words <= room /\ words = Count(cp) /\ words = Count(t.start)
      BY <1>4, <1>5, <1>13, <2>4 DEF HasSpace
    <3>2. /\ t \in TokensIn(Length, Letters, Puncts) /\ t.start < cp'
          /\ Seen(cp') = Seen(t.start) \cup {t}
      <4>. HIDE DEF t
      <4>. QED  BY <1>7, <2>4
    <3>3. /\ ~ (phase # "search")' /\ (phase = "search")' /\ ~ (phase = "idle")'
      BY <2>4
    <3>4. /\ (token \in TokensIn(Length, Letters, Puncts))' /\ (token.start < cp)'
          /\ (Seen(cp) = Seen(token.start) \cup {token})'
          /\ (words = Count(token.start))' /\ (words <= room)'
      BY <1>1, <1>2, <1>9, <3>1, <3>2
    <3>. HIDE DEF t
    <3>. QED  BY <1>1, <1>2, <1>7, <1>9, <2>1, <3>3, <3>4 DEF WordsInv
  <2>. QED  BY <1>11, <2>2, <2>3, <2>4
<1>16. FoundInv'
  <2>1. /\ \A k \in words .. room : tbuf[k] = before[k]
        /\ \A k \in 0 .. words - 1 :
             /\ InLine(tbuf[k])
             /\ RightEntry(h_type, dictionary, flag, Encoded(h_type, Typed(tbuf[k])),
                           tbuf[k].entry, before[k].entry)
    BY <1>3, <1>4 DEF FoundInv
  <2>2. (/\ \A k \in words .. room : tbuf[k] = before[k]
         /\ \A k \in 0 .. words - 1 :
              /\ InLine(tbuf[k])
              /\ RightEntry(h_type, dictionary, flag, Encoded(h_type, Typed(tbuf[k])),
                            tbuf[k].entry, before[k].entry))'
    BY <1>1, <1>2, <2>1 DEF InLine, Typed
  <2>3. CASE phase' # "search"
    BY <2>2, <2>3 DEF FoundInv
  <2>4. CASE t.length # 0 /\ HasSpace /\ phase' = "search"
    <3>1. /\ word' = encode_text(Typed(token'))
          /\ chop' = StartChop(dictionary_size)
          /\ word_index' = IF dictionary.sorted THEN chop' - 1 ELSE 0
      BY <1>11, <2>4
    <3>2. word' = Encoded(h_type, SubSeq(cbuf, t.start, t.start + t.length - 1))
      BY <3>1, EncodedAs DEF Typed
    <3>3. t.start + t.length <= Length + 1
      <4>. HIDE DEF t
      <4>1. t \in TokensIn(Length, Letters, Puncts)
        BY <1>7, <2>4
      <4>. QED  BY <4>1 DEF TokensIn, IsTokenIn
    <3>4. word' \in Triple
      <4>. HIDE DEF t
      <4>1. t.start \in 1 .. Length + 1 /\ t.length \in 0 .. Length
        BY <1>8
      <4>2. Encoded(h_type, SubSeq(cbuf, t.start, t.start + t.length - 1)) \in Triple
        <5>. HIDE DEF cbuf
        <5>. QED  BY <1>3, <3>3, <4>1, TypedText
      <4>. QED  BY <3>2, <4>2
    <3>5. (word = Encoded(h_type, Typed(token)))'
      BY <1>1, <1>2, <3>2 DEF Typed
    <3>. DEFINE there == There(h_type, dictionary.entries, word')
    <3>6. there \subseteq 1 .. Size /\ Size \in Nat
      BY <1>3, StoryFacts DEF There, Size
    <3>7. CASE dictionary.sorted
      <4>1. chop' = StartChop(Size) /\ word_index' = StartChop(Size) - 1
        BY <3>1, <3>7 DEF dictionary_size
      <4>2. ChopAt(Size, word_index', chop') /\ Around(there, word_index', chop')
        <5>. HIDE DEF there
        <5>. QED  BY <3>6, <4>1, ChopStarts
      <4>. QED  BY <1>1, <1>2, <2>2, <2>4, <3>4, <3>5, <3>7, <4>2 DEF FoundInv
    <3>8. CASE ~ dictionary.sorted
      <4>1. chop' = StartChop(-Size) /\ word_index' = 0
        BY <3>1, <3>8 DEF dictionary_size
      <4>2. chop' = 0
        BY <3>6, <4>1 DEF StartChop
      <4>3. word_index' \in 0 .. Size /\ \A i \in there : word_index' <= i - 1
        BY <3>6, <4>1
      <4>. QED  BY <1>1, <1>2, <2>2, <2>4, <3>4, <3>5, <3>8, <4>2, <4>3 DEF FoundInv
    <3>. QED  BY <3>7, <3>8
  <2>. QED  BY <1>11, <2>3, <2>4
<1>. QED  BY <1>10, <1>12, <1>15, <1>16 DEF Inv

\* What find_word gives for the word that is looked up.
Given(entry) ==
    LET there == There(h_type, dictionary.entries, word)
    IN IF there = {} THEN entry = 0
       ELSE \E i \in there : (\A j \in there : i <= j) /\ entry = dictionary.base + i

\* What find_word gives is stored in the slot of the word.
LEMMA StoreKeeps ==
  ASSUME Inv, phase = "search", NEW entry, Given(entry), Store(entry),
         UNCHANGED <<arguments, cp, token, search>>
  PROVE  Inv'
<1>1. /\ input' = input /\ dictionary' = dictionary /\ flag' = flag /\ calls' = calls
      /\ before' = before /\ h_type' = h_type /\ cp' = cp /\ token' = token
      /\ phase' = "scan" /\ words' = words + 1
  BY DEF Store, arguments
<1>2. /\ Length' = Length /\ Letters' = Letters /\ Puncts' = Puncts
      /\ room' = room /\ cbuf' = cbuf /\ Size' = Size
  BY <1>1, SameLine
<1>3. StoryInv /\ BuffersInv /\ WordsInv /\ FoundInv
  BY DEF Inv
<1>4. /\ Length \in Nat /\ room \in Nat /\ Line(Length, Letters, Puncts)
      /\ cp \in 1 .. Length + 1 /\ words \in 0 .. room + 1 /\ calls > 0
      /\ dictionary.base \in Nat /\ Size \in Nat
      /\ token \in [start : 1 .. Length + 1, length : 0 .. Length]
      /\ tbuf \in [0 .. room -> Slot(Length)] /\ before \in [0 .. room -> Slot(Length)]
      /\ flag \in {0, 1}
  BY <1>3, StoryFacts DEF BuffersInv
<1>5. /\ NoneAcross(Letters, cp)
      /\ token \in TokensIn(Length, Letters, Puncts) /\ token.start < cp
      /\ Seen(cp) = Seen(token.start) \cup {token}
      /\ words = Count(token.start) /\ words <= room
      /\ \A t \in Seen(cp) :
           Count(t.start) < words =>
             /\ tbuf[Count(t.start)].start = t.start
             /\ tbuf[Count(t.start)].length = t.length
  BY <1>3, <1>4 DEF WordsInv
<1>6. words \in 0 .. room /\ words \in Nat
  BY <1>4, <1>5
<1>. DEFINE new == [entry  |-> IF entry # 0 \/ flag = 0 THEN entry ELSE tbuf[words].entry,
                    length |-> token.length,
                    start  |-> token.start]
<1>7. tbuf' = [tbuf EXCEPT ![words] = new]
  BY <1>6 DEF Store
<1>8. entry \in Nat
  <2>1. There(h_type, dictionary.entries, word) \subseteq 1 .. Size
    BY DEF There, Size
  <2>2. \A i \in 1 .. Size : dictionary.base + i \in Nat
    BY <1>4
  <2>. QED  BY <2>1, <2>2 DEF Given
<1>9. new \in Slot(Length)
  <2>1. tbuf[words].entry \in Nat
    BY <1>4, <1>6 DEF Slot
  <2>2. token.length \in 0 .. Length /\ token.start \in 0 .. Length + 1
    BY <1>4
  <2>. QED  BY <1>8, <2>1, <2>2 DEF Slot
<1>. HIDE DEF new
<1>10. /\ tbuf' \in [0 .. room -> Slot(Length)]
       /\ tbuf'[words] = new
       /\ \A k \in 0 .. room : k # words => tbuf'[k] = tbuf[k]
  BY <1>4, <1>6, <1>7, <1>9
<1>11. /\ \A place : Seen(place)' = Seen(place) /\ Count(place)' = Count(place)
       /\ Seen(cp)' = Seen(cp) /\ Count(cp)' = Count(cp)
  BY <1>1, <1>2 DEF Seen, Count
<1>12. StoryInv'
  BY <1>1, <1>3 DEF StoryInv
<1>13. BuffersInv'
  <2>1. words' \in 0 .. room + 1
    BY <1>1, <1>4, <1>6
  <2>. QED  BY <1>1, <1>2, <1>3, <1>10, <2>1 DEF BuffersInv
<1>14. WordsInv'
  <2>1. Count(cp) = Count(token.start) + 1
    <3>1. token.start \in Int /\ token.start >= token.start
      BY <1>4
    <3>2. Cardinality(Before(Length, Letters, Puncts, token.start) \cup {token})
            = Cardinality(Before(Length, Letters, Puncts, token.start)) + 1
      BY <1>4, <1>5, <3>1, OneMore
    <3>. QED  BY <1>5, <3>2 DEF Count, Seen
  <2>2. words' = IF Count(cp) > room + 1 THEN room + 1 ELSE Count(cp)
    BY <1>1, <1>4, <1>5, <1>6, <2>1
  <2>3. ASSUME NEW t \in Seen(cp), Count(t.start) < words'
        PROVE  /\ tbuf'[Count(t.start)].start = t.start
               /\ tbuf'[Count(t.start)].length = t.length
    <3>1. CASE t = token
      <4>1. Count(t.start) = words
        BY <1>5, <3>1
      <4>2. new.start = token.start /\ new.length = token.length
        BY DEF new
      <4>. QED  BY <1>10, <3>1, <4>1, <4>2
    <3>2. CASE t # token
      <4>1. t \in Seen(token.start)
        BY <1>5, <3>2
      <4>2. t \in TokensIn(Length, Letters, Puncts) /\ t.start < token.start
        BY <4>1 DEF Seen, Before
      <4>3. token.start \in Int
        BY <1>4
      <4>4. Count(t.start) < words /\ Count(t.start) \in Nat
        BY <1>4, <1>5, <4>2, <4>3, FewerBefore DEF Count, Seen
      <4>5. \A count \in Nat : count < words => count \in 0 .. room /\ count # words
        BY <1>4, <1>6
      <4>6. tbuf'[Count(t.start)] = tbuf[Count(t.start)]
        BY <1>10, <4>4, <4>5
      <4>. QED  BY <1>5, <4>4, <4>6
    <3>. QED  BY <3>1, <3>2
  <2>4. /\ (phase # "search")' /\ ~ (phase = "search")' /\ ~ (phase = "idle")'
        /\ (words = IF Count(cp) > room + 1 THEN room + 1 ELSE Count(cp))'
    BY <1>1, <1>2, <1>11, <2>2
  <2>5. (\A t \in Seen(cp) :
           Count(t.start) < words =>
             /\ tbuf[Count(t.start)].start = t.start
             /\ tbuf[Count(t.start)].length = t.length)'
    BY <1>11, <2>3
  <2>. QED  BY <1>1, <1>2, <1>5, <2>4, <2>5 DEF WordsInv
<1>15. FoundInv'
  <2>1. /\ \A k \in words .. room : tbuf[k] = before[k]
        /\ \A k \in 0 .. words - 1 :
             /\ InLine(tbuf[k])
             /\ RightEntry(h_type, dictionary, flag, Encoded(h_type, Typed(tbuf[k])),
                           tbuf[k].entry, before[k].entry)
        /\ word = Encoded(h_type, Typed(token))
    BY <1>3, <1>4 DEF FoundInv
  <2>2. \A k \in words + 1 .. room : tbuf'[k] = before[k]
    <3>. TAKE k \in words + 1 .. room
    <3>1. k \in words .. room /\ k \in 0 .. room /\ k # words
      BY <1>6
    <3>. QED  BY <1>10, <2>1, <3>1
  <2>3. InLine(new)
    <3>1. token.start + token.length <= Length + 1 /\ token.start >= 1
      BY <1>4, <1>5 DEF TokensIn, IsTokenIn
    <3>. QED  BY <3>1 DEF InLine, new
  <2>4. Typed(new) = Typed(token)
    BY DEF Typed, new
  <2>5. RightEntry(h_type, dictionary, flag, word, new.entry, before[words].entry)
    <3>1. before[words].entry = tbuf[words].entry
      <4>1. words \in words .. room
        BY <1>6
      <4>. QED  BY <2>1, <4>1
    <3>2. new.entry = IF entry # 0 \/ flag = 0 THEN entry ELSE tbuf[words].entry
      BY DEF new
    <3>. DEFINE there == There(h_type, dictionary.entries, word)
    <3>3. CASE there = {}
      <4>1. entry = 0
        BY <3>3 DEF Given
      <4>. QED  BY <3>1, <3>2, <3>3, <4>1 DEF RightEntry
    <3>4. CASE there # {}
      <4>1. PICK i \in there : (\A j \in there : i <= j) /\ entry = dictionary.base + i
        BY <3>4 DEF Given
      <4>2. i \in 1 .. Size
        BY DEF There, Size
      <4>3. entry # 0
        BY <1>4, <4>1, <4>2
      <4>. QED  BY <3>2, <3>4, <4>1, <4>3 DEF RightEntry
    <3>. QED  BY <3>3, <3>4
  <2>6. \A k \in 0 .. words' - 1 :
          /\ InLine(tbuf'[k])
          /\ RightEntry(h_type, dictionary, flag, Encoded(h_type, Typed(tbuf'[k])),
                        tbuf'[k].entry, before[k].entry)
    <3>. TAKE k \in 0 .. words' - 1
    <3>1. CASE k = words
      BY <1>10, <2>1, <2>3, <2>4, <2>5, <3>1
    <3>2. CASE k # words
      <4>1. k \in 0 .. words - 1 /\ k \in 0 .. room
        BY <1>1, <1>4, <1>6, <3>2
      <4>2. tbuf'[k] = tbuf[k]
        BY <1>10, <3>2, <4>1
      <4>. QED  BY <2>1, <4>1, <4>2
    <3>. QED  BY <3>1, <3>2
  <2>7. (\A k \in words .. room : tbuf[k] = before[k])'
    BY <1>1, <1>2, <2>2
  <2>8. (\A k \in 0 .. words - 1 :
           /\ InLine(tbuf[k])
           /\ RightEntry(h_type, dictionary, flag, Encoded(h_type, Typed(tbuf[k])),
                         tbuf[k].entry, before[k].entry))'
    BY <1>1, <1>2, <2>6 DEF InLine, Typed
  <2>. QED  BY <1>1, <2>7, <2>8 DEF FoundInv
<1>. QED  BY <1>12, <1>13, <1>14, <1>15 DEF Inv

\* A step of the search leaves all but its place as it was.
LEMMA SearchKeeps ==
  ASSUME Inv, phase = "search",
         UNCHANGED <<arguments, cp, token, word, tbuf, words, phase>>,
         dictionary.sorted =>
           /\ ChopAt(Size, word_index', chop')
           /\ Around(There(h_type, dictionary.entries, word), word_index', chop'),
         ~ dictionary.sorted =>
           /\ chop' = 0 /\ word_index' \in 0 .. Size
           /\ \A i \in There(h_type, dictionary.entries, word) : word_index' <= i - 1
  PROVE  Inv'
<1>1. /\ input' = input /\ dictionary' = dictionary /\ flag' = flag /\ calls' = calls
      /\ before' = before /\ h_type' = h_type /\ tbuf' = tbuf /\ words' = words /\ cp' = cp
      /\ token' = token /\ word' = word /\ phase' = phase
  BY DEF arguments
<1>2. /\ Length' = Length /\ Letters' = Letters /\ Puncts' = Puncts
      /\ room' = room /\ cbuf' = cbuf /\ Size' = Size
  BY <1>1, SameLine
<1>3. StoryInv'
  BY <1>1 DEF Inv, StoryInv
<1>4. BuffersInv'
  BY <1>1, <1>2 DEF Inv, BuffersInv
<1>5. WordsInv'
  BY <1>1, <1>2 DEF Inv, WordsInv, Count, Seen
<1>6. FoundInv'
  <2>1. (calls > 0 =>
           /\ \A k \in words .. room : tbuf[k] = before[k]
           /\ \A k \in 0 .. words - 1 :
                /\ InLine(tbuf[k])
                /\ RightEntry(h_type, dictionary, flag, Encoded(h_type, Typed(tbuf[k])),
                              tbuf[k].entry, before[k].entry))'
    BY <1>1, <1>2 DEF Inv, FoundInv, InLine, Typed
  <2>2. (word = Encoded(h_type, Typed(token)) /\ word \in Triple)'
    BY <1>1, <1>2 DEF Inv, FoundInv, Typed
  <2>. QED  BY <1>1, <1>2, <2>1, <2>2 DEF FoundInv
<1>. QED  BY <1>3, <1>4, <1>5, <1>6 DEF Inv

LEMMA FindWordKeeps ==
  ASSUME Inv, find_word
  PROVE  Inv'
<1>1. phase = "search" /\ UNCHANGED <<arguments, cp, token>>
  BY DEF find_word
<1>. DEFINE es == dictionary.entries
            there == There(h_type, es, word)
            n == Size
<1>2. /\ StoryInv /\ BuffersInv /\ FoundInv
      /\ es \in Seq(Triple) /\ n \in Nat /\ n = Len(es) /\ h_type \in Nat
      /\ dictionary.sorted \in BOOLEAN /\ dictionary.base \in Nat
  BY StoryFacts DEF Inv, Size
<1>3. /\ word \in Triple
      /\ dictionary.sorted => ChopAt(n, word_index, chop) /\ Around(there, word_index, chop)
      /\ ~ dictionary.sorted =>
           /\ chop = 0 /\ word_index \in 0 .. n
           /\ \A i \in there : word_index <= i - 1
  BY <1>1, <1>2 DEF FoundInv
<1>4. there \subseteq 1 .. n /\ \A i \in 1 .. n : i \in there <=> Compared(h_type, word, es[i]) = 0
  BY <1>2 DEF There
<1>5. \A i : Status(word, es[i]) = Compared(h_type, word, es[i])
  BY StatusCompares
<1>. HIDE DEF es, there, n
<1>6. ASSUME there = {}, NotThere  PROVE Inv'
  <2>1. Given(0)
    BY <1>6 DEF Given, there, es
  <2>2. Store(0) /\ UNCHANGED search
    BY <1>6 DEF NotThere
  <2>. QED  BY <1>1, <2>1, <2>2, StoreKeeps
<1>7. ASSUME NEW k \in 0 .. n - 1, Status(word, es[k + 1]) = 0,
             \A j \in there : k + 1 <= j,
             Store(dictionary.base + k + 1), UNCHANGED search
      PROVE  Inv'
  <2>1. k + 1 \in 1 .. n
    BY <1>2
  <2>2. k + 1 \in there
    BY <1>4, <1>5, <1>7, <2>1
  <2>3. dictionary.base + k + 1 = dictionary.base + (k + 1)
    BY <1>2
  <2>. DEFINE e == dictionary.base + k + 1
  <2>4. Given(e)
    BY <1>7, <2>2, <2>3 DEF Given, there, es
  <2>5. Store(e)
    BY <1>7
  <2>. HIDE DEF e
  <2>. QED  BY <1>1, <1>7, <2>4, <2>5, StoreKeeps
<1>8. CASE n = 0 /\ NotThere
  BY <1>4, <1>6, <1>8
<1>9. CASE Chop
  <2>1. dictionary.sorted /\ n > 0
    BY <1>9 DEF Chop, n
  <2>2. ChopAt(n, word_index, chop) /\ Around(there, word_index, chop) /\ Ascending(h_type, es)
    BY <1>2, <1>3, <2>1 DEF StoryInv, es
  <2>3. CASE chop = 0
    <3>1. NotThere
      BY <1>9, <2>3 DEF Chop
    <3>2. there = {}
      BY <1>2, <1>4, <2>2, <2>3, ChopEnds
    <3>. QED  BY <1>6, <3>1, <3>2
  <2>4. CASE chop # 0
    <3>. DEFINE at == AtMost(word_index)
                order == Status(word, es[at + 1])
    <3>1. IF order = 0 THEN Store(dictionary.base + at + 1) /\ UNCHANGED search
          ELSE /\ chop' = Halved(chop)
               /\ word_index' = NextIndex(at, order, Halved(chop))
               /\ UNCHANGED <<word, tbuf, words, phase>>
      BY <1>9, <2>4 DEF Chop, es
    <3>2. at = IF word_index > n - 1 THEN n - 1 ELSE word_index
      BY DEF AtMost, n
    <3>3. at \in 0 .. n - 1
      BY <1>2, <2>1, <2>2, <3>2 DEF ChopAt
    <3>4. order = Compared(h_type, word, es[at + 1])
      BY <1>5
    <3>5. CASE order = 0
      <4>1. \A j \in there : at + 1 <= j
        <5>. TAKE j \in there
        <5>. DEFINE k == at + 1
        <5>1. k \in 1 .. Len(es) /\ Compared(h_type, word, es[k]) = 0
          BY <1>2, <3>3, <3>4, <3>5
        <5>. HIDE DEF k
        <5>2. j = k
          BY <1>2, <1>3, <2>2, <5>1, Side DEF there
        <5>3. k \in Int
          BY <5>1
        <5>. QED  BY <5>2, <5>3 DEF k
      <4>. HIDE DEF at
      <4>2. Status(word, es[at + 1]) = 0 /\ Store(dictionary.base + at + 1) /\ UNCHANGED search
        BY <3>1, <3>5
      <4>. QED  BY <1>7, <3>3, <4>1, <4>2
    <3>6. CASE order # 0
      <4>. DEFINE half == chop \div 2
                  next == IF order > 0
                          THEN IF at + half > n - 1 THEN n - 1 ELSE at + half
                          ELSE IF at - half < 0 THEN 0 ELSE at - half
      <4>1. /\ chop' = half /\ word_index' = next
            /\ UNCHANGED <<word, tbuf, words, phase>>
        BY <3>1, <3>6 DEF Halved, NextIndex, AtMost, n
      <4>2. ChopAt(n, next, half) /\ Around(there, next, half)
        <5>1. half = chop \div 2
          OBVIOUS
        <5>2. next = IF order > 0
                     THEN IF at + half > n - 1 THEN n - 1 ELSE at + half
                     ELSE IF at - half < 0 THEN 0 ELSE at - half
          OBVIOUS
        <5>. HIDE DEF half, next, order, at
        <5>3. ChopStep(h_type, es, word, n, word_index, chop, at, order, half, next)
          BY <1>2, <1>3, <2>1, <2>2, <2>4, <3>2, <3>4, <3>6, <5>1, <5>2 DEF there, ChopStep
        <5>. QED  BY <5>3, ChopGoesOn DEF there
      <4>. HIDE DEF half, next, order, at
      <4>. QED  BY <1>1, <2>1, <4>1, <4>2, SearchKeeps DEF there, es, n
    <3>. QED  BY <3>5, <3>6
  <2>. QED  BY <2>3, <2>4
<1>10. CASE Linear
  <2>1. ~ dictionary.sorted /\ n > 0
    BY <1>10 DEF Linear, n
  <2>2. chop = 0 /\ word_index \in 0 .. n /\ \A i \in there : word_index <= i - 1
    BY <1>3, <2>1
  <2>3. CASE word_index = n
    <3>1. NotThere
      BY <1>10, <2>3 DEF Linear, n
    <3>2. there = {}
      BY <1>2, <1>4, <2>2, <2>3
    <3>. QED  BY <1>6, <3>1, <3>2
  <2>4. CASE word_index # n
    <3>1. IF Status(word, es[word_index + 1]) = 0
          THEN Store(dictionary.base + word_index + 1) /\ UNCHANGED search
          ELSE word_index' = word_index + 1 /\ UNCHANGED <<word, chop, tbuf, words, phase>>
      BY <1>10, <2>4 DEF Linear, es, n
    <3>2. word_index \in 0 .. n - 1
      BY <1>2, <2>2, <2>4
    <3>3. CASE Status(word, es[word_index + 1]) = 0
      <4>1. \A j \in there : word_index + 1 <= j
        BY <1>2, <1>4, <2>2, <3>2
      <4>. QED  BY <1>7, <3>1, <3>2, <3>3, <4>1
    <3>4. CASE Status(word, es[word_index + 1]) # 0
      <4>1. \A i \in there : word_index' <= i - 1
        <5>. TAKE i \in there
        <5>1. i \in 1 .. n /\ word_index <= i - 1
          BY <1>4, <2>2
        <5>2. i # word_index + 1
          BY <1>4, <1>5, <3>4
        <5>. QED  BY <3>1, <3>2, <3>4, <5>1, <5>2
      <4>2. word_index' \in 0 .. n /\ chop' = 0
        BY <1>2, <2>2, <3>1, <3>2, <3>4
      <4>3. UNCHANGED <<word, tbuf, words, phase>>
        BY <3>1, <3>4
      <4>. QED  BY <1>1, <2>1, <4>1, <4>2, <4>3, SearchKeeps DEF there, es, n
    <3>. QED  BY <3>3, <3>4
  <2>. QED  BY <2>3, <2>4
<1>. QED  BY <1>8, <1>9, <1>10 DEF find_word, n


-----------------------------------------------------------------------------
(* The activations of decode_text *)

\* An activation is a record of its fields, with shifts that name a table.
IsActivation(a) ==
    /\ a = [codes |-> a.codes, shift_state |-> a.shift_state, shift_lock |-> a.shift_lock,
            synonym |-> a.synonym, zscii_flag |-> a.zscii_flag, zscii |-> a.zscii]
    /\ a.shift_state \in 0 .. 2 /\ a.shift_lock \in 0 .. 2

PrintInv == \E S : printing \in Seq(S) /\ \A a \in S : IsActivation(a)

LEMMA Starts == \A codes : IsActivation(Activation(codes))
BY DEF IsActivation, Activation

\* What decode_text changes of an activation leaves it one.
LEMMA Changed ==
  ASSUME NEW a, IsActivation(a), NEW x
  PROVE  /\ IsActivation([a EXCEPT !.codes = x])
         /\ IsActivation([a EXCEPT !.synonym = x])
         /\ IsActivation([a EXCEPT !.zscii_flag = x])
         /\ IsActivation([a EXCEPT !.zscii = x])
         /\ x \in 0 .. 2 => /\ IsActivation([a EXCEPT !.shift_state = x])
                            /\ IsActivation([a EXCEPT !.shift_lock = x])
<1>1. IsActivation([a EXCEPT !.codes = x]) /\ IsActivation([a EXCEPT !.synonym = x])
  BY DEF IsActivation
<1>2. IsActivation([a EXCEPT !.zscii_flag = x]) /\ IsActivation([a EXCEPT !.zscii = x])
  BY DEF IsActivation
<1>3. x \in 0 .. 2 => IsActivation([a EXCEPT !.shift_state = x])
  BY DEF IsActivation
<1>4. x \in 0 .. 2 => IsActivation([a EXCEPT !.shift_lock = x])
  BY DEF IsActivation
<1>. QED  BY <1>1, <1>2, <1>3, <1>4

LEMMA ChangedTwice ==
  ASSUME NEW a, IsActivation(a), NEW x, NEW y
  PROVE  /\ IsActivation([a EXCEPT !.zscii_flag = x, !.zscii = y])
         /\ IsActivation([a EXCEPT !.synonym = x, !.codes = y])
         /\ x \in 0 .. 2 /\ y \in 0 .. 2 =>
              /\ IsActivation([a EXCEPT !.shift_state = x, !.shift_lock = y])
              /\ IsActivation([a EXCEPT !.shift_lock = y, !.shift_state = x])
<1>1. IsActivation([a EXCEPT !.zscii_flag = x, !.zscii = y])
  <2>. DEFINE b == [a EXCEPT !.zscii_flag = x]
  <2>1. [a EXCEPT !.zscii_flag = x, !.zscii = y] = [b EXCEPT !.zscii = y]
    OBVIOUS
  <2>2. IsActivation(b)
    BY Changed
  <2>. HIDE DEF b
  <2>. QED  BY <2>1, <2>2, Changed
<1>2. IsActivation([a EXCEPT !.synonym = x, !.codes = y])
  <2>. DEFINE b == [a EXCEPT !.synonym = x]
  <2>1. [a EXCEPT !.synonym = x, !.codes = y] = [b EXCEPT !.codes = y]
    OBVIOUS
  <2>2. IsActivation(b)
    BY Changed
  <2>. HIDE DEF b
  <2>. QED  BY <2>1, <2>2, Changed
<1>3. ASSUME x \in 0 .. 2, y \in 0 .. 2
      PROVE  IsActivation([a EXCEPT !.shift_state = x, !.shift_lock = y])
  <2>. DEFINE b == [a EXCEPT !.shift_state = x]
  <2>1. [a EXCEPT !.shift_state = x, !.shift_lock = y] = [b EXCEPT !.shift_lock = y]
    OBVIOUS
  <2>2. IsActivation(b)
    BY <1>3, Changed
  <2>. HIDE DEF b
  <2>. QED  BY <1>3, <2>1, <2>2, Changed
<1>4. ASSUME x \in 0 .. 2, y \in 0 .. 2
      PROVE  IsActivation([a EXCEPT !.shift_lock = y, !.shift_state = x])
  <2>. DEFINE b == [a EXCEPT !.shift_lock = y]
  <2>1. [a EXCEPT !.shift_lock = y, !.shift_state = x] = [b EXCEPT !.shift_state = x]
    OBVIOUS
  <2>2. IsActivation(b)
    BY <1>4, Changed
  <2>. HIDE DEF b
  <2>. QED  BY <1>4, <2>1, <2>2, Changed
<1>. QED  BY <1>1, <1>2, <1>3, <1>4

LEMMA ReleasedIs ==
  \A a : IsActivation(a) => IsActivation(Released(a))
BY DEF IsActivation, Released

LEMMA ShiftedIs ==
  ASSUME NEW a, IsActivation(a), NEW code \in 1 .. 5
  PROVE  IsActivation(Shifted(a, code))
<1>1. a.shift_lock \in 0 .. 2
  BY DEF IsActivation
<1>2. (a.shift_lock + code + 2) % 3 \in 0 .. 2 /\ (a.shift_lock + code) % 3 \in 0 .. 2
  BY <1>1
<1>. DEFINE x == (a.shift_lock + code + 2) % 3
            y == (a.shift_lock + code) % 3
<1>3. /\ IsActivation([a EXCEPT !.shift_state = x])
      /\ IsActivation([a EXCEPT !.shift_state = y, !.shift_lock = y])
  <2>1. x \in 0 .. 2 /\ y \in 0 .. 2
    BY <1>2
  <2>. HIDE DEF x, y
  <2>. QED  BY <2>1, Changed, ChangedTwice
<1>. QED  BY <1>3 DEF Shifted

\* A sequence over a set is one over a larger set.
LEMMA WiderSeq ==
  ASSUME NEW S, NEW T, S \subseteq T, NEW s \in Seq(S)
  PROVE  s \in Seq(T)
<1>1. Len(s) \in Nat /\ s = [i \in 1 .. Len(s) |-> s[i]]
  BY LenProperties
<1>2. \A i \in 1 .. Len(s) : s[i] \in T
  BY ElementOfSeq
<1>. DEFINE n == Len(s)
<1>3. n \in Nat /\ s = [i \in 1 .. n |-> s[i]] /\ \A i \in 1 .. n : s[i] \in T
  BY <1>1, <1>2
<1>. HIDE DEF n
<1>4. [i \in 1 .. n |-> s[i]] \in Seq(T)
  BY <1>3, IsASeq
<1>. QED  BY <1>3, <1>4

\* The activation at hand, and those it was called from.
LEMMA TopIs ==
  ASSUME PrintInv, Decoding
  PROVE  IsActivation(Top) /\ \E S : Below \in Seq(S) /\ \A a \in S : IsActivation(a)
<1>1. PICK S : printing \in Seq(S) /\ \A a \in S : IsActivation(a)
  BY DEF PrintInv
<1>2. Len(printing) \in Nat /\ Len(printing) >= 1
  BY <1>1, EmptySeq, LenProperties DEF Decoding
<1>3. Top \in S
  BY <1>1, <1>2, ElementOfSeq DEF Top
<1>4. Below \in Seq(S)
  <2>1. \A i \in 1 .. Len(printing) - 1 : printing[i] \in S
    BY <1>1, <1>2, ElementOfSeq
  <2>2. 1 \in Int /\ Len(printing) - 1 \in Int
    BY <1>2
  <2>. DEFINE n == Len(printing) - 1
  <2>3. n \in Int /\ \A i \in 1 .. n : printing[i] \in S
    BY <2>1, <2>2
  <2>. HIDE DEF n
  <2>4. SubSeq(printing, 1, n) \in Seq(S)
    BY <2>3, SubSeqProperties
  <2>. QED  BY <2>4 DEF Below, n
<1>. QED  BY <1>1, <1>3, <1>4

\* The activation at hand goes on as another.
LEMMA BecomesKeeps ==
  ASSUME PrintInv, Decoding, NEW a, IsActivation(a), Becomes(a)
  PROVE  PrintInv'
<1>1. PICK S : Below \in Seq(S) /\ \A b \in S : IsActivation(b)
  BY TopIs
<1>. DEFINE b == [a EXCEPT !.codes = Tail(@)]
            T == S \cup {b}
<1>2. IsActivation(b) /\ printing' = Append(Below, b)
  BY Changed, ChangedTwice DEF Becomes
<1>. HIDE DEF b
<1>3. \A c \in T : IsActivation(c)
  BY <1>1, <1>2
<1>4. Below \in Seq(T)
  BY <1>1, WiderSeq
<1>5. b \in T
  OBVIOUS
<1>. HIDE DEF T
<1>6. Append(Below, b) \in Seq(T)
  BY <1>4, <1>5, AppendProperties
<1>. QED  BY <1>2, <1>3, <1>6 DEF PrintInv

LEMMA PrintTextKeeps ==
  ASSUME NEW codes, PrintText(codes)
  PROVE  PrintInv'
<1>. DEFINE a == Activation(codes)
            S == {a}
<1>1. printing' = <<a>> /\ \A b \in S : IsActivation(b)
  BY Starts DEF PrintText
<1>2. <<a>> \in Seq(S)
  OBVIOUS
<1>. HIDE DEF a, S
<1>. QED  BY <1>1, <1>2 DEF PrintInv

LEMMA DecodeKeeps ==
  ASSUME PrintInv, decode_text
  PROVE  PrintInv'
<1>1. Decoding
  BY DEF decode_text
<1>2. IsActivation(Top)
  BY <1>1, TopIs
<1>3. CASE EndOfText
  <2>1. printing' = Below
    BY <1>3 DEF EndOfText
  <2>. QED  BY <1>1, <2>1, TopIs DEF PrintInv
<1>4. CASE Synonym
  <2>. DEFINE outer == [Released(Top) EXCEPT !.synonym = 0, !.codes = Tail(@)]
              inner == Activation(Synonyms[(Top.synonym - 1) * 32 + Code])
  <2>1. printing' = Below \o <<outer, inner>>
    BY <1>4 DEF Synonym
  <2>2. IsActivation(outer) /\ IsActivation(inner)
    <3>1. IsActivation(Released(Top))
      BY <1>2, ReleasedIs
    <3>2. \A x : IsActivation([Released(Top) EXCEPT !.synonym = 0, !.codes = x])
      BY <3>1, Changed, ChangedTwice
    <3>. QED  BY <3>2, Starts
  <2>. HIDE DEF outer, inner
  <2>3. PICK S : Below \in Seq(S) /\ \A b \in S : IsActivation(b)
    BY <1>1, TopIs
  <2>. DEFINE T == S \cup {outer, inner}
  <2>4. \A c \in T : IsActivation(c)
    BY <2>2, <2>3
  <2>5. Below \in Seq(T)
    BY <2>3, WiderSeq
  <2>6. <<outer, inner>> \in Seq(T)
    OBVIOUS
  <2>. HIDE DEF T
  <2>7. Below \o <<outer, inner>> \in Seq(T)
    BY <2>5, <2>6, ConcatProperties
  <2>. QED  BY <2>1, <2>4, <2>7 DEF PrintInv
<1>5. CASE Zscii
  <2>1. /\ IsActivation([Top EXCEPT !.zscii_flag = 2, !.zscii = Code * 32])
        /\ IsActivation([Top EXCEPT !.zscii_flag = 0])
    BY <1>2, Changed, ChangedTwice
  <2>2. \/ Becomes([Top EXCEPT !.zscii_flag = 2, !.zscii = Code * 32])
        \/ Becomes([Top EXCEPT !.zscii_flag = 0])
    BY <1>5 DEF Zscii
  <2>. QED  BY <1>1, <2>1, <2>2, BecomesKeeps
<1>6. CASE Character
  <2>1. /\ IsActivation(Released(Top))
        /\ IsActivation([Released(Top) EXCEPT !.zscii_flag = 1])
    BY <1>2, ReleasedIs, Changed, ChangedTwice
  <2>2. Becomes(Released(Top)) \/ Becomes([Released(Top) EXCEPT !.zscii_flag = 1])
    BY <1>6 DEF Character
  <2>. QED  BY <1>1, <2>1, <2>2, BecomesKeeps
<1>7. CASE Blank
  <2>1. Becomes(Top)
    BY <1>7 DEF Blank
  <2>. QED  BY <1>1, <1>2, <2>1, BecomesKeeps
<1>8. CASE Special
  <2>1. Code \in 1 .. 5
    BY <1>8 DEF Special
  <2>2. \/ Becomes([Top EXCEPT !.synonym = Code])
        \/ Becomes(Top)
        \/ Becomes(Shifted(Top, Code))
        \/ Code > 3 /\ Becomes([Top EXCEPT !.shift_lock = 0, !.shift_state = Code - 3])
    BY <1>8 DEF Special
  <2>3. IsActivation([Top EXCEPT !.synonym = Code]) /\ IsActivation(Shifted(Top, Code))
    BY <1>2, <2>1, Changed, ChangedTwice, ShiftedIs
  <2>4. Code > 3 => IsActivation([Top EXCEPT !.shift_lock = 0, !.shift_state = Code - 3])
    <3>1. Code > 3 => Code - 3 \in 0 .. 2 /\ 0 \in 0 .. 2
      BY <2>1
    <3>. QED  BY <1>2, <3>1, Changed, ChangedTwice
  <2>. QED  BY <1>1, <1>2, <2>2, <2>3, <2>4, BecomesKeeps
<1>9. EndOfText \/ Synonym \/ Zscii \/ Character \/ Blank \/ Special
  BY DEF decode_text
<1>. QED  BY <1>3, <1>4, <1>5, <1>6, <1>7, <1>8, <1>9

-----------------------------------------------------------------------------
(* The theorems *)

LEMMA StepKeeps ==
  ASSUME Inv, PrintInv, [Next]_vars
  PROVE  Inv' /\ PrintInv'
<1>1. ASSUME UNCHANGED ztext  PROVE PrintInv'
  BY <1>1 DEF PrintInv, ztext
<1>2. CASE z_tokenise
  <2>1. UNCHANGED ztext
    BY <1>2 DEF z_tokenise
  <2>. QED  BY <1>1, <1>2, <2>1, TokeniseKeeps
<1>3. CASE NextToken
  <2>1. UNCHANGED ztext
    BY <1>3 DEF NextToken
  <2>. QED  BY <1>1, <1>3, <2>1, NextTokenKeeps
<1>4. CASE find_word
  <2>1. UNCHANGED ztext
    BY <1>4 DEF find_word
  <2>. QED  BY <1>1, <1>4, <2>1, FindWordKeeps
<1>5. CASE PrintNext
  <2>1. UNCHANGED <<arguments, tbuf, words, cp, token, search, phase>>
    BY <1>5 DEF PrintNext
  <2>2. CASE decode_text
    BY <2>1, <2>2, OthersKeep, DecodeKeeps
  <2>3. ASSUME NEW k \in Slots, z_print_addr(k)  PROVE PrintInv'
    BY <2>3, PrintTextKeeps DEF z_print_addr
  <2>4. ASSUME NEW text \in input.texts, z_print_paddr(text)  PROVE PrintInv'
    BY <2>4, PrintTextKeeps DEF z_print_paddr
  <2>. QED  BY <1>5, <2>1, <2>2, <2>3, <2>4, OthersKeep DEF PrintNext
<1>6. CASE UNCHANGED vars
  <2>1. UNCHANGED <<arguments, tbuf, words, cp, token, search, phase>> /\ UNCHANGED ztext
    BY <1>6 DEF vars
  <2>. QED  BY <1>1, <2>1, OthersKeep
<1>. QED  BY <1>2, <1>3, <1>4, <1>5, <1>6 DEF Next, TokeniseLine

\* The invariant of tokenise_line, next_token, find_word and decode_text holds in
\* every state.
THEOREM Invariance == Ordered /\ Spec => [](Inv /\ PrintInv)
<1>1. Init /\ Ordered => Inv /\ PrintInv
  <2>. SUFFICES ASSUME Init, Ordered  PROVE Inv /\ PrintInv
    OBVIOUS
  <2>1. printing \in Seq({}) /\ \A a \in {} : IsActivation(a)
    BY DEF Init
  <2>. QED  BY <2>1, InitHolds DEF PrintInv
<1>2. Inv /\ PrintInv /\ [Next]_vars => (Inv /\ PrintInv)'
  BY StepKeeps
<1>. QED  BY <1>1, <1>2, PTL DEF Spec

LEMMA InvGivesType ==
  ASSUME Inv, PrintInv
  PROVE  TypeOK
<1>1. /\ h_type \in Versions /\ Length \in Nat /\ room \in Nat /\ End = Length + 1
      /\ Length = Len(cbuf) /\ Size \in Nat /\ dictionary.sorted \in BOOLEAN
  BY StoryFacts DEF Inv, Length
<1>2. /\ tbuf \in [Slots -> [entry : Nat, length : 0 .. Len(cbuf), start : 0 .. End]]
      /\ words \in 0 .. room + 1 /\ cp \in 1 .. End
      /\ phase \in {"idle", "scan", "search"}
  BY <1>1 DEF Inv, BuffersInv, Slot, Slots
<1>3. ASSUME phase = "search"  PROVE word_index \in -1 .. Size /\ chop \in 0 .. 2 * Size
  <2>. DEFINE n == Size
  <2>1. \/ dictionary.sorted /\ ChopAt(n, word_index, chop)
        \/ chop = 0 /\ word_index \in 0 .. n
    BY <1>1, <1>3 DEF Inv, FoundInv
  <2>2. n \in Nat
    BY <1>1
  <2>. HIDE DEF n
  <2>3. CASE chop = 0 /\ word_index \in 0 .. n
    BY <2>2, <2>3 DEF n
  <2>4. CASE ChopAt(n, word_index, chop)
    <3>1. chop \in Nat
      BY <2>4, PowerLaws DEF ChopAt
    <3>2. /\ n = 0 => chop = 0 /\ word_index = -1
          /\ n > 0 => \/ word_index \in 0 .. n - 1 /\ chop <= n
                      \/ n = 1 /\ chop = 2 /\ word_index = 1
      BY <2>4 DEF ChopAt
    <3>3. word_index \in -1 .. n /\ chop \in 0 .. 2 * n
      <4>1. CASE n = 0
        BY <2>2, <3>2, <4>1
      <4>2. CASE n > 0
        BY <2>2, <3>1, <3>2, <4>2
      <4>. QED  BY <2>2, <4>1, <4>2
    <3>. QED  BY <3>3 DEF n
  <2>. QED  BY <2>1, <2>3, <2>4
<1>4. \A i \in DOMAIN printing :
        printing[i].shift_state \in 0 .. 2 /\ printing[i].shift_lock \in 0 .. 2
  <2>1. PICK S : printing \in Seq(S) /\ \A a \in S : IsActivation(a)
    BY DEF PrintInv
  <2>2. \A i \in DOMAIN printing : printing[i] \in S
    BY <2>1, LenProperties, ElementOfSeq
  <2>. QED  BY <2>1, <2>2 DEF IsActivation
<1>5. dictionary.sorted =>
        \A i \in 1 .. Size - 1 : Status(dictionary.entries[i], dictionary.entries[i + 1]) < 0
  BY StatusCompares DEF Inv, StoryInv, Ascending, Size
<1>. QED  BY <1>1, <1>2, <1>3, <1>4, <1>5 DEF TypeOK

\* The token buffer, the loops of find_word and the shifts of decode_text stay in
\* their bounds, for every line, room and dictionary in order.
THEOREM TypeCorrect == Ordered /\ Spec => []TypeOK
<1>1. Inv /\ PrintInv => TypeOK
  BY InvGivesType
<1>. QED  BY <1>1, Invariance, PTL

\* Every word of the line has a slot, in order, as far as there is room for it.
THEOREM WordsStayInOrder == Ordered /\ Spec => []WordsInOrder
<1>1. Inv => WordsInOrder
  <2>. SUFFICES ASSUME Inv, phase = "idle", calls > 0
                PROVE  /\ words = IF Cardinality(Tokens) > room + 1 THEN room + 1
                                  ELSE Cardinality(Tokens)
                       /\ \A t \in Tokens :
                            LET k == Cardinality(Ahead(t)) IN
                            k < words => tbuf[k].start = t.start /\ tbuf[k].length = t.length
    BY DEF WordsInOrder, Tokenised
  <2>1. /\ Tokens = TokensIn(Length, Letters, Puncts)
        /\ \A t \in Tokens : Ahead(t) = Seen(t.start)
    BY StoryFacts, TokensOfLine DEF Inv, Seen
  <2>2. /\ words = IF Count(cp) > room + 1 THEN room + 1 ELSE Count(cp)
        /\ Seen(cp) = Tokens
        /\ \A t \in Seen(cp) :
             Count(t.start) < words =>
               /\ tbuf[Count(t.start)].start = t.start
               /\ tbuf[Count(t.start)].length = t.length
    BY <2>1 DEF Inv, WordsInv
  <2>. QED  BY <2>1, <2>2 DEF Count
<1>. QED  BY <1>1, Invariance, PTL

LEMMA EqualCompares ==
  ASSUME NEW s, h_type \in Nat, encode_text(s) \in Triple, NEW e \in Triple
  PROVE  Equal(s, e) <=> Compared(h_type, Encoded(h_type, s), e) = 0
<1>. DEFINE w == encode_text(s)
<1>1. w = Encoded(h_type, s) /\ w \in Triple
  BY EncodedAs
<1>2. Equal(s, e) <=> \A i \in 1 .. LastWord : w[i] = e[i]
  BY DEF Equal
<1>. HIDE DEF w
<1>3. (\A i \in 1 .. LastWord : w[i] = e[i]) <=> /\ w[1] = e[1] /\ w[2] = e[2]
                                                 /\ h_type < 4 \/ w[3] = e[3]
  <2>1. CASE h_type < 4
    BY <2>1 DEF LastWord
  <2>2. CASE ~ (h_type < 4)
    BY <2>2 DEF LastWord
  <2>. QED  BY <2>1, <2>2
<1>. QED  BY <1>1, <1>2, <1>3, ComparedLaws

\* The chop and the linear search find a word iff the dictionary has it, for every
\* dictionary in order, and every one that says it is in no order.
THEOREM FoundExactlyIfThere == Ordered /\ Spec => []FoundIffThere
<1>1. Inv => FoundIffThere
  <2>. SUFFICES ASSUME Inv, phase = "idle", calls > 0, NEW k \in 0 .. words - 1
                PROVE  LET there == {i \in 1 .. Size : Equal(Typed(tbuf[k]), dictionary.entries[i])}
                       IN IF there = {}
                          THEN tbuf[k].entry = IF flag = 0 THEN 0 ELSE before[k].entry
                          ELSE \E i \in there : /\ \A j \in there : i <= j
                                                /\ tbuf[k].entry = dictionary.base + i
    BY DEF FoundIffThere, Tokenised
  <2>1. /\ StoryInv /\ BuffersInv /\ h_type \in Nat /\ Length \in Nat /\ room \in Nat
        /\ \A i \in 1 .. Size : dictionary.entries[i] \in Triple
    BY StoryFacts DEF Inv
  <2>2. /\ InLine(tbuf[k])
        /\ RightEntry(h_type, dictionary, flag, Encoded(h_type, Typed(tbuf[k])),
                      tbuf[k].entry, before[k].entry)
    BY DEF Inv, FoundInv
  <2>. DEFINE t == tbuf[k]
  <2>3. encode_text(Typed(t)) \in Triple
    <3>1. t \in Slot(Length)
      <4>1. k \in 0 .. room
        BY <2>1 DEF BuffersInv
      <4>. QED  BY <2>1, <4>1 DEF BuffersInv
    <3>2. t.start \in 1 .. Length + 1 /\ t.length \in 0 .. Length /\ t.start + t.length <= Length + 1
      BY <2>1, <2>2, <3>1 DEF InLine, Slot
    <3>3. Encoded(h_type, Typed(t)) \in Triple
      BY <2>1, <3>2, TypedText DEF Typed
    <3>. QED  BY <3>3, EncodedAs
  <2>4. {i \in 1 .. Size : Equal(Typed(t), dictionary.entries[i])}
          = There(h_type, dictionary.entries, Encoded(h_type, Typed(t)))
    <3>1. \A i \in 1 .. Size : Equal(Typed(t), dictionary.entries[i])
                                 <=> Compared(h_type, Encoded(h_type, Typed(t)),
                                              dictionary.entries[i]) = 0
      BY <2>1, <2>3, EqualCompares
    <3>. QED  BY <3>1 DEF There, Size
  <2>. QED  BY <2>2, <2>4 DEF RightEntry
<1>. QED  BY <1>1, Invariance, PTL

-----------------------------------------------------------------------------
(* Console: the inductive invariant *)

IsFunction(f) == f = [x \in DOMAIN f |-> f[x]]
IsSession(s) == s = [file |-> s.file, responses |-> s.responses]
IsDefault(d) == d = [use \in {"save", "record"} |-> d[use]]

\* The one file pointer is used by one of recording and replaying.
StreamInv ==
    /\ recording \in BOOLEAN /\ replaying \in BOOLEAN /\ ~ (recording /\ replaying)
    /\ replaying \/ playback = <<>>

KeyboardInv == eof \in BOOLEAN /\ (eof => rest = <<>>)

RecordsInv == IsFunction(files) /\ IsSession(session) /\ IsDefault(default)

\* While a name is asked for neither recording nor replaying begins or ends, and
\* a name that is there is not used for writing before the player agreed.
AskingInv ==
    /\ status \in {"run", "prompt", "named", "stopped", "fatal"}
    /\ status \in {"prompt", "named"} =>
         /\ asking \in Questions
         /\ asking.use \in {"record", "playback"} => ~ recording /\ ~ replaying
    /\ status = "prompt" => asking.name \in DOMAIN files
    /\ status = "named" /\ asking.use \in WritingUses /\ asking.name \in DOMAIN files => asking.yes

\* What is recorded goes to the file whose name is offered for the next one.
SessionInv == recording /\ session.file # None => session.file = default["record"]

ConsoleInv == StreamInv /\ KeyboardInv /\ RecordsInv /\ AskingInv /\ SessionInv

\* The step formula of OldFilesKept.
Kept ==
    \A n \in DOMAIN files :
        (n \notin DOMAIN files' \/ files'[n] # files[n]) =>
            \/ asking # None /\ asking.name = n /\ asking.yes
            \/ recording /\ n = default["record"]

-----------------------------------------------------------------------------
(* The parts of the steps *)

LEMMA TypedLinesOf ==
  ASSUME KeyboardInv, NEW n, NEW t \in TypedLines(n)
  PROVE  t.eof \in BOOLEAN
<1>1. \/ \E l : t = [line |-> l, eof |-> eof, halt |-> halt]
      \/ \E l : t = [line |-> l, eof |-> FALSE, halt |-> halt]
      \/ t = [line |-> <<>>, eof |-> EndOfInput.eof, halt |-> EndOfInput.halt]
  BY DEF TypedLines
<1>2. EndOfInput.eof = TRUE
  BY DEF EndOfInput
<1>3. t.eof \in {eof, FALSE, TRUE}
  <2>1. CASE \E l : t = [line |-> l, eof |-> eof, halt |-> halt]
    BY <2>1
  <2>2. CASE \E l : t = [line |-> l, eof |-> FALSE, halt |-> halt]
    BY <2>2
  <2>3. CASE t = [line |-> <<>>, eof |-> EndOfInput.eof, halt |-> EndOfInput.halt]
    BY <1>2, <2>3
  <2>. QED  BY <1>1, <2>1, <2>2, <2>3
<1>. QED  BY <1>3 DEF KeyboardInv

LEMMA TypedKeysOf ==
  ASSUME KeyboardInv, NEW k \in TypedKeys
  PROVE  k.eof \in BOOLEAN /\ (k.eof => k.rest = <<>>)
<1>1. CASE rest # <<>>
  <2>1. k = KeyFrom(rest) /\ eof = FALSE
    BY <1>1 DEF KeyboardInv, TypedKeys
  <2>. QED  BY <2>1 DEF KeyFrom
<1>2. CASE rest = <<>> /\ eof
  <2>1. k = [key |-> NUL, rest |-> <<>>, eof |-> TRUE, halt |-> TRUE]
    BY <1>2 DEF TypedKeys
  <2>. QED  BY <2>1
<1>3. CASE rest = <<>> /\ ~ eof
  <2>1. \/ \E l \in Lines : k = KeyFrom(Append(l, NL))
        \/ k = [key |-> NUL, rest |-> <<>>, eof |-> TRUE, halt |-> TRUE]
    BY <1>3 DEF TypedKeys
  <2>2. eof = FALSE
    BY <1>3 DEF KeyboardInv
  <2>3. CASE \E l \in Lines : k = KeyFrom(Append(l, NL))
    <3>1. k.eof = FALSE
      BY <2>2, <2>3 DEF KeyFrom
    <3>. QED  BY <3>1
  <2>4. CASE k = [key |-> NUL, rest |-> <<>>, eof |-> TRUE, halt |-> TRUE]
    BY <2>4
  <2>. QED  BY <2>1, <2>3, <2>4
<1>. QED  BY <1>1, <1>2, <1>3 DEF KeyboardInv

\* What is recorded changes the file recorded only, and follows no other.
LEMMA RecordedKeeps ==
  ASSUME ConsoleInv, NEW taped, NEW response
  PROVE  /\ IsFunction(FilesWith(taped)) /\ DOMAIN FilesWith(taped) = DOMAIN files
         /\ \A n \in DOMAIN files :
              FilesWith(taped)[n] # files[n] => recording /\ n = default["record"]
         /\ IsSession(SessionWith(response))
         /\ SessionWith(response).file \in {session.file, None}
<1>1. IsFunction(files) /\ IsSession(session)
  BY DEF ConsoleInv, RecordsInv
<1>2. CASE Follows /\ ~ Full
  <2>. DEFINE k == session.file
              g == [files EXCEPT ![k].text = @ \o taped]
  <2>1. IsFunction(g) /\ DOMAIN g = DOMAIN files /\ \A n \in DOMAIN files : n # k => g[n] = files[n]
    BY <1>1, Zenon DEF IsFunction
  <2>2. FilesWith(taped) = g
    BY <1>2 DEF FilesWith
  <2>3. recording /\ k = default["record"]
    BY <1>2 DEF Follows, ConsoleInv, SessionInv
  <2>4. SessionWith(response) = [session EXCEPT !.responses = Append(@, response)]
    BY <1>2 DEF SessionWith
  <2>5. /\ IsSession([session EXCEPT !.responses = Append(@, response)])
        /\ [session EXCEPT !.responses = Append(@, response)].file = session.file
    BY <1>1 DEF IsSession
  <2>. HIDE DEF g, k
  <2>6. /\ IsFunction(FilesWith(taped)) /\ DOMAIN FilesWith(taped) = DOMAIN files
        /\ \A n \in DOMAIN files :
             FilesWith(taped)[n] # files[n] => recording /\ n = default["record"]
    BY <2>1, <2>2, <2>3
  <2>7. /\ IsSession(SessionWith(response))
        /\ SessionWith(response).file \in {session.file, None}
    BY <2>4, <2>5
  <2>. QED  BY <2>6, <2>7
<1>3. CASE ~ (Follows /\ ~ Full)
  <2>1. FilesWith(taped) = files
    BY <1>3 DEF FilesWith
  <2>2. SessionWith(response) \in {session, NoSession}
    BY <1>3 DEF SessionWith
  <2>3. IsSession(NoSession) /\ NoSession.file = None
    BY DEF IsSession, NoSession
  <2>. QED  BY <1>1, <2>1, <2>2, <2>3
<1>. QED  BY <1>2, <1>3

LEMMA ForgetKeeps ==
  ASSUME NEW s, IsSession(s), NEW name
  PROVE  IsSession(Forget(s, name)) /\ Forget(s, name).file \in {s.file, None}
<1>1. IsSession([s EXCEPT !.file = None]) /\ [s EXCEPT !.file = None].file = None
  BY DEF IsSession
<1>2. IsSession(NoSession) /\ NoSession.file = None
  BY DEF IsSession, NoSession
<1>3. Forget(s, name) \in {s, [s EXCEPT !.file = None], NoSession}
  BY DEF Forget
<1>. QED  BY <1>1, <1>2, <1>3

LEMMA PutKeeps ==
  ASSUME NEW name, NEW file, NEW fs, IsFunction(fs)
  PROVE  /\ IsFunction(Put(name, file, fs)) /\ DOMAIN Put(name, file, fs) = {name} \cup DOMAIN fs
         /\ \A n \in DOMAIN fs : n # name => Put(name, file, fs)[n] = fs[n]
BY DEF Put, IsFunction

\* An answer ends the replay when the command file is at its end.
LEMMA AnsweredKeeps ==
  ASSUME StreamInv, replaying' = Plays, recording' = recording,
         playback' = playback \/ Plays
  PROVE  /\ StreamInv'
         /\ ~ Plays => ~ replaying'
BY DEF StreamInv, Plays

\* A step that changes none of the files keeps them.
LEMMA SameFiles == ASSUME files' = files  PROVE Kept
BY DEF Kept

\* The files a step that records leaves.
LEMMA TapedFiles ==
  ASSUME ConsoleInv, NEW taped, files' = FilesWith(taped)
  PROVE  Kept
BY RecordedKeeps DEF Kept

-----------------------------------------------------------------------------
(* Each step keeps the invariant and the files *)

LEMMA ConsoleBegins ==
  ASSUME ConsoleInit
  PROVE  ConsoleInv
<1>1. IsFunction(files) /\ IsSession(session) /\ IsDefault(default)
  BY DEF ConsoleInit, IsFunction, IsSession, IsDefault, NoSession
<1>. QED  BY <1>1 DEF ConsoleInit, ConsoleInv, StreamInv, KeyboardInv, RecordsInv, AskingInv, SessionInv

LEMMA ReadLineKeeps ==
  ASSUME ConsoleInv, z_sread_aread
  PROVE  ConsoleInv' /\ Kept
<1>1. /\ status = "run" /\ status' = status /\ asking' = asking /\ default' = default
      /\ recording' = recording /\ replaying' = Plays
  BY DEF z_sread_aread, Answered
<1>2. CASE Plays
  <2>1. UNCHANGED <<keyboard, files, session>>
    BY <1>2 DEF z_sread_aread
  <2>2. rest' = rest /\ eof' = eof /\ files' = files /\ session' = session
    BY <2>1 DEF keyboard
  <2>3. StreamInv'
    BY <1>1, <1>2, AnsweredKeeps DEF ConsoleInv
  <2>4. KeyboardInv' /\ RecordsInv' /\ SessionInv' /\ AskingInv'
    BY <1>1, <2>2 DEF ConsoleInv, KeyboardInv, RecordsInv, SessionInv, AskingInv
  <2>. QED  BY <2>2, <2>3, <2>4, SameFiles DEF ConsoleInv
<1>3. CASE ~ Plays
  <2>1. PICK t \in TypedLines(BufLen) :
          /\ rest' = <<>> /\ eof' = t.eof
          /\ \E string \in BufferStrings(t.line) :
               Recorded(Response("line", t.line, string = t.line), TapedLine(string))
          /\ playback' = playback
    BY <1>3 DEF z_sread_aread
  <2>2. PICK string \in BufferStrings(t.line) :
          Recorded(Response("line", t.line, string = t.line), TapedLine(string))
    BY <2>1
  <2>. DEFINE taped    == TapedLine(string)
              response == Response("line", t.line, string = t.line)
  <2>3. files' = FilesWith(taped) /\ session' = SessionWith(response)
    BY <2>2 DEF Recorded
  <2>. HIDE DEF taped, response
  <2>4. StreamInv'
    BY <1>1, <2>1, AnsweredKeeps DEF ConsoleInv
  <2>5. KeyboardInv'
    BY <2>1, TypedLinesOf DEF ConsoleInv, KeyboardInv
  <2>6. RecordsInv' /\ SessionInv'
    BY <1>1, <2>3, RecordedKeeps DEF ConsoleInv, RecordsInv, SessionInv
  <2>7. AskingInv'
    BY <1>1 DEF ConsoleInv, AskingInv
  <2>. QED  BY <2>3, <2>4, <2>5, <2>6, <2>7, TapedFiles DEF ConsoleInv
<1>. QED  BY <1>2, <1>3

LEMMA ReadCharKeeps ==
  ASSUME ConsoleInv, z_read_char
  PROVE  ConsoleInv' /\ Kept
<1>1. /\ status = "run" /\ status' = status /\ asking' = asking /\ default' = default
      /\ recording' = recording
  BY DEF z_read_char
<1>2. AskingInv'
  BY <1>1 DEF ConsoleInv, AskingInv
<1>3. CASE PlayKey
  <2>1. /\ Plays /\ replaying' = Plays
        /\ rest' = rest /\ eof' = eof /\ files' = files /\ session' = session
    BY <1>3 DEF PlayKey, Answered, keyboard
  <2>2. StreamInv'
    BY <1>1, <2>1, AnsweredKeeps DEF ConsoleInv
  <2>3. KeyboardInv' /\ RecordsInv' /\ SessionInv'
    BY <1>1, <2>1 DEF ConsoleInv, KeyboardInv, RecordsInv, SessionInv
  <2>. QED  BY <1>2, <2>1, <2>2, <2>3, SameFiles DEF ConsoleInv
<1>4. CASE TypeKey
  <2>1. PICK k \in TypedKeys :
          /\ replaying' = Plays /\ playback' = playback
          /\ rest' = k.rest /\ eof' = k.eof
          /\ Recorded(Response("key", <<k.key>>, TRUE), TapedKey(k.key))
    BY <1>4 DEF TypeKey, Answered
  <2>. DEFINE taped    == TapedKey(k.key)
              response == Response("key", <<k.key>>, TRUE)
  <2>2. files' = FilesWith(taped) /\ session' = SessionWith(response)
    BY <2>1 DEF Recorded
  <2>. HIDE DEF taped, response
  <2>3. StreamInv'
    BY <1>1, <2>1, AnsweredKeeps DEF ConsoleInv
  <2>4. KeyboardInv'
    BY <2>1, TypedKeysOf DEF ConsoleInv, KeyboardInv
  <2>5. RecordsInv' /\ SessionInv'
    BY <1>1, <2>2, RecordedKeeps DEF ConsoleInv, RecordsInv, SessionInv
  <2>. QED  BY <1>2, <2>2, <2>3, <2>4, <2>5, TapedFiles DEF ConsoleInv
<1>. QED  BY <1>3, <1>4 DEF z_read_char

LEMMA GetFileNameKeeps ==
  ASSUME ConsoleInv, NEW use \in Uses, get_file_name(use)
  PROVE  ConsoleInv' /\ Kept
<1>1. /\ status = "run" /\ MayAsk(use)
      /\ files' = files /\ default' = default /\ recording' = recording /\ session' = session
  BY DEF get_file_name
<1>2. PICK line : Named(use, line)
  BY DEF get_file_name
<1>. DEFINE name == IF line = <<>> THEN default[DefaultFor(use)] ELSE line
<1>3. /\ name \in Names /\ replaying' = Plays
      /\ asking' = [use |-> use, name |-> name, yes |-> FALSE, again |-> FALSE]
      /\ status' = IF Overwrites(use, name) THEN "prompt" ELSE "named"
  BY <1>2 DEF Named, Sensible, Answered
<1>4. KeyboardInv' /\ (playback' = playback \/ Plays)
  <2>1. CASE Plays
    <3>1. rest' = rest /\ eof' = eof
      BY <2>1 DEF get_file_name, keyboard
    <3>. QED  BY <2>1, <3>1 DEF ConsoleInv, KeyboardInv
  <2>2. CASE ~ Plays
    <3>1. PICK t \in TypedLines(NameLen) : rest' = <<>> /\ eof' = t.eof /\ playback' = playback
      BY <2>2 DEF get_file_name
    <3>. QED  BY <3>1, TypedLinesOf DEF ConsoleInv, KeyboardInv
  <2>. QED  BY <2>1, <2>2
<1>. HIDE DEF name
<1>5. StreamInv'
  BY <1>1, <1>3, <1>4, AnsweredKeeps DEF ConsoleInv
<1>6. AskingInv'
  <2>1. asking' \in Questions /\ asking'.use = use /\ asking'.name = name
    BY <1>3 DEF Questions
  <2>2. use \in {"record", "playback"} => ~ recording' /\ ~ replaying'
    BY <1>1, <1>3 DEF MayAsk, Plays
  <2>3. /\ status' = "prompt" => name \in DOMAIN files'
        /\ status' = "named" /\ use \in WritingUses => name \notin DOMAIN files'
        /\ status' \in {"prompt", "named"}
    BY <1>1, <1>3 DEF Overwrites
  <2>. QED  BY <2>1, <2>2, <2>3 DEF AskingInv
<1>7. RecordsInv' /\ SessionInv'
  BY <1>1 DEF ConsoleInv, RecordsInv, SessionInv
<1>. QED  BY <1>1, <1>4, <1>5, <1>6, <1>7, SameFiles DEF ConsoleInv

LEMMA QuestionKeeps ==
  ASSUME ConsoleInv, Question
  PROVE  ConsoleInv' /\ Kept
<1>1. /\ status = "prompt" /\ files' = files /\ default' = default
      /\ recording' = recording /\ replaying' = replaying /\ playback' = playback
  BY DEF Question, stream
<1>2. PICK k \in TypedKeys :
        /\ rest' = k.rest /\ eof' = k.eof
        /\ status' = CASE k.key = "y" -> "named" [] k.key = "n" -> "run" [] OTHER -> "prompt"
        /\ asking' = IF k.key = "n" THEN None
                     ELSE [asking EXCEPT !.yes = (k.key = "y"), !.again = ~@ /\ k.key # "y"]
        /\ session' = IF k.key = "n" THEN SessionWith(Response("name", asking.name, FALSE))
                      ELSE session
  BY DEF Question
<1>3. KeyboardInv'
  BY <1>2, TypedKeysOf DEF ConsoleInv, KeyboardInv
<1>4. StreamInv'
  BY <1>1 DEF ConsoleInv, StreamInv
<1>5. RecordsInv' /\ SessionInv'
  <2>. DEFINE response == Response("name", asking.name, FALSE)
  <2>1. session' \in {session, SessionWith(response)}
    BY <1>2
  <2>. HIDE DEF response
  <2>. QED  BY <1>1, <2>1, RecordedKeeps DEF ConsoleInv, RecordsInv, SessionInv
<1>6. AskingInv'
  <2>1. /\ asking \in Questions /\ asking.name \in DOMAIN files
        /\ asking.use \in {"record", "playback"} => ~ recording /\ ~ replaying
    BY <1>1 DEF ConsoleInv, AskingInv
  <2>2. CASE k.key = "n"
    <3>1. status' = "run"
      BY <1>2, <2>2
    <3>. QED  BY <3>1 DEF AskingInv
  <2>3. CASE k.key # "n"
    <3>. DEFINE q == [asking EXCEPT !.yes = (k.key = "y"), !.again = ~@ /\ k.key # "y"]
    <3>1. q \in Questions /\ q.use = asking.use /\ q.name = asking.name /\ q.yes = (k.key = "y")
      BY <2>1 DEF Questions
    <3>2. asking' = q
      BY <1>2, <2>3
    <3>. HIDE DEF q
    <3>3. CASE k.key = "y"
      <4>1. status' = "named"
        BY <1>2, <3>3
      <4>2. q.yes
        BY <3>1, <3>3
      <4>. QED  BY <1>1, <2>1, <3>1, <3>2, <4>1, <4>2 DEF AskingInv
    <3>4. CASE k.key # "y"
      <4>1. status' = "prompt"
        BY <1>2, <2>3, <3>4
      <4>. QED  BY <1>1, <2>1, <3>1, <3>2, <4>1 DEF AskingInv
    <3>. QED  BY <3>3, <3>4
  <2>. QED  BY <2>2, <2>3
<1>. QED  BY <1>1, <1>3, <1>4, <1>5, <1>6, SameFiles DEF ConsoleInv

LEMMA FinishKeeps ==
  ASSUME ConsoleInv, Finish
  PROVE  ConsoleInv' /\ Kept
<1>. DEFINE name  == asking.name
            g     == NameTaped
            s     == NameAnswered
            taped == TapedLine(asking.name)
            response == Response("name", asking.name, TRUE)
<1>1. /\ status = "named" /\ asking' = None /\ rest' = rest /\ eof' = eof
      /\ NotOpened \/ SaveFails \/ Saved \/ Restored \/ open_record \/ z_input_stream
  BY DEF Finish, keyboard
<1>2. /\ asking \in Questions /\ asking # None
      /\ asking.use \in {"record", "playback"} => ~ recording /\ ~ replaying
      /\ asking.use \in WritingUses /\ name \in DOMAIN files => asking.yes
  BY <1>1, ConsoleAssumption DEF ConsoleInv, AskingInv
<1>3. g = FilesWith(taped) /\ s = SessionWith(response)
  BY DEF NameTaped, NameAnswered
<1>4. StreamInv /\ RecordsInv /\ SessionInv
  BY DEF ConsoleInv
<1>. HIDE DEF g, s, taped, response, name
<1>5. /\ IsFunction(g) /\ DOMAIN g = DOMAIN files
      /\ \A n \in DOMAIN files : g[n] # files[n] => recording /\ n = default["record"]
      /\ IsSession(s) /\ s.file \in {session.file, None}
  BY <1>3, RecordedKeeps
<1>6. KeyboardInv'
  BY <1>1 DEF ConsoleInv, KeyboardInv
<1>7. ASSUME status' \in {"run", "fatal"}  PROVE AskingInv'
  BY <1>7 DEF AskingInv
\* What is left to show of a step that changes no stream.
<1>8. ASSUME UNCHANGED <<stream, playback>>, IsFunction(files'),
             IsSession(session'), session'.file \in {session.file, None},
             IsDefault(default'), default'["record"] = default["record"]
      PROVE  StreamInv' /\ RecordsInv' /\ SessionInv'
  <2>1. recording' = recording /\ replaying' = replaying /\ playback' = playback
    BY <1>8 DEF stream
  <2>2. StreamInv'
    BY <1>4, <2>1 DEF StreamInv
  <2>3. RecordsInv'
    BY <1>8 DEF RecordsInv
  <2>4. SessionInv'
    BY <1>4, <1>8, <2>1 DEF SessionInv
  <2>. QED  BY <2>2, <2>3, <2>4
<1>9. \A x : /\ IsDefault([default EXCEPT !["save"] = x])
             /\ [default EXCEPT !["save"] = x]["record"] = default["record"]
  BY <1>4 DEF RecordsInv, IsDefault
<1>10. \A x : /\ IsDefault([default EXCEPT !["record"] = x])
              /\ [default EXCEPT !["record"] = x]["record"] = x
  BY <1>4 DEF RecordsInv, IsDefault
<1>11. CASE NotOpened
  <2>1. /\ files' = g /\ session' = s /\ status' = "run"
        /\ default' = default /\ UNCHANGED <<stream, playback>>
    BY <1>11 DEF NotOpened, Callers, g, s
  <2>2. StreamInv' /\ RecordsInv' /\ SessionInv'
    BY <1>4, <1>5, <1>8, <2>1 DEF RecordsInv
  <2>3. Kept
    BY <1>5, <2>1 DEF Kept
  <2>. QED  BY <1>6, <1>7, <2>1, <2>2, <2>3 DEF ConsoleInv
<1>12. CASE SaveFails
  <2>1. /\ asking.use = "save"
        /\ files' = Restrict(g, DOMAIN files \ {name})
        /\ session' = Forget(s, name) /\ status' = "run"
        /\ default' = default /\ UNCHANGED <<stream, playback>>
    BY <1>12 DEF SaveFails, Callers, g, s, name
  <2>2. /\ IsFunction(files') /\ DOMAIN files' = DOMAIN files \ {name}
        /\ \A n \in DOMAIN files' : files'[n] = g[n]
    BY <2>1 DEF Restrict, IsFunction
  <2>3. IsSession(session') /\ session'.file \in {session.file, None}
    BY <1>5, <2>1, ForgetKeeps
  <2>4. StreamInv' /\ RecordsInv' /\ SessionInv'
    BY <1>4, <1>8, <2>1, <2>2, <2>3 DEF RecordsInv
  <2>5. Kept
    <3>. SUFFICES ASSUME NEW n \in DOMAIN files, n \notin DOMAIN files' \/ files'[n] # files[n]
                  PROVE  \/ asking # None /\ asking.name = n /\ asking.yes
                         \/ recording /\ n = default["record"]
      BY DEF Kept
    <3>1. CASE n = name
      <4>1. asking.yes
        BY <1>2, <2>1, <3>1 DEF WritingUses
      <4>. QED  BY <1>2, <3>1, <4>1 DEF name
    <3>2. CASE n # name
      BY <1>5, <2>2, <3>2
    <3>. QED  BY <3>1, <3>2
  <2>. QED  BY <1>6, <1>7, <2>1, <2>4, <2>5 DEF ConsoleInv
<1>13. CASE Saved
  <2>1. /\ asking.use = "save"
        /\ files' = Put(name, SavedGame, g)
        /\ session' = Forget(s, name) /\ status' = "run"
        /\ default' = [default EXCEPT !["save"] = name] /\ UNCHANGED <<stream, playback>>
    BY <1>13 DEF Saved, g, s, name
  <2>2. /\ IsFunction(files') /\ DOMAIN files' = {name} \cup DOMAIN files
        /\ \A n \in DOMAIN files : n # name => files'[n] = g[n]
    <3>. DEFINE put == Put(name, SavedGame, g)
    <3>1. /\ IsFunction(put) /\ DOMAIN put = {name} \cup DOMAIN g
          /\ \A n \in DOMAIN g : n # name => put[n] = g[n]
      BY <1>5 DEF Put, IsFunction
    <3>2. files' = put
      BY <2>1
    <3>. HIDE DEF put
    <3>. QED  BY <1>5, <3>1, <3>2
  <2>3. IsSession(session') /\ session'.file \in {session.file, None}
    BY <1>5, <2>1, ForgetKeeps
  <2>4. StreamInv' /\ RecordsInv' /\ SessionInv'
    BY <1>8, <1>9, <2>1, <2>2, <2>3
  <2>5. Kept
    <3>. SUFFICES ASSUME NEW n \in DOMAIN files, n \notin DOMAIN files' \/ files'[n] # files[n]
                  PROVE  \/ asking # None /\ asking.name = n /\ asking.yes
                         \/ recording /\ n = default["record"]
      BY DEF Kept
    <3>1. CASE n = name
      <4>1. asking.yes
        BY <1>2, <2>1, <3>1 DEF WritingUses
      <4>. QED  BY <1>2, <3>1, <4>1 DEF name
    <3>2. CASE n # name
      BY <1>5, <2>2, <3>2
    <3>. QED  BY <3>1, <3>2
  <2>. QED  BY <1>6, <1>7, <2>1, <2>4, <2>5 DEF ConsoleInv
<1>14. CASE Restored
  <2>1. /\ files' = g /\ session' = s /\ status' \in {"run", "fatal"}
        /\ default' = default \/ default' = [default EXCEPT !["save"] = name]
        /\ UNCHANGED <<stream, playback>>
    BY <1>14 DEF Restored, g, s, name
  <2>2. IsDefault(default') /\ default'["record"] = default["record"]
    BY <1>4, <1>9, <2>1 DEF RecordsInv
  <2>3. StreamInv' /\ RecordsInv' /\ SessionInv'
    BY <1>5, <1>8, <2>1, <2>2
  <2>4. Kept
    BY <1>5, <2>1 DEF Kept
  <2>. QED  BY <1>6, <1>7, <2>1, <2>3, <2>4 DEF ConsoleInv
<1>15. CASE open_record
  <2>1. /\ asking.use = "record"
        /\ files' = Put(name, CommandFile, files)
        /\ recording' = TRUE /\ replaying' = replaying /\ playback' = playback
        /\ default' = [default EXCEPT !["record"] = name]
        /\ session' = [file |-> name, responses |-> <<>>]
        /\ status' = "run"
    BY <1>15 DEF open_record, name
  <2>2. ~ recording /\ ~ replaying
    BY <1>2, <2>1
  <2>3. StreamInv'
    BY <1>4, <2>1, <2>2 DEF StreamInv
  <2>4. /\ IsFunction(files') /\ DOMAIN files' = {name} \cup DOMAIN files
        /\ \A n \in DOMAIN files : n # name => files'[n] = files[n]
    <3>. DEFINE put == Put(name, CommandFile, files)
    <3>1. /\ IsFunction(put) /\ DOMAIN put = {name} \cup DOMAIN files
          /\ \A n \in DOMAIN files : n # name => put[n] = files[n]
      BY <1>4 DEF RecordsInv, Put, IsFunction
    <3>2. files' = put
      BY <2>1
    <3>. HIDE DEF put
    <3>. QED  BY <3>1, <3>2
  <2>5. IsSession(session') /\ session'.file = name
    BY <2>1 DEF IsSession
  <2>6. RecordsInv' /\ SessionInv'
    BY <1>10, <2>1, <2>4, <2>5 DEF RecordsInv, SessionInv
  <2>7. Kept
    <3>. SUFFICES ASSUME NEW n \in DOMAIN files, n \notin DOMAIN files' \/ files'[n] # files[n]
                  PROVE  asking # None /\ asking.name = n /\ asking.yes
      BY DEF Kept
    <3>1. n = name
      BY <2>4
    <3>2. asking.yes
      BY <1>2, <2>1, <3>1 DEF WritingUses
    <3>. QED  BY <1>2, <3>1, <3>2 DEF name
  <2>. QED  BY <1>6, <1>7, <2>1, <2>3, <2>6, <2>7 DEF ConsoleInv
<1>16. CASE z_input_stream
  <2>1. /\ asking.use = "playback"
        /\ replaying' = TRUE /\ recording' = recording
        /\ default' = [default EXCEPT !["record"] = name]
        /\ files' = files /\ session' = session /\ status' = "run"
    BY <1>16 DEF z_input_stream, name
  <2>2. recording = FALSE
    BY <1>2, <1>4, <2>1 DEF StreamInv
  <2>3. StreamInv' /\ SessionInv'
    BY <2>1, <2>2 DEF StreamInv, SessionInv
  <2>4. RecordsInv'
    BY <1>4, <1>10, <2>1 DEF RecordsInv
  <2>. QED  BY <1>6, <1>7, <2>1, <2>3, <2>4, SameFiles DEF ConsoleInv
<1>. QED  BY <1>1, <1>11, <1>12, <1>13, <1>14, <1>15, <1>16

LEMMA ConsoleGoesOn ==
  ASSUME ConsoleInv, [ConsoleNext]_consoleVars
  PROVE  ConsoleInv' /\ (Kept \/ UNCHANGED consoleVars)
<1>1. CASE close_record
  <2>1. /\ recording' = FALSE /\ replaying' = FALSE /\ playback' = <<>>
        /\ rest' = rest /\ eof' = eof
        /\ status' = status /\ asking' = asking /\ files' = files
        /\ default' = default /\ session' = session /\ status = "run"
    BY <1>1 DEF close_record, keyboard
  <2>2. StreamInv' /\ SessionInv'
    BY <2>1 DEF StreamInv, SessionInv
  <2>3. KeyboardInv' /\ RecordsInv' /\ AskingInv'
    BY <2>1 DEF ConsoleInv, KeyboardInv, RecordsInv, AskingInv
  <2>. QED  BY <2>1, <2>2, <2>3, SameFiles DEF ConsoleInv
<1>2. CASE Stop
  <2>1. /\ status' = "stopped"
        /\ recording' = recording /\ replaying' = replaying /\ playback' = playback
        /\ rest' = rest /\ eof' = eof /\ files' = files
        /\ default' = default /\ session' = session
    BY <1>2 DEF Stop, keyboard, stream, history
  <2>2. StreamInv' /\ KeyboardInv' /\ RecordsInv' /\ SessionInv'
    BY <2>1 DEF ConsoleInv, StreamInv, KeyboardInv, RecordsInv, SessionInv
  <2>3. AskingInv'
    BY <2>1 DEF AskingInv
  <2>. QED  BY <2>1, <2>2, <2>3, SameFiles DEF ConsoleInv
<1>3. CASE UNCHANGED consoleVars
  <2>1. /\ status' = status /\ asking' = asking
        /\ recording' = recording /\ replaying' = replaying /\ playback' = playback
        /\ rest' = rest /\ eof' = eof /\ files' = files
        /\ default' = default /\ session' = session
    BY <1>3 DEF consoleVars, keyboard, stream, history
  <2>2. ConsoleInv'
    BY <2>1 DEF ConsoleInv, StreamInv, KeyboardInv, RecordsInv, SessionInv, AskingInv
  <2>. QED  BY <1>3, <2>2
<1>. QED  BY <1>1, <1>2, <1>3, ReadLineKeeps, ReadCharKeeps, GetFileNameKeeps, QuestionKeeps,
             FinishKeeps DEF ConsoleNext

-----------------------------------------------------------------------------
(* The theorems *)

\* The invariant of the input streams and of get_file_name holds in every state.
THEOREM ConsoleHolds == ConsoleSpec => []ConsoleInv
<1>1. ConsoleInit => ConsoleInv
  BY ConsoleBegins
<1>2. ConsoleInv /\ [ConsoleNext]_consoleVars => ConsoleInv'
  BY ConsoleGoesOn
<1>. QED  BY <1>1, <1>2, PTL DEF ConsoleSpec

\* Recording and replaying never share their file, and a question is about a file
\* that is there, whatever is typed or played back.
THEOREM ConsoleTypeCorrect == ConsoleSpec => []ConsoleTypeOK
<1>1. ConsoleInv => ConsoleTypeOK
  BY DEF ConsoleInv, StreamInv, KeyboardInv, AskingInv, ConsoleTypeOK
<1>. QED  BY <1>1, ConsoleHolds, PTL

\* No step loses a file or writes over one unless the player agreed to it, but for
\* the file that is recorded: for any number of files and names.
THEOREM FilesAreKept == ConsoleSpec => OldFilesKept
<1>1. ConsoleInv /\ [ConsoleNext]_consoleVars => [Kept]_consoleVars
  BY ConsoleGoesOn
<1>2. [Kept]_consoleVars =>
        [\A n \in DOMAIN files :
           (n \notin DOMAIN files' \/ files'[n] # files[n]) =>
               \/ asking # None /\ asking.name = n /\ asking.yes
               \/ recording /\ n = default["record"]]_consoleVars
  BY DEF Kept
<1>. QED  BY <1>1, <1>2, ConsoleHolds, PTL DEF ConsoleSpec, OldFilesKept
=============================================================================
