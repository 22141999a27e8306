-------------------------- MODULE GameFiles_proofs ---------------------------
(***************************************************************************)
(* Proofs about CMem and GameFiles.  The differences a chunk stands for    *)
(* connect its two ends: the loop of save_quetzal writes a chunk that      *)
(* stands for the memory, and the loop of restore_quetzal makes of any     *)
(* chunk the memory it stands for, or refuses it.                          *)
(***************************************************************************)
EXTENDS GameFiles, TLAPS, Recursion

-----------------------------------------------------------------------------
(* Exclusive or gives back what it was given *)

LEMMA Xor2Laws ==
  ASSUME NEW a \in 0 .. 3, NEW b \in 0 .. 3
  PROVE  /\ Xor2(a, b) \in 0 .. 3
         /\ Xor2(0, b) = b
         /\ Xor2(a, b) = 0 => a = b
         /\ Xor2(Xor2(b, a), b) = a
BY DEF Xor2

LEMMA Xor4Laws ==
  ASSUME NEW a \in 0 .. 15, NEW b \in 0 .. 15
  PROVE  /\ Xor4(a, b) \in 0 .. 15
         /\ Xor4(0, b) = b
         /\ Xor4(a, b) = 0 => a = b
         /\ Xor4(Xor4(b, a), b) = a
<1>1. /\ a % 4 \in 0 .. 3 /\ a \div 4 \in 0 .. 3 /\ a = (a % 4) + 4 * (a \div 4)
      /\ b % 4 \in 0 .. 3 /\ b \div 4 \in 0 .. 3 /\ b = (b % 4) + 4 * (b \div 4)
      /\ 0 % 4 = 0 /\ 0 \div 4 = 0
  OBVIOUS
<1>2. \A x, y \in 0 .. 3 : (x + 4 * y) % 4 = x /\ (x + 4 * y) \div 4 = y
  OBVIOUS
<1>3. PICK u \in 0 .. 3, v \in 0 .. 3 : u = Xor2(a % 4, b % 4) /\ v = Xor2(a \div 4, b \div 4)
  BY <1>1, Xor2Laws
<1>4. PICK x \in 0 .. 3, y \in 0 .. 3 : x = Xor2(b % 4, a % 4) /\ y = Xor2(b \div 4, a \div 4)
  BY <1>1, Xor2Laws
<1>5. /\ Xor4(a, b) = u + 4 * v
      /\ Xor4(b, a) = x + 4 * y
      /\ Xor4(0, b) = b
  BY <1>1, <1>3, <1>4, Xor2Laws DEF Xor4
<1>6. u + 4 * v = 0 => a = b
  <2>. SUFFICES ASSUME u + 4 * v = 0  PROVE a = b
    OBVIOUS
  <2>1. u = 0 /\ v = 0
    OBVIOUS
  <2>2. \A c, d \in 0 .. 3 : Xor2(c, d) = 0 => c = d
    BY Xor2Laws
  <2>3. a % 4 = b % 4 /\ a \div 4 = b \div 4
    BY <1>1, <1>3, <2>1, <2>2
  <2>. QED  BY <1>1, <2>3
<1>7. Xor4(x + 4 * y, b) = a
  <2>1. Xor2(x, b % 4) = a % 4 /\ Xor2(y, b \div 4) = a \div 4
    BY <1>1, <1>4, Xor2Laws
  <2>. DEFINE z == x + 4 * y
  <2>2. z % 4 = x /\ z \div 4 = y
    BY <1>2
  <2>. HIDE DEF z
  <2>3. Xor4(z, b) = a
    BY <1>1, <2>1, <2>2 DEF Xor4
  <2>. QED  BY <2>3 DEF z
<1>. QED  BY <1>5, <1>6, <1>7

LEMMA XorLaws ==
  ASSUME NEW a \in Byte, NEW b \in Byte
  PROVE  /\ Xor(a, b) \in Byte
         /\ Xor(0, b) = b
         /\ Xor(a, b) = 0 => a = b
         /\ Xor(Xor(b, a), b) = a
<1>1. /\ a % 16 \in 0 .. 15 /\ a \div 16 \in 0 .. 15 /\ a = (a % 16) + 16 * (a \div 16)
      /\ b % 16 \in 0 .. 15 /\ b \div 16 \in 0 .. 15 /\ b = (b % 16) + 16 * (b \div 16)
      /\ 0 % 16 = 0 /\ 0 \div 16 = 0
  BY DEF Byte
<1>2. \A x, y \in 0 .. 15 : (x + 16 * y) % 16 = x /\ (x + 16 * y) \div 16 = y
  OBVIOUS
<1>3. PICK u \in 0 .. 15, v \in 0 .. 15 :
        u = Xor4(a % 16, b % 16) /\ v = Xor4(a \div 16, b \div 16)
  BY <1>1, Xor4Laws
<1>4. PICK x \in 0 .. 15, y \in 0 .. 15 :
        x = Xor4(b % 16, a % 16) /\ y = Xor4(b \div 16, a \div 16)
  BY <1>1, Xor4Laws
<1>5. /\ Xor(a, b) = u + 16 * v
      /\ Xor(b, a) = x + 16 * y
      /\ Xor(0, b) = b
  BY <1>1, <1>3, <1>4, Xor4Laws DEF Xor
<1>6. u + 16 * v = 0 => a = b
  <2>. SUFFICES ASSUME u + 16 * v = 0  PROVE a = b
    OBVIOUS
  <2>1. u = 0 /\ v = 0
    OBVIOUS
  <2>2. \A c, d \in 0 .. 15 : Xor4(c, d) = 0 => c = d
    BY Xor4Laws
  <2>3. a % 16 = b % 16 /\ a \div 16 = b \div 16
    BY <1>1, <1>3, <2>1, <2>2
  <2>. QED  BY <1>1, <2>3
<1>7. Xor(x + 16 * y, b) = a
  <2>1. Xor4(x, b % 16) = a % 16 /\ Xor4(y, b \div 16) = a \div 16
    BY <1>1, <1>4, Xor4Laws
  <2>. DEFINE z == x + 16 * y
  <2>2. z % 16 = x /\ z \div 16 = y
    BY <1>2
  <2>. HIDE DEF z
  <2>3. Xor(z, b) = a
    BY <1>1, <2>1, <2>2 DEF Xor
  <2>. QED  BY <2>3 DEF z
<1>8. u + 16 * v \in Byte
  BY DEF Byte
<1>. QED  BY <1>5, <1>6, <1>7, <1>8
-----------------------------------------------------------------------------
(* The recursive functions of CMem *)

Zeros(n) == [i \in 1 .. n |-> 0]

LEMMA ZerosParts ==
  ASSUME NEW n \in Nat
  PROVE  /\ Zeros(n) \in Seq(Byte)
         /\ Len(Zeros(n)) = n
         /\ \A i \in 1 .. n : Zeros(n)[i] = 0
BY DEF Zeros, Byte

LEMMA ByteSeq ==
  ASSUME NEW s \in Seq(Byte)
  PROVE  Len(s) \in Nat /\ \A i \in 1 .. Len(s) : s[i] \in Byte /\ s[i] \in 0 .. 255
<1>1. Len(s) \in Nat /\ \A i \in 1 .. Len(s) : s[i] \in Byte
  OBVIOUS
<1>. QED  BY <1>1 DEF Byte

LEMMA ByteConcat ==
  ASSUME NEW s \in Seq(Byte), NEW t \in Seq(Byte)
  PROVE  /\ s \o t \in Seq(Byte)
         /\ Len(s \o t) = Len(s) + Len(t)
         /\ \A i \in 1 .. Len(s) : (s \o t)[i] = s[i]
         /\ \A i \in 1 .. Len(t) : (s \o t)[Len(s) + i] = t[i]
OBVIOUS

LEMMA ByteSingle ==
  ASSUME NEW b \in Byte
  PROVE  /\ <<b>> \in Seq(Byte)
         /\ Len(<<b>>) = 1
         /\ <<b>>[1] = b
OBVIOUS

IsDifferences(from, chunk) ==
    from = [p \in 1 .. Len(chunk) + 2 |->
              IF p > Len(chunk) THEN <<>>
              ELSE IF chunk[p] # 0 THEN <<chunk[p]>> \o from[p + 1]
              ELSE IF p = Len(chunk) THEN <<0>>
              ELSE [i \in 1 .. chunk[p + 1] + 1 |-> 0] \o from[p + 2]]

\* What a chunk stands for from a place on.
DiffFrom(chunk) == CHOOSE from : IsDifferences(from, chunk)

LEMMA DifferencesExist ==
  ASSUME NEW chunk \in Seq(Byte)
  PROVE  IsDifferences(DiffFrom(chunk), chunk)
<1>. DEFINE D == 1 .. Len(chunk) + 2
            V == Seq(Byte)
            rank == [p \in D |-> Len(chunk) + 2 - p]
            body(f, p) == IF p > Len(chunk) THEN <<>>
                          ELSE IF chunk[p] # 0 THEN <<chunk[p]>> \o f[p + 1]
                          ELSE IF p = Len(chunk) THEN <<0>>
                          ELSE [i \in 1 .. chunk[p + 1] + 1 |-> 0] \o f[p + 2]
            step == [p \in D |-> [f \in [D -> V] |-> body(f, p)]]
            bound == Len(chunk) + 3
<1>1. Len(chunk) \in Nat /\ \A p \in 1 .. Len(chunk) : chunk[p] \in Byte /\ chunk[p] \in 0 .. 255
  BY ByteSeq
<1>2. rank \in [D -> Nat] /\ bound \in Nat /\ \A x \in D : rank[x] < bound
  BY <1>1
<1>3. V # {}
  BY <1>1
<1>4. ASSUME NEW p \in D, NEW f \in [D -> V]
      PROVE  body(f, p) \in V
  <2>1. CASE p > Len(chunk)
    BY <2>1
  <2>2. CASE p \in 1 .. Len(chunk) /\ chunk[p] # 0
    <3>1. p + 1 \in D /\ ~ (p > Len(chunk))
      BY <1>1, <2>2
    <3>2. <<chunk[p]>> \o f[p + 1] \in V
      BY <1>1, <2>2, <3>1, ByteConcat, ByteSingle
    <3>. QED  BY <2>2, <3>1, <3>2
  <2>3. CASE p = Len(chunk) /\ chunk[p] = 0
    <3>1. 0 \in Byte
      BY DEF Byte
    <3>2. ~ (p > Len(chunk)) /\ <<0>> \in V
      BY <1>1, <2>3, <3>1
    <3>. QED  BY <2>3, <3>2
  <2>4. CASE p \in 1 .. Len(chunk) - 1 /\ chunk[p] = 0
    <3>1. p + 1 \in 1 .. Len(chunk) /\ p + 2 \in D /\ ~ (p > Len(chunk)) /\ p # Len(chunk)
      BY <1>1, <2>4
    <3>2. chunk[p + 1] + 1 \in Nat
      <4>1. \A q \in 1 .. Len(chunk) : chunk[q] \in 0 .. 255
        BY <1>1
      <4>2. PICK c \in 0 .. 255 : c = chunk[p + 1]
        BY <3>1, <4>1
      <4>3. c + 1 \in Nat
        OBVIOUS
      <4>. QED  BY <4>2, <4>3
    <3>3. Zeros(chunk[p + 1] + 1) \o f[p + 2] \in V
      BY <3>1, <3>2, ZerosParts, ByteConcat
    <3>. QED  BY <2>4, <3>1, <3>3 DEF Zeros
  <2>. QED  BY <1>1, <2>1, <2>2, <2>3, <2>4
<1>5. ASSUME NEW p \in D, NEW f \in [D -> V], NEW g \in [D -> V],
             \A q \in D : rank[q] < rank[p] => f[q] = g[q]
      PROVE  body(f, p) = body(g, p)
  <2>1. p > Len(chunk) \/ p \in 1 .. Len(chunk)
    BY <1>1
  <2>2. CASE p > Len(chunk)
    BY <2>2
  <2>3. CASE p \in 1 .. Len(chunk)
    <3>1. p + 1 \in D /\ p + 2 \in D
      BY <1>1, <2>3
    <3>2. rank[p + 1] < rank[p] /\ rank[p + 2] < rank[p]
      BY <1>1, <2>3, <3>1
    <3>3. f[p + 1] = g[p + 1] /\ f[p + 2] = g[p + 2]
      BY <1>5, <3>1, <3>2
    <3>. QED  BY <3>3
  <2>. QED  BY <2>1, <2>2, <2>3
<1>6. \A p \in D : \A f \in [D -> V] : step[p][f] = body(f, p)
  OBVIOUS
<1>. HIDE DEF body
<1>7. step \in [D -> [[D -> V] -> V]]
  BY <1>4
<1>. HIDE DEF step, rank, bound, V
<1>8. \E f \in [D -> V] : \A x \in D : f[x] = step[x][f]
  <2>1. \A x \in D : \A f, g \in [D -> V] :
          (\A y \in D : rank[y] < rank[x] => f[y] = g[y]) => step[x][f] = step[x][g]
    BY <1>5, <1>6
  <2>2. Descends(D, V, rank, bound, step)
    BY <1>2, <1>3, <1>7, <2>1 DEF Descends
  <2>. QED  BY <2>2, RecursiveFunction
<1>9. PICK f \in [D -> V] : \A x \in D : f[x] = body(f, x)
  BY <1>6, <1>8
<1>10. f = [p \in D |-> body(f, p)]
  BY <1>9
<1>11. IsDifferences(f, chunk)
  BY <1>10 DEF IsDifferences, body, D
<1>. QED  BY <1>11 DEF DiffFrom

LEMMA DifferencesFrom ==
  ASSUME NEW chunk \in Seq(Byte)
  PROVE  /\ Differences(chunk) = DiffFrom(chunk)[1]
         /\ \A p \in 1 .. Len(chunk) + 2 :
              /\ DiffFrom(chunk)[p] \in Seq(Byte)
              /\ p > Len(chunk) => DiffFrom(chunk)[p] = <<>>
              /\ p <= Len(chunk) /\ chunk[p] # 0 =>
                   DiffFrom(chunk)[p] = <<chunk[p]>> \o DiffFrom(chunk)[p + 1]
              /\ p = Len(chunk) /\ chunk[p] = 0 => DiffFrom(chunk)[p] = <<0>>
              /\ p < Len(chunk) /\ chunk[p] = 0 =>
                   DiffFrom(chunk)[p] = Zeros(chunk[p + 1] + 1) \o DiffFrom(chunk)[p + 2]
<1>. DEFINE n == Len(chunk)
            D == 1 .. n + 2
            F == DiffFrom(chunk)
<1>1. n \in Nat /\ \A p \in 1 .. n : chunk[p] \in Byte /\ chunk[p] \in 0 .. 255
  BY ByteSeq
<1>2. Differences(chunk) = F[1]
  BY DEF Differences, DiffFrom, IsDifferences
<1>3. \A p \in D : F[p] = IF p > n THEN <<>>
                          ELSE IF chunk[p] # 0 THEN <<chunk[p]>> \o F[p + 1]
                          ELSE IF p = n THEN <<0>>
                          ELSE [i \in 1 .. chunk[p + 1] + 1 |-> 0] \o F[p + 2]
  <2>. DEFINE body(f, p) == IF p > n THEN <<>>
                            ELSE IF chunk[p] # 0 THEN <<chunk[p]>> \o f[p + 1]
                            ELSE IF p = n THEN <<0>>
                            ELSE [i \in 1 .. chunk[p + 1] + 1 |-> 0] \o f[p + 2]
  <2>1. F = [p \in D |-> body(F, p)]
    BY DifferencesExist DEF IsDifferences
  <2>. HIDE DEF F, body, n
  <2>2. \A p \in D : F[p] = body(F, p)
    BY <2>1
  <2>. QED  BY <2>2 DEF body
<1>. HIDE DEF F, n
<1>4. \A p \in D : /\ p > n => F[p] = <<>>
                   /\ p <= n /\ chunk[p] # 0 => F[p] = <<chunk[p]>> \o F[p + 1]
                   /\ p = n /\ chunk[p] = 0 => F[p] = <<0>>
                   /\ p < n /\ chunk[p] = 0 => F[p] = Zeros(chunk[p + 1] + 1) \o F[p + 2]
  <2>. SUFFICES ASSUME NEW p \in D
                PROVE  /\ p > n => F[p] = <<>>
                       /\ p <= n /\ chunk[p] # 0 => F[p] = <<chunk[p]>> \o F[p + 1]
                       /\ p = n /\ chunk[p] = 0 => F[p] = <<0>>
                       /\ p < n /\ chunk[p] = 0 =>
                            F[p] = [i \in 1 .. chunk[p + 1] + 1 |-> 0] \o F[p + 2]
    BY DEF Zeros
  <2>1. /\ p <= n => ~ (p > n)
        /\ p = n => ~ (p > n)
        /\ p < n => ~ (p > n) /\ p # n
    BY <1>1
  <2>. HIDE DEF D
  <2>. QED  BY <1>3, <2>1, Zenon
<1>. DEFINE S == {m \in Nat : \A p \in D : n + 2 - p = m => F[p] \in Seq(Byte)}
<1>5. ASSUME NEW m \in Nat, 0 .. m - 1 \subseteq S  PROVE m \in S
  <2>. SUFFICES ASSUME NEW p \in D, n + 2 - p = m
                PROVE  F[p] \in Seq(Byte)
    OBVIOUS
  <2>. DEFINE q == p + 1
              r == p + 2
  <2>1. p <= n => q \in D /\ n + 2 - q \in 0 .. m - 1
    BY <1>1
  <2>2. p < n => r \in D /\ n + 2 - r \in 0 .. m - 1 /\ q \in 1 .. n
    BY <1>1
  <2>. HIDE DEF q, r
  <2>3. p <= n => F[q] \in Seq(Byte)
    BY <1>5, <2>1
  <2>4. p < n => F[r] \in Seq(Byte)
    BY <1>5, <2>2
  <2>5. CASE p > n
    <3>1. F[p] = <<>>
      BY <1>4, <2>5, Zenon
    <3>2. <<>> \in Seq(Byte)
      OBVIOUS
    <3>. QED  BY <3>1, <3>2
  <2>6. CASE p <= n /\ chunk[p] # 0
    <3>1. chunk[p] \in Byte
      BY <1>1, <2>6
    <3>2. F[p] = <<chunk[p]>> \o F[q]
      BY <1>4, <2>6 DEF q
    <3>. QED  BY <2>3, <2>6, <3>1, <3>2, ByteConcat, ByteSingle
  <2>7. CASE p = n /\ chunk[p] = 0
    <3>1. 0 \in Byte
      BY DEF Byte
    <3>. QED  BY <1>4, <2>7, <3>1, ByteSingle
  <2>8. CASE p < n /\ chunk[p] = 0
    <3>1. PICK c \in 0 .. 255 : c = chunk[q]
      BY <1>1, <2>2, <2>8
    <3>2. c + 1 \in Nat
      OBVIOUS
    <3>3. F[p] = Zeros(c + 1) \o F[r]
      BY <1>4, <2>8, <3>1 DEF q, r
    <3>. QED  BY <2>4, <2>8, <3>2, <3>3, ZerosParts, ByteConcat
  <2>. QED  BY <1>1, <2>5, <2>6, <2>7, <2>8
<1>6. Nat \subseteq S
  <2>. HIDE DEF S
  <2>. QED  BY <1>5, Ladder
<1>7. \A p \in D : F[p] \in Seq(Byte)
  <2>. SUFFICES ASSUME NEW p \in D  PROVE F[p] \in Seq(Byte)
    OBVIOUS
  <2>1. n + 2 - p \in Nat
    BY <1>1
  <2>. QED  BY <1>6, <2>1
<1>. QED  BY <1>2, <1>4, <1>7 DEF F, n

IsEnd(end, chunk) ==
    end = [p \in 1 .. Len(chunk) + 2 |->
             IF p > Len(chunk) THEN p ELSE end[IF chunk[p] # 0 THEN p + 1 ELSE p + 2]]

\* Where the last run or byte ends, from a place on.
EndFrom(chunk) == CHOOSE end : IsEnd(end, chunk)

LEMMA EndExists ==
  ASSUME NEW chunk \in Seq(Byte)
  PROVE  IsEnd(EndFrom(chunk), chunk)
<1>. DEFINE D == 1 .. Len(chunk) + 2
            rank == [p \in D |-> Len(chunk) + 2 - p]
            body(f, p) == IF p > Len(chunk) THEN p
                          ELSE f[IF chunk[p] # 0 THEN p + 1 ELSE p + 2]
            step == [p \in D |-> [f \in [D -> D] |-> body(f, p)]]
            bound == Len(chunk) + 3
<1>1. Len(chunk) \in Nat
  BY ByteSeq
<1>2. /\ rank \in [D -> Nat] /\ bound \in Nat /\ (\A x \in D : rank[x] < bound)
      /\ D # {}
  <2>1. 1 \in D
    BY <1>1
  <2>. QED  BY <1>1, <2>1
<1>3. \A p \in D : ~ (p > Len(chunk)) =>
        /\ p + 1 \in D /\ p + 2 \in D
        /\ rank[p + 1] < rank[p] /\ rank[p + 2] < rank[p]
  BY <1>1
<1>. HIDE DEF rank, bound
<1>4. \A p \in D : \A f \in [D -> D] : body(f, p) \in D
  BY <1>3
<1>5. \A p \in D : \A f, g \in [D -> D] :
        (\A q \in D : rank[q] < rank[p] => f[q] = g[q]) => body(f, p) = body(g, p)
  BY <1>3
<1>6. \A p \in D : \A f \in [D -> D] : step[p][f] = body(f, p)
  OBVIOUS
<1>. HIDE DEF body
<1>7. step \in [D -> [[D -> D] -> D]]
  BY <1>4
<1>. HIDE DEF step
<1>8. Descends(D, D, rank, bound, step)
  <2>. HIDE DEF D
  <2>1. \A x \in D : \A f, g \in [D -> D] :
          (\A y \in D : rank[y] < rank[x] => f[y] = g[y]) => step[x][f] = step[x][g]
    BY <1>5, <1>6
  <2>. QED  BY <1>2, <1>7, <2>1 DEF Descends
<1>9. PICK f \in [D -> D] : \A x \in D : f[x] = body(f, x)
  <2>. HIDE DEF D
  <2>. QED  BY <1>6, <1>8, RecursiveFunction
<1>10. f = [p \in D |-> body(f, p)]
  BY <1>9
<1>11. IsEnd(f, chunk)
  BY <1>10 DEF IsEnd, body
<1>. QED  BY <1>11 DEF EndFrom

LEMMA EndFromSteps ==
  ASSUME NEW chunk \in Seq(Byte)
  PROVE  /\ CutShort(chunk) = (EndFrom(chunk)[1] > Len(chunk) + 1)
         /\ \A p \in 1 .. Len(chunk) + 2 :
              /\ EndFrom(chunk)[p] \in Len(chunk) + 1 .. Len(chunk) + 2
              /\ p > Len(chunk) => EndFrom(chunk)[p] = p
              /\ p <= Len(chunk) /\ chunk[p] # 0 => EndFrom(chunk)[p] = EndFrom(chunk)[p + 1]
              /\ p <= Len(chunk) /\ chunk[p] = 0 => EndFrom(chunk)[p] = EndFrom(chunk)[p + 2]
<1>. DEFINE n == Len(chunk)
            D == 1 .. n + 2
            E == EndFrom(chunk)
            body(f, p) == IF p > n THEN p ELSE f[IF chunk[p] # 0 THEN p + 1 ELSE p + 2]
<1>1. CutShort(chunk) = (E[1] > n + 1)
  BY DEF CutShort, EndFrom, IsEnd
<1>2. E = [p \in D |-> body(E, p)]
  BY EndExists DEF IsEnd
<1>3. n \in Nat
  BY ByteSeq
<1>. HIDE DEF E, body, n
<1>4. \A p \in D : E[p] = body(E, p)
  BY <1>2
<1>. USE DEF body
<1>. DEFINE R == n + 1 .. n + 2
            S == {m \in Nat : \A p \in D : n + 2 - p = m => E[p] \in R}
<1>5. ASSUME NEW m \in Nat, 0 .. m - 1 \subseteq S  PROVE m \in S
  <2>. SUFFICES ASSUME NEW p \in D, n + 2 - p = m  PROVE E[p] \in R
    OBVIOUS
  <2>1. CASE p > n
    BY <1>3, <1>4, <2>1
  <2>2. CASE p <= n
    <3>. DEFINE q == IF chunk[p] # 0 THEN p + 1 ELSE p + 2
    <3>1. q \in D /\ n + 2 - q \in 0 .. m - 1
      BY <1>3, <2>2
    <3>2. E[p] = E[q]
      BY <1>3, <1>4, <2>2
    <3>. HIDE DEF q
    <3>3. E[q] \in R
      BY <1>5, <3>1
    <3>. QED  BY <3>2, <3>3
  <2>. QED  BY <1>3, <2>1, <2>2
<1>6. Nat \subseteq S
  <2>. HIDE DEF S
  <2>. QED  BY <1>5, Ladder
<1>7. \A p \in D : E[p] \in R
  <2>. SUFFICES ASSUME NEW p \in D  PROVE E[p] \in R
    OBVIOUS
  <2>1. n + 2 - p \in Nat
    BY <1>3
  <2>. QED  BY <1>6, <2>1
<1>. QED  BY <1>1, <1>3, <1>4, <1>7 DEF E, n
-----------------------------------------------------------------------------
(* Chunks that follow one another *)

LEMMA ByteAssoc ==
  ASSUME NEW r \in Seq(Byte), NEW s \in Seq(Byte), NEW t \in Seq(Byte)
  PROVE  r \o (s \o t) = (r \o s) \o t
OBVIOUS

\* Behind a chunk, another one stands for what it does alone.
LEMMA SecondMeans ==
  ASSUME NEW a \in Seq(Byte), NEW b \in Seq(Byte)
  PROVE  /\ DiffFrom(a \o b)[Len(a) + 1] = Differences(b)
         /\ EndFrom(a \o b)[Len(a) + 1] = Len(a) + EndFrom(b)[1]
<1>. DEFINE c == a \o b
            na == Len(a)
            nb == Len(b)
            F == DiffFrom(c)
            E == EndFrom(c)
            Fb == DiffFrom(b)
            Eb == EndFrom(b)
<1>1. /\ c \in Seq(Byte) /\ na \in Nat /\ nb \in Nat /\ Len(c) = na + nb
      /\ \A i \in 1 .. nb : c[na + i] = b[i] /\ b[i] \in Byte
  BY ByteConcat, ByteSeq
<1>. HIDE DEF c
<1>2. \A p \in 1 .. na + nb + 2 :
        /\ p > na + nb => F[p] = <<>> /\ E[p] = p
        /\ p <= na + nb /\ c[p] # 0 => F[p] = <<c[p]>> \o F[p + 1] /\ E[p] = E[p + 1]
        /\ p < na + nb /\ c[p] = 0 => F[p] = Zeros(c[p + 1] + 1) \o F[p + 2]
        /\ p <= na + nb /\ c[p] = 0 => E[p] = E[p + 2]
        /\ p = na + nb /\ c[p] = 0 => F[p] = <<0>>
  <2>1. \A p \in 1 .. Len(c) + 2 :
          /\ p > Len(c) => F[p] = <<>> /\ E[p] = p
          /\ p <= Len(c) /\ c[p] # 0 => F[p] = <<c[p]>> \o F[p + 1] /\ E[p] = E[p + 1]
          /\ p < Len(c) /\ c[p] = 0 => F[p] = Zeros(c[p + 1] + 1) \o F[p + 2]
          /\ p <= Len(c) /\ c[p] = 0 => E[p] = E[p + 2]
          /\ p = Len(c) /\ c[p] = 0 => F[p] = <<0>>
    BY <1>1, DifferencesFrom, EndFromSteps
  <2>. HIDE DEF F, E, na, nb
  <2>. QED  BY <1>1, <2>1
<1>3. \A p \in 1 .. nb + 2 :
        /\ p > nb => Fb[p] = <<>> /\ Eb[p] = p
        /\ p <= nb /\ b[p] # 0 => Fb[p] = <<b[p]>> \o Fb[p + 1] /\ Eb[p] = Eb[p + 1]
        /\ p < nb /\ b[p] = 0 => Fb[p] = Zeros(b[p + 1] + 1) \o Fb[p + 2]
        /\ p <= nb /\ b[p] = 0 => Eb[p] = Eb[p + 2]
        /\ p = nb /\ b[p] = 0 => Fb[p] = <<0>>
  BY <1>1, DifferencesFrom, EndFromSteps
<1>. HIDE DEF F, E, Fb, Eb, na, nb
<1>. DEFINE Agree(p) == F[na + p] = Fb[p] /\ E[na + p] = na + Eb[p]
            S == {m \in Nat : \A p \in 1 .. nb + 2 : nb + 2 - p = m => Agree(p)}
<1>4. ASSUME NEW m \in Nat, 0 .. m - 1 \subseteq S  PROVE m \in S
  <2>. SUFFICES ASSUME NEW p \in 1 .. nb + 2, nb + 2 - p = m  PROVE Agree(p)
    OBVIOUS
  <2>. DEFINE u == na + p
              q == p + 1
              r == p + 2
  <2>1. /\ u \in 1 .. na + nb + 2
        /\ (p > nb) = (u > na + nb)
        /\ (p <= nb) = (u <= na + nb)
        /\ (p < nb) = (u < na + nb)
        /\ (p = nb) = (u = na + nb)
        /\ u + 1 = na + q /\ u + 2 = na + r
    BY <1>1
  <2>2. p <= nb => q \in 1 .. nb + 2 /\ (nb + 2 - q \in 0 .. m - 1) /\ c[u] = b[p]
    <3>1. p <= nb => q \in 1 .. nb + 2 /\ (nb + 2 - q \in 0 .. m - 1) /\ p \in 1 .. nb
      BY <1>1
    <3>2. p \in 1 .. nb => c[u] = b[p]
      BY <1>1
    <3>. QED  BY <3>1, <3>2
  <2>3. p <= nb => r \in 1 .. nb + 2 /\ (nb + 2 - r \in 0 .. m - 1)
    BY <1>1
  <2>4. p < nb => q \in 1 .. nb /\ c[na + q] = b[q]
    BY <1>1
  <2>. HIDE DEF q, r, u, Agree
  <2>5. p <= nb => Agree(q) /\ Agree(r)
    BY <1>4, <2>2, <2>3
  <2>. USE DEF Agree
  <2>6. CASE p > nb
    <3>1. F[u] = <<>> /\ E[u] = u /\ Fb[p] = <<>> /\ Eb[p] = p
      BY <1>2, <1>3, <2>1, <2>6
    <3>. QED  BY <3>1 DEF u
  <2>7. CASE p <= nb /\ b[p] # 0
    <3>1. /\ F[u] = <<b[p]>> \o F[na + q] /\ E[u] = E[na + q]
          /\ Fb[p] = <<b[p]>> \o Fb[q] /\ Eb[p] = Eb[q]
      BY <1>2, <1>3, <2>1, <2>2, <2>7 DEF q
    <3>. QED  BY <2>5, <2>7, <3>1 DEF u
  <2>8. CASE p <= nb /\ b[p] = 0
    <3>1. E[u] = E[na + r] /\ Eb[p] = Eb[r]
      BY <1>2, <1>3, <2>1, <2>2, <2>8 DEF r
    <3>2. p = nb => F[u] = <<0>> /\ Fb[p] = <<0>>
      BY <1>2, <1>3, <2>1, <2>2, <2>8
    <3>3. ASSUME p < nb
          PROVE  /\ F[u] = Zeros(b[q] + 1) \o F[na + r]
                 /\ Fb[p] = Zeros(b[q] + 1) \o Fb[r]
      <4>1. F[u] = Zeros(c[u + 1] + 1) \o F[u + 2]
        BY <1>2, <2>1, <2>2, <2>8, <3>3
      <4>2. Fb[p] = Zeros(b[p + 1] + 1) \o Fb[p + 2]
        BY <1>3, <2>8, <3>3
      <4>3. c[u + 1] = b[q]
        BY <2>1, <2>4, <3>3
      <4>. QED  BY <2>1, <4>1, <4>2, <4>3 DEF q, r
    <3>4. p = nb \/ p < nb
      BY <1>1, <2>8
    <3>. QED  BY <2>5, <2>8, <3>1, <3>2, <3>3, <3>4 DEF u
  <2>. QED  BY <1>1, <2>6, <2>7, <2>8
<1>5. nb + 1 \in S
  <2>. HIDE DEF S
  <2>. QED  BY <1>1, <1>4, Ladder
<1>6. Agree(1)
  BY <1>1, <1>5
<1>. QED  BY <1>6, DifferencesFrom DEF F, E, Fb, Eb, na, nb, c

\* Two chunks stand for what each of them does, unless the first is cut.
LEMMA ConcatMeans ==
  ASSUME NEW a \in Seq(Byte), NEW b \in Seq(Byte), ~ CutShort(a)
  PROVE  /\ Differences(a \o b) = Differences(a) \o Differences(b)
         /\ CutShort(a \o b) = CutShort(b)
<1>. DEFINE c == a \o b
            na == Len(a)
            nb == Len(b)
            F == DiffFrom(c)
            E == EndFrom(c)
            Fa == DiffFrom(a)
            Ea == EndFrom(a)
            d == Differences(b)
            e == EndFrom(b)[1]
<1>1. /\ c \in Seq(Byte) /\ na \in Nat /\ nb \in Nat /\ Len(c) = na + nb
      /\ \A i \in 1 .. na : c[i] = a[i] /\ a[i] \in Byte /\ a[i] \in 0 .. 255
  BY ByteConcat, ByteSeq
<1>2. /\ F[na + 1] = d /\ E[na + 1] = na + e
      /\ d \in Seq(Byte) /\ e \in nb + 1 .. nb + 2
  <2>1. 1 \in 1 .. Len(b) + 2
    BY <1>1
  <2>2. d \in Seq(Byte) /\ e \in nb + 1 .. nb + 2
    BY <2>1, DifferencesFrom, EndFromSteps
  <2>. QED  BY <2>2, SecondMeans
<1>. HIDE DEF c
<1>3. \A p \in 1 .. na :
        /\ c[p] # 0 => F[p] = <<c[p]>> \o F[p + 1] /\ E[p] = E[p + 1]
        /\ p < na /\ c[p] = 0 => F[p] = Zeros(c[p + 1] + 1) \o F[p + 2]
        /\ c[p] = 0 => E[p] = E[p + 2]
  <2>1. \A p \in 1 .. Len(c) :
          /\ c[p] # 0 => F[p] = <<c[p]>> \o F[p + 1] /\ E[p] = E[p + 1]
          /\ p < Len(c) /\ c[p] = 0 => F[p] = Zeros(c[p + 1] + 1) \o F[p + 2]
          /\ c[p] = 0 => E[p] = E[p + 2]
    <3>1. \A p \in 1 .. Len(c) : p \in 1 .. Len(c) + 2 /\ p <= Len(c)
      BY <1>1
    <3>. QED  BY <1>1, <3>1, DifferencesFrom, EndFromSteps
  <2>. HIDE DEF F, E, na, nb
  <2>2. \A p \in 1 .. na : p \in 1 .. Len(c) /\ (p < na => p < Len(c))
    BY <1>1
  <2>. QED  BY <2>1, <2>2
<1>4. \A p \in 1 .. na + 2 :
        /\ Fa[p] \in Seq(Byte)
        /\ p > na => Fa[p] = <<>> /\ Ea[p] = p
        /\ p <= na /\ a[p] # 0 => Fa[p] = <<a[p]>> \o Fa[p + 1] /\ Ea[p] = Ea[p + 1]
        /\ p < na /\ a[p] = 0 => Fa[p] = Zeros(a[p + 1] + 1) \o Fa[p + 2]
        /\ p <= na /\ a[p] = 0 => Ea[p] = Ea[p + 2]
  BY <1>1, DifferencesFrom, EndFromSteps
<1>5. Ea[1] = na + 1
  <2>1. Ea[1] \in na + 1 .. na + 2 /\ ~ (Ea[1] > na + 1)
    <3>1. 1 \in 1 .. Len(a) + 2
      BY <1>1
    <3>. QED  BY <3>1, EndFromSteps
  <2>. HIDE DEF Ea, na
  <2>. QED  BY <1>1, <2>1
<1>. HIDE DEF F, E, Fa, Ea, na, nb, d, e
<1>. DEFINE Agree(p) == Ea[p] = na + 1 => F[p] = Fa[p] \o d /\ E[p] = na + e
            S == {m \in Nat : \A p \in 1 .. na + 1 : na + 1 - p = m => Agree(p)}
<1>6. ASSUME NEW m \in Nat, 0 .. m - 1 \subseteq S  PROVE m \in S
  <2>. SUFFICES ASSUME NEW p \in 1 .. na + 1, na + 1 - p = m, Ea[p] = na + 1
                PROVE  F[p] = Fa[p] \o d /\ E[p] = na + e
    OBVIOUS
  <2>. DEFINE q == p + 1
              r == p + 2
  <2>1. p \in 1 .. na + 2 /\ (p = na + 1 \/ p \in 1 .. na)
    BY <1>1
  <2>2. p <= na => q \in 1 .. na + 1 /\ (na + 1 - q \in 0 .. m - 1)
    BY <1>1
  <2>3. p < na => r \in 1 .. na + 1 /\ (na + 1 - r \in 0 .. m - 1) /\ q \in 1 .. na
    BY <1>1
  <2>4. p \in 1 .. na => p <= na /\ (p = na \/ p < na) /\ c[p] = a[p] /\ q \in 1 .. na + 2
    BY <1>1
  <2>5. p < na => r \in 1 .. na + 2
    BY <1>1
  <2>6. CASE p = na + 1
    <3>1. p > na
      BY <1>1, <2>6
    <3>2. Fa[p] = <<>>
      BY <1>4, <2>1, <3>1, Zenon
    <3>. QED  BY <1>2, <2>6, <3>2
  <2>7. CASE p \in 1 .. na /\ a[p] # 0
    <3>1. /\ F[p] = <<a[p]>> \o F[q] /\ E[p] = E[q]
          /\ Fa[p] = <<a[p]>> \o Fa[q] /\ Ea[p] = Ea[q]
      BY <1>3, <1>4, <2>1, <2>4, <2>7
    <3>. HIDE DEF q, Agree
    <3>2. Agree(q)
      BY <1>6, <2>2, <2>4, <2>7
    <3>3. F[q] = Fa[q] \o d /\ E[q] = na + e
      BY <3>1, <3>2 DEF Agree
    <3>4. a[p] \in Byte /\ Fa[q] \in Seq(Byte)
      BY <1>1, <1>4, <2>4, <2>7
    <3>5. <<a[p]>> \in Seq(Byte)
      BY <3>4
    <3>6. <<a[p]>> \o (Fa[q] \o d) = (<<a[p]>> \o Fa[q]) \o d
      BY <1>2, <3>4, <3>5, ByteAssoc
    <3>. QED  BY <3>1, <3>3, <3>6
  <2>8. CASE p \in 1 .. na /\ a[p] = 0 /\ p = na
    <3>1. Ea[p] = Ea[r]
      BY <1>4, <2>1, <2>4, <2>8, Zenon
    <3>2. r = na + 2 /\ r \in 1 .. na + 2 /\ r > na
      BY <1>1, <2>8
    <3>. HIDE DEF r
    <3>3. Ea[r] = r
      BY <1>4, <3>2, Zenon
    <3>. QED  BY <1>1, <3>1, <3>2, <3>3
  <2>9. CASE p \in 1 .. na /\ a[p] = 0 /\ p < na
    <3>1. E[p] = E[r] /\ Ea[p] = Ea[r]
      BY <1>3, <1>4, <2>1, <2>4, <2>9
    <3>2. F[p] = Zeros(c[q] + 1) \o F[r]
      BY <1>3, <2>4, <2>9
    <3>3. Fa[p] = Zeros(a[q] + 1) \o Fa[r]
      BY <1>4, <2>1, <2>9
    <3>. HIDE DEF q, r, Agree
    <3>4. PICK z \in 0 .. 255 : c[q] = z /\ a[q] = z
      BY <1>1, <2>3, <2>9
    <3>5. z + 1 \in Nat
      OBVIOUS
    <3>6. Agree(r)
      BY <1>6, <2>3, <2>9
    <3>7. F[r] = Fa[r] \o d /\ E[r] = na + e
      BY <3>1, <3>6 DEF Agree
    <3>8. Fa[r] \in Seq(Byte)
      BY <1>4, <2>5, <2>9, Zenon
    <3>9. Zeros(z + 1) \in Seq(Byte)
      BY <3>5, ZerosParts
    <3>10. Zeros(z + 1) \o (Fa[r] \o d) = (Zeros(z + 1) \o Fa[r]) \o d
      BY <1>2, <3>8, <3>9, ByteAssoc
    <3>. QED  BY <3>1, <3>2, <3>3, <3>4, <3>7, <3>10
  <2>. QED  BY <2>1, <2>4, <2>6, <2>7, <2>8, <2>9
<1>7. na \in S
  <2>. HIDE DEF S
  <2>. QED  BY <1>1, <1>6, Ladder
<1>8. F[1] = Fa[1] \o d /\ E[1] = na + e
  BY <1>1, <1>5, <1>7
<1>9. Differences(c) = F[1] /\ Differences(a) = Fa[1] /\ CutShort(c) = (E[1] > na + nb + 1)
  <2>1. CutShort(c) = (E[1] > Len(c) + 1)
    BY <1>1, EndFromSteps DEF E
  <2>. QED  BY <1>1, <2>1, DifferencesFrom DEF F, Fa
<1>10. CutShort(b) = (e > nb + 1)
  BY EndFromSteps DEF e, nb
<1>. QED  BY <1>1, <1>2, <1>8, <1>9, <1>10 DEF c, d
-----------------------------------------------------------------------------
(* What save_quetzal writes *)

LEMMA SameBytes ==
  ASSUME NEW s \in Seq(Byte), NEW t \in Seq(Byte), Len(s) = Len(t),
         \A i \in 1 .. Len(s) : s[i] = t[i]
  PROVE  s = t
OBVIOUS

LEMMA ConcatEmpty ==
  ASSUME NEW s \in Seq(Byte)
  PROVE  s \o <<>> = s /\ <<>> \o s = s
<1>. DEFINE e == <<>>
<1>1. e \in Seq(Byte) /\ Len(e) = 0
  OBVIOUS
<1>. HIDE DEF e
<1>2. Len(s) \in Nat
  BY ByteSeq
<1>3. /\ s \o e \in Seq(Byte) /\ Len(s \o e) = Len(s)
      /\ e \o s \in Seq(Byte) /\ Len(e \o s) = Len(s)
  BY <1>1, <1>2, ByteConcat
<1>4. \A i \in 1 .. Len(s) : (s \o e)[i] = s[i] /\ (e \o s)[i] = s[i]
  <2>1. \A i \in 1 .. Len(s) : (s \o e)[i] = s[i] /\ (e \o s)[Len(e) + i] = s[i]
    BY <1>1, ByteConcat
  <2>2. \A i \in 1 .. Len(s) : Len(e) + i = i
    BY <1>1, <1>2
  <2>. QED  BY <2>1, <2>2
<1>5. s \o e = s /\ e \o s = s
  <2>. DEFINE u == s \o e
              v == e \o s
  <2>1. /\ u \in Seq(Byte) /\ Len(u) = Len(s) /\ (\A i \in 1 .. Len(s) : s[i] = u[i])
        /\ v \in Seq(Byte) /\ Len(v) = Len(s) /\ (\A i \in 1 .. Len(s) : s[i] = v[i])
    BY <1>3, <1>4
  <2>. HIDE DEF u, v
  <2>2. u = s /\ v = s
    BY <2>1, SameBytes
  <2>. QED  BY <2>2 DEF u, v
<1>. QED  BY <1>5 DEF e

LEMMA EmptyMeans == Differences(<<>>) = <<>> /\ ~ CutShort(<<>>)
<1>. DEFINE c == <<>>
<1>1. c \in Seq(Byte) /\ Len(c) = 0
  OBVIOUS
<1>2. Differences(c) = DiffFrom(c)[1] /\ CutShort(c) = (EndFrom(c)[1] > Len(c) + 1)
  BY <1>1, DifferencesFrom, EndFromSteps
<1>3. \A p \in 1 .. Len(c) + 2 : p > Len(c) => DiffFrom(c)[p] = <<>> /\ EndFrom(c)[p] = p
  BY <1>1, DifferencesFrom, EndFromSteps
<1>. HIDE DEF c
<1>4. 1 \in 1 .. Len(c) + 2 /\ 1 > Len(c)
  BY <1>1
<1>5. DiffFrom(c)[1] = <<>> /\ EndFrom(c)[1] = 1
  BY <1>3, <1>4, Zenon
<1>6. ~ (EndFrom(c)[1] > Len(c) + 1)
  BY <1>1, <1>5
<1>7. Differences(c) = <<>> /\ ~ CutShort(c)
  BY <1>2, <1>5, <1>6, Zenon
<1>. QED  BY <1>7 DEF c

LEMMA ByteMeans ==
  ASSUME NEW x \in Byte, x # 0
  PROVE  Differences(<<x>>) = <<x>> /\ ~ CutShort(<<x>>)
<1>. DEFINE c == <<x>>
<1>1. c \in Seq(Byte) /\ Len(c) = 1 /\ c[1] = x
  BY ByteSingle
<1>2. Differences(c) = DiffFrom(c)[1] /\ CutShort(c) = (EndFrom(c)[1] > Len(c) + 1)
  BY <1>1, DifferencesFrom, EndFromSteps
<1>3. \A p \in 1 .. Len(c) + 2 :
        /\ p > Len(c) => DiffFrom(c)[p] = <<>> /\ EndFrom(c)[p] = p
        /\ p <= Len(c) /\ c[p] # 0 =>
             DiffFrom(c)[p] = <<c[p]>> \o DiffFrom(c)[p + 1] /\ EndFrom(c)[p] = EndFrom(c)[p + 1]
  BY <1>1, DifferencesFrom, EndFromSteps
<1>. HIDE DEF c
<1>4. 1 + 1 = 2 /\ 1 \in 1 .. Len(c) + 2 /\ 2 \in 1 .. Len(c) + 2 /\ 2 > Len(c) /\ 1 <= Len(c)
  BY <1>1
<1>5. DiffFrom(c)[2] = <<>> /\ EndFrom(c)[2] = 2
  BY <1>3, <1>4, Zenon
<1>6. DiffFrom(c)[1] = <<c[1]>> \o DiffFrom(c)[2] /\ EndFrom(c)[1] = EndFrom(c)[2]
  BY <1>1, <1>3, <1>4
<1>7. DiffFrom(c)[1] = <<x>> \o <<>> /\ EndFrom(c)[1] = 2
  BY <1>1, <1>5, <1>6
<1>8. <<x>> \o <<>> = <<x>>
  BY <1>1, ConcatEmpty DEF c
<1>9. ~ (EndFrom(c)[1] > Len(c) + 1)
  BY <1>1, <1>7
<1>10. c \in Seq(Byte) /\ Differences(c) = <<x>> /\ ~ CutShort(c)
  BY <1>1, <1>2, <1>7, <1>8, <1>9, Zenon
<1>. QED  BY <1>10 DEF c

LEMMA RunByteMeans ==
  ASSUME NEW k \in 0 .. 255
  PROVE  /\ <<0, k>> \in Seq(Byte)
         /\ Differences(<<0, k>>) = Zeros(k + 1) /\ ~ CutShort(<<0, k>>)
<1>. DEFINE c == <<0, k>>
<1>1. c \in Seq(Byte) /\ Len(c) = 2 /\ c[1] = 0 /\ c[2] = k
  BY DEF Byte
<1>2. Differences(c) = DiffFrom(c)[1] /\ CutShort(c) = (EndFrom(c)[1] > Len(c) + 1)
  BY <1>1, DifferencesFrom, EndFromSteps
<1>3. \A p \in 1 .. Len(c) + 2 :
        /\ p > Len(c) => DiffFrom(c)[p] = <<>> /\ EndFrom(c)[p] = p
        /\ p < Len(c) /\ c[p] = 0 => DiffFrom(c)[p] = Zeros(c[p + 1] + 1) \o DiffFrom(c)[p + 2]
        /\ p <= Len(c) /\ c[p] = 0 => EndFrom(c)[p] = EndFrom(c)[p + 2]
  BY <1>1, DifferencesFrom, EndFromSteps
<1>. HIDE DEF c
<1>4. /\ 1 + 1 = 2 /\ 1 + 2 = 3 /\ 1 \in 1 .. Len(c) + 2 /\ 3 \in 1 .. Len(c) + 2
      /\ 3 > Len(c) /\ 1 <= Len(c) /\ 1 < Len(c)
  BY <1>1
<1>5. DiffFrom(c)[3] = <<>> /\ EndFrom(c)[3] = 3
  BY <1>3, <1>4, Zenon
<1>6. DiffFrom(c)[1] = Zeros(c[2] + 1) \o DiffFrom(c)[3] /\ EndFrom(c)[1] = EndFrom(c)[3]
  BY <1>1, <1>3, <1>4
<1>7. DiffFrom(c)[1] = Zeros(k + 1) \o <<>> /\ EndFrom(c)[1] = 3
  BY <1>1, <1>5, <1>6
<1>8. Zeros(k + 1) \o <<>> = Zeros(k + 1)
  <2>1. k + 1 \in Nat
    OBVIOUS
  <2>2. Zeros(k + 1) \in Seq(Byte)
    BY <2>1, ZerosParts
  <2>. QED  BY <2>2, ConcatEmpty
<1>9. ~ (EndFrom(c)[1] > Len(c) + 1)
  BY <1>1, <1>7
<1>10. c \in Seq(Byte) /\ Differences(c) = Zeros(k + 1) /\ ~ CutShort(c)
  BY <1>1, <1>2, <1>7, <1>8, <1>9, Zenon
<1>. QED  BY <1>10 DEF c

LEMMA ZerosConcat ==
  ASSUME NEW m \in Nat, NEW n \in Nat
  PROVE  Zeros(m) \o Zeros(n) = Zeros(m + n)
<1>. DEFINE s == Zeros(m) \o Zeros(n)
            k == m + n
            t == Zeros(k)
<1>1. /\ Zeros(m) \in Seq(Byte) /\ Len(Zeros(m)) = m
      /\ Zeros(n) \in Seq(Byte) /\ Len(Zeros(n)) = n
      /\ \A i \in 1 .. m : Zeros(m)[i] = 0
      /\ \A i \in 1 .. n : Zeros(n)[i] = 0
  BY ZerosParts
<1>2. k \in Nat /\ (\A i \in 1 .. k : i \in 1 .. m \/ (i - m \in 1 .. n /\ i = m + (i - m)))
  OBVIOUS
<1>3. /\ s \in Seq(Byte) /\ Len(s) = k
      /\ \A i \in 1 .. m : s[i] = 0
      /\ \A i \in 1 .. n : s[m + i] = 0
  <2>. DEFINE y == Zeros(m)
              z == Zeros(n)
  <2>. HIDE DEF y, z
  <2>1. /\ y \in Seq(Byte) /\ Len(y) = m /\ (\A i \in 1 .. m : y[i] = 0)
        /\ z \in Seq(Byte) /\ Len(z) = n /\ (\A i \in 1 .. n : z[i] = 0)
    BY <1>1 DEF y, z
  <2>2. /\ y \o z \in Seq(Byte) /\ Len(y \o z) = Len(y) + Len(z)
        /\ (\A i \in 1 .. Len(y) : (y \o z)[i] = y[i])
        /\ (\A i \in 1 .. Len(z) : (y \o z)[Len(y) + i] = z[i])
    BY <2>1, ByteConcat
  <2>. QED  BY <2>1, <2>2 DEF y, z
<1>. HIDE DEF s, k
<1>4. t \in Seq(Byte) /\ Len(t) = k /\ \A i \in 1 .. k : t[i] = 0
  BY <1>2, ZerosParts
<1>. HIDE DEF t
<1>5. \A i \in 1 .. k : s[i] = 0
  <2>. SUFFICES ASSUME NEW i \in 1 .. k, ~ (i \in 1 .. m)  PROVE s[i] = 0
    BY <1>3
  <2>. DEFINE j == i - m
  <2>1. j \in 1 .. n /\ i = m + j
    BY <1>2
  <2>. HIDE DEF j
  <2>. QED  BY <1>3, <2>1
<1>6. s = t
  BY <1>3, <1>4, <1>5, SameBytes
<1>. QED  BY <1>6 DEF s, t, k

IsPieces(pieces, run) ==
    pieces = [j \in 0 .. run |->
                IF j = 0 THEN <<>>
                ELSE IF j > MaxRun THEN <<0, MaxRun - 1>> \o pieces[j - MaxRun]
                ELSE <<0, j - 1>>]

LEMMA PiecesExist ==
  ASSUME NEW run \in Nat
  PROVE  \E f : IsPieces(f, run)
<1>. DEFINE D == 0 .. run
            V == Seq(Byte)
            rank == [j \in D |-> j]
            body(f, j) == IF j = 0 THEN <<>>
                          ELSE IF j > MaxRun THEN <<0, MaxRun - 1>> \o f[j - MaxRun]
                          ELSE <<0, j - 1>>
            step == [j \in D |-> [f \in [D -> V] |-> body(f, j)]]
            bound == run + 1
<1>1. MaxRun \in 1 .. 256
  BY CMemAssumption
<1>2. /\ bound \in Nat /\ rank \in [D -> Nat] /\ (\A j \in D : rank[j] < bound)
  OBVIOUS
<1>3. \A j \in D : j > MaxRun => j - MaxRun \in D /\ rank[j - MaxRun] < rank[j]
  BY <1>1
<1>4. \A j \in D : j # 0 /\ ~ (j > MaxRun) => <<0, j - 1>> \in V
  <2>. SUFFICES ASSUME NEW j \in D, j # 0, ~ (j > MaxRun)
                PROVE  <<0, j - 1>> \in V
    OBVIOUS
  <2>1. j - 1 \in 0 .. 255
    BY <1>1
  <2>. QED  BY <2>1, RunByteMeans
<1>5. <<0, MaxRun - 1>> \in V /\ <<>> \in V
  <2>1. MaxRun - 1 \in 0 .. 255
    BY <1>1
  <2>2. <<0, MaxRun - 1>> \in V
    BY <2>1, RunByteMeans
  <2>. QED  BY <2>2
<1>. HIDE DEF rank, bound
<1>6. ASSUME NEW j \in D, NEW f \in [D -> V]  PROVE body(f, j) \in V
  <2>. HIDE DEF V
  <2>1. CASE j = 0
    BY <1>5, <2>1
  <2>2. CASE j # 0 /\ j > MaxRun
    <3>1. f[j - MaxRun] \in V
      BY <1>3, <2>2
    <3>2. <<0, MaxRun - 1>> \o f[j - MaxRun] \in V
      BY <1>5, <3>1, ByteConcat DEF V
    <3>. QED  BY <2>2, <3>2
  <2>3. CASE j # 0 /\ ~ (j > MaxRun)
    BY <1>4, <2>3
  <2>. QED  BY <2>1, <2>2, <2>3
<1>7. \A j \in D : \A f, g \in [D -> V] :
        (\A i \in D : rank[i] < rank[j] => f[i] = g[i]) => body(f, j) = body(g, j)
  BY <1>3
<1>8. \A j \in D : \A f \in [D -> V] : step[j][f] = body(f, j)
  OBVIOUS
<1>. HIDE DEF body
<1>9. step \in [D -> [[D -> V] -> V]]
  BY <1>6
<1>. HIDE DEF step
<1>10. Descends(D, V, rank, bound, step)
  <2>1. V # {}
    BY <1>5
  <2>. HIDE DEF D, V
  <2>2. \A x \in D : \A f, g \in [D -> V] :
          (\A y \in D : rank[y] < rank[x] => f[y] = g[y]) => step[x][f] = step[x][g]
    BY <1>7, <1>8
  <2>. QED  BY <1>2, <1>9, <2>1, <2>2 DEF Descends
<1>11. PICK f \in [D -> V] : \A x \in D : f[x] = body(f, x)
  <2>. HIDE DEF D, V
  <2>. QED  BY <1>8, <1>10, RecursiveFunction
<1>12. f = [j \in D |-> body(f, j)]
  BY <1>11
<1>13. IsPieces(f, run)
  BY <1>12 DEF IsPieces, body
<1>. QED  BY <1>13

\* A run is written as pieces that stand for it.
LEMMA RunMeans ==
  ASSUME NEW run \in Nat
  PROVE  /\ WrittenRun(run) \in Seq(Byte)
         /\ Differences(WrittenRun(run)) = Zeros(run)
         /\ ~ CutShort(WrittenRun(run))
<1>. DEFINE u == CHOOSE pieces : IsPieces(pieces, run)
            Means(c, n) == c \in Seq(Byte) /\ Differences(c) = Zeros(n) /\ ~ CutShort(c)
            S == {j \in Nat : j <= run => Means(u[j], j)}
<1>1. WrittenRun(run) = u[run]
  BY DEF WrittenRun, IsPieces
<1>2. MaxRun \in 1 .. 256
  BY CMemAssumption
<1>3. \A j \in 0 .. run : u[j] = IF j = 0 THEN <<>>
                                 ELSE IF j > MaxRun THEN <<0, MaxRun - 1>> \o u[j - MaxRun]
                                 ELSE <<0, j - 1>>
  <2>. DEFINE body(f, j) == IF j = 0 THEN <<>>
                            ELSE IF j > MaxRun THEN <<0, MaxRun - 1>> \o f[j - MaxRun]
                            ELSE <<0, j - 1>>
  <2>1. IsPieces(u, run)
    BY PiecesExist
  <2>. HIDE DEF u
  <2>2. u = [j \in 0 .. run |-> body(u, j)]
    BY <2>1 DEF IsPieces
  <2>. HIDE DEF body
  <2>3. \A j \in 0 .. run : u[j] = body(u, j)
    BY <2>2
  <2>. QED  BY <2>3 DEF body
<1>. HIDE DEF u
<1>4. ASSUME NEW j \in Nat, 0 .. j - 1 \subseteq S  PROVE j \in S
  <2>. SUFFICES ASSUME j <= run  PROVE Means(u[j], j)
    OBVIOUS
  <2>0. j \in 0 .. run
    OBVIOUS
  <2>1. CASE j = 0
    <3>0. <<>> \in Seq(Byte)
      OBVIOUS
    <3>1. u[j] = <<>> /\ <<>> \in Seq(Byte)
      BY <1>3, <2>0, <2>1, <3>0, Zenon
    <3>2. Zeros(0) = <<>>
      BY DEF Zeros
    <3>. QED  BY <2>1, <3>1, <3>2, EmptyMeans
  <2>2. CASE j # 0 /\ j > MaxRun
    <3>. DEFINE i == j - MaxRun
                k == MaxRun - 1
    <3>1. i \in 0 .. j - 1 /\ i \in Nat /\ i <= run /\ k \in 0 .. 255 /\ k + 1 \in Nat
          /\ k + 1 + i = j
      BY <1>2, <2>2
    <3>2. u[j] = <<0, k>> \o u[i]
      BY <1>3, <2>0, <2>2, Zenon
    <3>. HIDE DEF i, k, Means
    <3>3. Means(u[i], i)
      BY <1>4, <3>1
    <3>4. /\ <<0, k>> \in Seq(Byte) /\ ~ CutShort(<<0, k>>)
          /\ Differences(<<0, k>>) = Zeros(k + 1)
      BY <3>1, RunByteMeans
    <3>5. /\ u[i] \in Seq(Byte) /\ ~ CutShort(u[i])
          /\ Differences(u[i]) = Zeros(i)
      BY <3>3 DEF Means
    <3>6. /\ Differences(<<0, k>> \o u[i]) = Zeros(k + 1) \o Zeros(i)
          /\ CutShort(<<0, k>> \o u[i]) = CutShort(u[i])
      BY <3>4, <3>5, ConcatMeans
    <3>7. Zeros(k + 1) \o Zeros(i) = Zeros(j)
      BY <3>1, ZerosConcat
    <3>8. <<0, k>> \o u[i] \in Seq(Byte)
      BY <3>4, <3>5, ByteConcat
    <3>. QED  BY <3>2, <3>5, <3>6, <3>7, <3>8 DEF Means
  <2>3. CASE j # 0 /\ ~ (j > MaxRun)
    <3>. DEFINE k == j - 1
    <3>1. k \in 0 .. 255 /\ k + 1 = j
      BY <1>2, <2>3
    <3>2. u[j] = <<0, k>>
      BY <1>3, <2>0, <2>3, Zenon
    <3>. HIDE DEF k
    <3>. QED  BY <3>1, <3>2, RunByteMeans
  <2>. QED  BY <2>1, <2>2, <2>3
<1>5. run \in S
  <2>. HIDE DEF S
  <2>. QED  BY <1>4, Ladder
<1>. QED  BY <1>1, <1>5

LEMMA AppendIsConcat ==
  ASSUME NEW s \in Seq(Byte), NEW b \in Byte
  PROVE  Append(s, b) \in Seq(Byte) /\ Append(s, b) = s \o <<b>>
<1>. DEFINE u == Append(s, b)
            v == s \o <<b>>
<1>1. Len(s) \in Nat
  BY ByteSeq
<1>2. u \in Seq(Byte) /\ Len(u) = Len(s) + 1 /\ u[Len(s) + 1] = b
      /\ \A i \in 1 .. Len(s) : u[i] = s[i]
  OBVIOUS
<1>3. v \in Seq(Byte) /\ Len(v) = Len(s) + 1 /\ v[Len(s) + 1] = b
      /\ \A i \in 1 .. Len(s) : v[i] = s[i]
  <2>. DEFINE t == <<b>>
  <2>1. t \in Seq(Byte) /\ Len(t) = 1 /\ t[1] = b
    BY ByteSingle
  <2>. HIDE DEF t
  <2>2. /\ s \o t \in Seq(Byte) /\ Len(s \o t) = Len(s) + Len(t)
        /\ (\A i \in 1 .. Len(s) : (s \o t)[i] = s[i])
        /\ (\A i \in 1 .. Len(t) : (s \o t)[Len(s) + i] = t[i])
    BY <2>1, ByteConcat
  <2>. QED  BY <2>1, <2>2 DEF t
<1>. HIDE DEF u, v
<1>4. \A i \in 1 .. Len(s) + 1 : i \in 1 .. Len(s) \/ i = Len(s) + 1
  BY <1>1
<1>5. \A i \in 1 .. Len(u) : u[i] = v[i]
  BY <1>2, <1>3, <1>4
<1>6. u = v
  BY <1>2, <1>3, <1>5, SameBytes
<1>. QED  BY <1>2, <1>6 DEF u, v

NextWritten(s, c) ==
    IF c = 0 THEN [s EXCEPT !.run = @ + 1]
    ELSE [run |-> 0, chunk |-> Append(s.chunk \o WrittenRun(s.run), c)]

IsWriting(after, mem) ==
    after = [i \in 0 .. h_restart_size |->
               IF i = 0 THEN [run |-> 0, chunk |-> <<>>]
               ELSE NextWritten(after[i - 1], Xor(StoryFile[i - 1], mem[i - 1]))]

\* What has been written when i bytes have been looked at.
WrittenAt(mem) == CHOOSE after : IsWriting(after, mem)

LEMMA WritingExists ==
  ASSUME NEW mem \in [Address -> Byte]
  PROVE  IsWriting(WrittenAt(mem), mem)
<1>. DEFINE D == 0 .. h_restart_size
            V == [run : Nat, chunk : Seq(Byte)]
            rank == [i \in D |-> i]
            x(i) == Xor(StoryFile[i - 1], mem[i - 1])
            start == [run |-> 0, chunk |-> <<>>]
            body(f, i) == IF i = 0 THEN start ELSE NextWritten(f[i - 1], x(i))
            step == [i \in D |-> [f \in [D -> V] |-> body(f, i)]]
            bound == h_restart_size + 1
<1>1. /\ h_restart_size \in Nat /\ bound \in Nat
      /\ rank \in [D -> Nat] /\ (\A i \in D : rank[i] < bound)
  BY CMemAssumption
<1>2. start \in V
  OBVIOUS
<1>3. \A i \in D : i # 0 => i - 1 \in D /\ rank[i - 1] < rank[i] /\ x(i) \in Byte
  <2>. SUFFICES ASSUME NEW i \in D, i # 0
                PROVE  i - 1 \in D /\ rank[i - 1] < rank[i] /\ x(i) \in Byte
    OBVIOUS
  <2>1. i - 1 \in D /\ rank[i - 1] < rank[i] /\ i - 1 \in Address
    BY <1>1 DEF Address
  <2>2. StoryFile[i - 1] \in Byte /\ mem[i - 1] \in Byte
    BY <2>1, CMemAssumption
  <2>. QED  BY <2>1, <2>2, XorLaws
<1>. HIDE DEF rank, bound, x
<1>4. ASSUME NEW s \in V, NEW c \in Byte  PROVE NextWritten(s, c) \in V
  <2>1. s.run \in Nat /\ s.chunk \in Seq(Byte) /\ s.run + 1 \in Nat
    OBVIOUS
  <2>2. [s EXCEPT !.run = @ + 1] \in V
    BY <2>1
  <2>3. Append(s.chunk \o WrittenRun(s.run), c) \in Seq(Byte)
    BY <2>1, RunMeans, ByteConcat, AppendIsConcat
  <2>. QED  BY <2>2, <2>3 DEF NextWritten
<1>5. \A i \in D : \A f \in [D -> V] : body(f, i) \in V
  <2>. HIDE DEF V, start
  <2>. QED  BY <1>2, <1>3, <1>4
<1>6. \A i \in D : \A f, g \in [D -> V] :
        (\A j \in D : rank[j] < rank[i] => f[j] = g[j]) => body(f, i) = body(g, i)
  <2>. HIDE DEF V, start
  <2>. QED  BY <1>3
<1>7. \A i \in D : \A f \in [D -> V] : step[i][f] = body(f, i)
  OBVIOUS
<1>. HIDE DEF body, V
<1>8. step \in [D -> [[D -> V] -> V]]
  BY <1>5
<1>. HIDE DEF step, start
<1>9. Descends(D, V, rank, bound, step)
  <2>. HIDE DEF D
  <2>1. \A i \in D : \A f, g \in [D -> V] :
          (\A j \in D : rank[j] < rank[i] => f[j] = g[j]) => step[i][f] = step[i][g]
    <3>. SUFFICES ASSUME NEW i \in D, NEW f \in [D -> V], NEW g \in [D -> V],
                         \A j \in D : rank[j] < rank[i] => f[j] = g[j]
                  PROVE  step[i][f] = step[i][g]
      OBVIOUS
    <3>1. body(f, i) = body(g, i)
      BY <1>6
    <3>. QED  BY <1>7, <3>1
  <2>. QED  BY <1>1, <1>2, <1>8, <2>1 DEF Descends
<1>10. PICK f \in [D -> V] : \A i \in D : f[i] = body(f, i)
  <2>. HIDE DEF D
  <2>. QED  BY <1>7, <1>9, RecursiveFunction
<1>11. f = [i \in D |-> body(f, i)]
  BY <1>10
<1>12. IsWriting(f, mem)
  BY <1>11 DEF IsWriting, body, start, x
<1>. QED  BY <1>12 DEF WrittenAt

\* The chunk written so far, and a run, stand for the first i bytes.
Stands(mem, s, i) ==
    /\ s \in [run : Nat, chunk : Seq(Byte)]
    /\ s.run <= i
    /\ ~ CutShort(s.chunk)
    /\ Differences(s.chunk) \in Seq(Byte)
    /\ Len(Differences(s.chunk)) = i - s.run
    /\ \A a \in 0 .. i - s.run - 1 : Differences(s.chunk)[a + 1] = Xor(StoryFile[a], mem[a])
    /\ \A a \in i - s.run .. i - 1 : Xor(StoryFile[a], mem[a]) = 0

LEMMA WritingStep ==
  ASSUME NEW mem, NEW i \in Nat, NEW s, Stands(mem, s, i),
         NEW c \in Byte, c = Xor(StoryFile[i], mem[i])
  PROVE  Stands(mem, NextWritten(s, c), i + 1)
<1>. DEFINE t == NextWritten(s, c)
            d == Differences(s.chunk)
            k == i - s.run
<1>1. /\ s.run \in Nat /\ s.run <= i /\ k \in Nat /\ i + 1 \in Nat /\ i = k + s.run
      /\ s.chunk \in Seq(Byte) /\ ~ CutShort(s.chunk)
      /\ d \in Seq(Byte) /\ Len(d) = k
      /\ (\A a \in 0 .. k - 1 : d[a + 1] = Xor(StoryFile[a], mem[a]))
      /\ (\A a \in k .. i - 1 : Xor(StoryFile[a], mem[a]) = 0)
  BY DEF Stands
<1>2. CASE c = 0
  <2>1. /\ t \in [run : Nat, chunk : Seq(Byte)]
        /\ t.run = s.run + 1 /\ t.chunk = s.chunk
    BY <1>2 DEF Stands, NextWritten
  <2>. HIDE DEF t
  <2>2. i + 1 - t.run = k /\ t.run <= i + 1 /\ i + 1 - 1 = i
    BY <1>1, <2>1
  <2>3. \A a \in k .. i : a \in k .. i - 1 \/ a = i
    BY <1>1
  <2>4. \A a \in k .. i : Xor(StoryFile[a], mem[a]) = 0
    BY <1>1, <1>2, <2>3
  <2>. DEFINE first == i + 1 - t.run
              last == i + 1 - 1
  <2>5. /\ first = k /\ last = i /\ Differences(t.chunk) = d
        /\ t.chunk = s.chunk /\ t.run <= i + 1
    BY <2>1, <2>2
  <2>. HIDE DEF first, last, k, d
  <2>6. /\ Len(Differences(t.chunk)) = first
        /\ Differences(t.chunk) \in Seq(Byte)
        /\ ~ CutShort(t.chunk)
        /\ \A a \in 0 .. first - 1 : Differences(t.chunk)[a + 1] = Xor(StoryFile[a], mem[a])
        /\ \A a \in first .. last : Xor(StoryFile[a], mem[a]) = 0
    <3>1. /\ Differences(t.chunk) \in Seq(Byte)
          /\ ~ CutShort(t.chunk)
      BY <1>1, <2>5
    <3>2. Len(Differences(t.chunk)) = first
      BY <1>1, <2>5
    <3>3. \A a \in 0 .. first - 1 : Differences(t.chunk)[a + 1] = Xor(StoryFile[a], mem[a])
      BY <1>1, <2>5, Zenon
    <3>4. \A a \in first .. last : Xor(StoryFile[a], mem[a]) = 0
      BY <2>4, <2>5
    <3>. QED  BY <3>1, <3>2, <3>3, <3>4
  <2>7. Stands(mem, t, i + 1)
    <3>1. t \in [run : Nat, chunk : Seq(Byte)] /\ t.run <= i + 1
      BY <2>1, <2>5
    <3>2. /\ Len(Differences(t.chunk)) = i + 1 - t.run
          /\ \A a \in 0 .. i + 1 - t.run - 1 : Differences(t.chunk)[a + 1] = Xor(StoryFile[a], mem[a])
          /\ \A a \in i + 1 - t.run .. i + 1 - 1 : Xor(StoryFile[a], mem[a]) = 0
      <4>0. t.run \in Nat
        BY <3>1
      <4>1. first = i + 1 - t.run /\ last = i + 1 - 1
        BY DEF first, last
      <4>. HIDE DEF first, last
      <4>2. Len(Differences(t.chunk)) = i + 1 - t.run
        BY <2>6, <4>1
      <4>3. \A a \in 0 .. i + 1 - t.run - 1 : Differences(t.chunk)[a + 1] = Xor(StoryFile[a], mem[a])
        BY <2>6, <4>0, <4>1
      <4>4. \A a \in i + 1 - t.run .. i + 1 - 1 : Xor(StoryFile[a], mem[a]) = 0
        BY <2>6, <4>0, <4>1
      <4>. QED  BY <4>2, <4>3, <4>4
    <3>3. ~ CutShort(t.chunk) /\ Differences(t.chunk) \in Seq(Byte)
      BY <2>6
    <3>. QED  BY <3>1, <3>2, <3>3 DEF Stands
  <2>. QED  BY <2>7 DEF t
<1>3. CASE c # 0
  <2>. DEFINE w == WrittenRun(s.run)
              z == Zeros(s.run)
              e == <<c>>
              dd == (d \o z) \o e
  <2>1. w \in Seq(Byte) /\ Differences(w) = z /\ ~ CutShort(w)
    BY <1>1, RunMeans
  <2>2. z \in Seq(Byte) /\ Len(z) = s.run /\ (\A j \in 1 .. s.run : z[j] = 0)
    BY <1>1, ZerosParts
  <2>3. e \in Seq(Byte) /\ Len(e) = 1 /\ e[1] = c /\ Differences(e) = e /\ ~ CutShort(e)
    BY <1>3, ByteSingle, ByteMeans
  <2>4. t = [run |-> 0, chunk |-> (s.chunk \o w) \o e] /\ (s.chunk \o w) \o e \in Seq(Byte)
    <3>1. s.chunk \o w \in Seq(Byte)
      BY <1>1, <2>1, ByteConcat
    <3>2. Append(s.chunk \o w, c) = (s.chunk \o w) \o e /\ Append(s.chunk \o w, c) \in Seq(Byte)
      BY <3>1, AppendIsConcat
    <3>. QED  BY <1>3, <3>2 DEF NextWritten
  <2>. HIDE DEF w, z, e, t, d
  <2>5. t \in [run : Nat, chunk : Seq(Byte)] /\ t.run = 0 /\ t.chunk = (s.chunk \o w) \o e
    BY <2>4
  <2>6. Differences(s.chunk \o w) = d \o z /\ CutShort(s.chunk \o w) = CutShort(w)
        /\ s.chunk \o w \in Seq(Byte)
    BY <1>1, <2>1, ConcatMeans, ByteConcat DEF d
  <2>7. Differences(t.chunk) = dd /\ ~ CutShort(t.chunk)
    <3>1. ~ CutShort(s.chunk \o w)
      BY <2>1, <2>6
    <3>2. /\ Differences((s.chunk \o w) \o e) = Differences(s.chunk \o w) \o Differences(e)
          /\ CutShort((s.chunk \o w) \o e) = CutShort(e)
      BY <2>3, <2>6, <3>1, ConcatMeans
    <3>. QED  BY <2>3, <2>5, <2>6, <3>2
  <2>8. /\ d \o z \in Seq(Byte) /\ Len(d \o z) = i
        /\ (\A j \in 1 .. k : (d \o z)[j] = d[j])
        /\ (\A j \in 1 .. s.run : (d \o z)[k + j] = z[j])
    <3>1. /\ d \o z \in Seq(Byte) /\ Len(d \o z) = Len(d) + Len(z)
          /\ (\A j \in 1 .. Len(d) : (d \o z)[j] = d[j])
          /\ (\A j \in 1 .. Len(z) : (d \o z)[Len(d) + j] = z[j])
      BY <1>1, <2>2, ByteConcat
    <3>. HIDE DEF k
    <3>. QED  BY <1>1, <2>2, <3>1
  <2>9. /\ dd \in Seq(Byte) /\ Len(dd) = i + 1
        /\ (\A j \in 1 .. i : dd[j] = (d \o z)[j])
        /\ dd[i + 1] = c
    <3>. DEFINE f == d \o z
    <3>1. /\ f \o e \in Seq(Byte) /\ Len(f \o e) = Len(f) + Len(e)
          /\ (\A j \in 1 .. Len(f) : (f \o e)[j] = f[j])
          /\ (\A j \in 1 .. Len(e) : (f \o e)[Len(f) + j] = e[j])
      BY <2>3, <2>8, ByteConcat
    <3>. HIDE DEF k, f
    <3>2. Len(f) = i
      BY <2>8 DEF f
    <3>. DEFINE g == f \o e
    <3>3. /\ g \in Seq(Byte) /\ Len(g) = i + 1
          /\ (\A j \in 1 .. i : g[j] = f[j])
          /\ (\A j \in 1 .. 1 : g[i + j] = e[j])
      BY <2>3, <3>1, <3>2
    <3>. HIDE DEF g
    <3>4. g[i + 1] = e[1]
      BY <3>3
    <3>5. g = dd
      BY DEF g, f, dd
    <3>. QED  BY <2>3, <3>3, <3>4, <3>5 DEF f
  <2>. HIDE DEF dd, k
  <2>10. \A a \in 0 .. i : dd[a + 1] = Xor(StoryFile[a], mem[a])
    <3>. SUFFICES ASSUME NEW a \in 0 .. i
                  PROVE  dd[a + 1] = Xor(StoryFile[a], mem[a])
      OBVIOUS
    <3>1. CASE a \in 0 .. k - 1
      <4>. DEFINE j == a + 1
      <4>1. j \in 1 .. k /\ j \in 1 .. i
        BY <1>1, <3>1
      <4>. HIDE DEF j
      <4>2. dd[j] = d[j]
        BY <2>8, <2>9, <4>1
      <4>. QED  BY <1>1, <3>1, <4>2 DEF j
    <3>2. CASE a \in k .. i - 1
      <4>. DEFINE m == a + 1 - k
                  j == k + m
      <4>1. j = a + 1 /\ m \in 1 .. s.run /\ j \in 1 .. i
        BY <1>1, <3>2
      <4>. HIDE DEF m
      <4>2. dd[j] = (d \o z)[j] /\ (d \o z)[k + m] = 0
        BY <2>2, <2>8, <2>9, <4>1
      <4>. QED  BY <1>1, <3>2, <4>1, <4>2
    <3>3. CASE a = i
      BY <2>9, <3>3
    <3>. QED  BY <1>1, <3>1, <3>2, <3>3
  <2>11. /\ i + 1 - t.run = i + 1 /\ t.run <= i + 1 /\ i + 1 - 1 = i
         /\ (\A a : ~ (a \in i + 1 .. i))
    BY <1>1, <2>5
  <2>12. Stands(mem, t, i + 1)
    BY <2>5, <2>7, <2>9, <2>10, <2>11 DEF Stands
  <2>. QED  BY <2>12 DEF t
<1>. QED  BY <1>2, <1>3
\* What save_quetzal writes is whole, and stands for the memory it was given.
LEMMA WrittenMeans ==
  ASSUME NEW mem \in [Address -> Byte]
  PROVE  Written(mem) \in Seq(Byte) /\ Whole(Written(mem)) /\ Meant(Written(mem)) = mem
<1>. DEFINE u == WrittenAt(mem)
            n == h_restart_size
            start == [run |-> 0, chunk |-> <<>>]
            S == {i \in Nat : i <= n => Stands(mem, u[i], i)}
<1>1. Written(mem) = u[n].chunk
  BY DEF Written, WrittenAt, IsWriting, NextWritten
<1>2. n \in Nat
  BY CMemAssumption
<1>3. \A i \in 0 .. n : u[i] = IF i = 0 THEN start
                               ELSE NextWritten(u[i - 1], Xor(StoryFile[i - 1], mem[i - 1]))
  <2>. DEFINE body(f, i) == IF i = 0 THEN start
                            ELSE NextWritten(f[i - 1], Xor(StoryFile[i - 1], mem[i - 1]))
  <2>1. IsWriting(u, mem)
    BY WritingExists
  <2>. HIDE DEF u
  <2>2. u = [i \in 0 .. n |-> body(u, i)]
    BY <2>1 DEF IsWriting
  <2>. HIDE DEF body
  <2>3. \A i \in 0 .. n : u[i] = body(u, i)
    BY <2>2
  <2>. QED  BY <2>3 DEF body
<1>4. \A a \in Address : StoryFile[a] \in Byte /\ mem[a] \in Byte /\ Xor(StoryFile[a], mem[a]) \in Byte
  BY CMemAssumption, XorLaws
<1>. HIDE DEF u
<1>5. Stands(mem, start, 0)
  <2>1. start \in [run : Nat, chunk : Seq(Byte)] /\ start.run = 0 /\ start.chunk = <<>>
    OBVIOUS
  <2>. HIDE DEF start
  <2>2. Differences(start.chunk) = <<>> /\ ~ CutShort(start.chunk)
    BY <2>1, EmptyMeans
  <2>3. Differences(start.chunk) \in Seq(Byte) /\ Len(Differences(start.chunk)) = 0
    BY <2>2
  <2>. QED  BY <2>1, <2>2, <2>3 DEF Stands
<1>. HIDE DEF start
<1>6. ASSUME NEW i \in Nat, 0 .. i - 1 \subseteq S  PROVE i \in S
  <2>. SUFFICES ASSUME i <= n  PROVE Stands(mem, u[i], i)
    OBVIOUS
  <2>0. i \in 0 .. n
    BY <1>2
  <2>1. CASE i = 0
    <3>1. u[i] = start
      BY <1>3, <2>0, <2>1
    <3>. QED  BY <1>5, <2>1, <3>1
  <2>2. CASE i # 0
    <3>. DEFINE j == i - 1
                c == Xor(StoryFile[j], mem[j])
    <3>1. j \in Nat /\ j \in 0 .. i - 1 /\ j <= n /\ j + 1 = i /\ j \in Address
      BY <1>2, <2>0, <2>2 DEF Address
    <3>2. u[i] = NextWritten(u[j], c)
      BY <1>3, <2>0, <2>2, Zenon
    <3>. HIDE DEF j
    <3>3. c \in Byte
      BY <1>4, <3>1
    <3>4. Stands(mem, u[j], j)
      BY <1>6, <3>1
    <3>. HIDE DEF c
    <3>5. Stands(mem, NextWritten(u[j], c), j + 1)
      BY <3>1, <3>3, <3>4, WritingStep DEF c
    <3>. QED  BY <3>1, <3>2, <3>5
  <2>. QED  BY <2>1, <2>2
<1>7. Stands(mem, u[n], n)
  <2>. HIDE DEF S
  <2>1. n \in S
    BY <1>2, <1>6, Ladder
  <2>. QED  BY <1>2, <2>1 DEF S
<1>. DEFINE w == Written(mem)
            d == Differences(w)
            k == n - u[n].run
<1>8. /\ k \in Nat /\ k <= n
      /\ w \in Seq(Byte) /\ ~ CutShort(w)
      /\ d \in Seq(Byte) /\ Len(d) = k
      /\ \A a \in 0 .. k - 1 : d[a + 1] = Xor(StoryFile[a], mem[a])
      /\ \A a \in k .. n - 1 : Xor(StoryFile[a], mem[a]) = 0
  BY <1>1, <1>2, <1>7 DEF Stands
<1>9. Whole(w)
  BY <1>8 DEF Whole
<1>10. \A a \in Address : (IF a < Len(d) THEN Xor(d[a + 1], StoryFile[a]) ELSE StoryFile[a]) = mem[a]
  <2>. HIDE DEF k, d, w
  <2>. SUFFICES ASSUME NEW a \in Address
                PROVE  (IF a < Len(d) THEN Xor(d[a + 1], StoryFile[a]) ELSE StoryFile[a]) = mem[a]
    OBVIOUS
  <2>1. a \in 0 .. n - 1
    BY DEF Address
  <2>2. CASE a < k
    <3>1. d[a + 1] = Xor(StoryFile[a], mem[a])
      BY <1>8, <2>1, <2>2
    <3>2. Xor(Xor(StoryFile[a], mem[a]), StoryFile[a]) = mem[a]
      BY <1>4, XorLaws
    <3>. QED  BY <1>8, <2>2, <3>1, <3>2
  <2>3. CASE ~ (a < k)
    <3>1. Xor(StoryFile[a], mem[a]) = 0
      BY <1>8, <2>1, <2>3
    <3>. QED  BY <1>4, <1>8, <2>3, <3>1, XorLaws
  <2>. QED  BY <2>2, <2>3
<1>11. Meant(w) = mem
  <2>1. Meant(w) = [a \in Address |-> mem[a]]
    BY <1>10 DEF Meant
  <2>. QED  BY <2>1
<1>. QED  BY <1>8, <1>9, <1>11
-----------------------------------------------------------------------------
(* Reading a chunk *)

\* t is what follows the first n places of d.
Follows(t, d, n) == Len(d) = n + Len(t) /\ \A j \in 1 .. Len(t) : d[n + j] = t[j]

\* The end of a sequence, when it begins with a piece, is what follows the piece.
LEMMA Suffix ==
  ASSUME NEW d \in Seq(Byte), NEW z \in Seq(Byte), NEW r \in Seq(Byte), NEW n \in Nat,
         Follows(z \o r, d, n)
  PROVE  /\ Follows(r, d, n + Len(z))
         /\ \A j \in 1 .. Len(z) : d[n + j] = z[j]
<1>. DEFINE t == z \o r
            m == Len(z)
<1>1. m \in Nat /\ Len(r) \in Nat
  BY ByteSeq
<1>2. /\ t \in Seq(Byte) /\ Len(t) = m + Len(r)
      /\ (\A j \in 1 .. m : t[j] = z[j])
      /\ (\A j \in 1 .. Len(r) : t[m + j] = r[j])
  BY ByteConcat
<1>3. Len(d) = n + Len(t) /\ \A j \in 1 .. Len(t) : d[n + j] = t[j]
  BY DEF Follows
<1>. HIDE DEF t, m
<1>4. \A j \in 1 .. m : d[n + j] = z[j]
  <2>. SUFFICES ASSUME NEW j \in 1 .. m  PROVE d[n + j] = z[j]
    OBVIOUS
  <2>1. j \in 1 .. Len(t)
    BY <1>1, <1>2
  <2>. QED  BY <1>2, <1>3, <2>1
<1>5. \A j \in 1 .. Len(r) : d[(n + m) + j] = r[j]
  <2>. SUFFICES ASSUME NEW j \in 1 .. Len(r)  PROVE d[(n + m) + j] = r[j]
    OBVIOUS
  <2>. DEFINE q == m + j
  <2>1. q \in 1 .. Len(t) /\ (n + m) + j = n + q
    BY <1>1, <1>2
  <2>2. t[q] = r[j]
    BY <1>2
  <2>. HIDE DEF q
  <2>3. d[n + q] = t[q]
    BY <1>3, <2>1
  <2>. QED  BY <2>1, <2>2, <2>3
<1>6. Len(d) = (n + m) + Len(r)
  <2>. DEFINE b == Len(r)
              c == Len(t)
  <2>1. b \in Nat /\ c = m + b /\ Len(d) = n + c
    BY <1>1, <1>2, <1>3
  <2>. HIDE DEF b, c
  <2>2. n + c = (n + m) + b
    BY <1>1, <2>1
  <2>. QED  BY <2>1, <2>2 DEF b
<1>7. Follows(r, d, n + m)
  BY <1>5, <1>6 DEF Follows
<1>. QED  BY <1>4, <1>7 DEF m

ReadState ==
    [at : Nat \ {0}, i : 0 .. h_restart_size, mem : [Address -> Byte], bad : BOOLEAN]

\* What follows in the chunk stands for the differences behind the first n, and
\* these are in the memory, as far as it goes.
HasRead(chunk, s, n) ==
    /\ s.at <= Len(chunk) + 1
    /\ Follows(DiffFrom(chunk)[s.at], Differences(chunk), n)
    /\ EndFrom(chunk)[s.at] = EndFrom(chunk)[1]
    /\ s.i = (IF n < h_restart_size THEN n ELSE h_restart_size)
    /\ \A a \in 0 .. s.i - 1 : s.mem[a] = Xor(Differences(chunk)[a + 1], StoryFile[a])

\* Every step goes on in the chunk, and a bad chunk is not whole.
Reads(chunk, s, k) ==
    /\ s \in ReadState
    /\ IF s.bad THEN ~ Whole(chunk)
       ELSE (s.at > k \/ s.at > Len(chunk)) /\ \E n \in Nat : HasRead(chunk, s, n)

\* A byte that is not 0.
LEMMA ByteRead ==
  ASSUME NEW chunk \in Seq(Byte), NEW s \in ReadState, NEW n \in Nat, HasRead(chunk, s, n),
         s.at <= Len(chunk), chunk[s.at] # 0
  PROVE  IF s.i = h_restart_size THEN ~ Whole(chunk)
         ELSE LET t == [s EXCEPT !.at = @ + 1, !.i = @ + 1,
                                 !.mem[s.i] = Xor(chunk[s.at], StoryFile[s.i])]
              IN t \in ReadState /\ HasRead(chunk, t, n + 1)
<1>. DEFINE d == Differences(chunk)
            p == s.at
            q == p + 1
            x == chunk[p]
            z == <<x>>
            r == DiffFrom(chunk)[q]
            N == h_restart_size
<1>1. /\ N \in Nat \ {0} /\ p \in Nat \ {0} /\ s.i \in 0 .. N /\ s.mem \in [Address -> Byte]
      /\ s.bad \in BOOLEAN /\ Len(chunk) \in Nat /\ p \in 1 .. Len(chunk)
  BY CMemAssumption, ByteSeq DEF ReadState
<1>2. p \in 1 .. Len(chunk) + 2 /\ q \in 1 .. Len(chunk) + 2 /\ q <= Len(chunk) + 1 /\ 1 \in 1 .. Len(chunk) + 2
  BY <1>1
<1>3. /\ d \in Seq(Byte) /\ r \in Seq(Byte)
      /\ DiffFrom(chunk)[p] = z \o r /\ EndFrom(chunk)[p] = EndFrom(chunk)[q]
  <2>1. /\ DiffFrom(chunk)[1] \in Seq(Byte) /\ DiffFrom(chunk)[q] \in Seq(Byte)
        /\ d = DiffFrom(chunk)[1]
    BY <1>2, DifferencesFrom
  <2>2. DiffFrom(chunk)[p] = z \o r
    BY <1>2, DifferencesFrom
  <2>3. EndFrom(chunk)[p] = EndFrom(chunk)[q]
    BY <1>2, EndFromSteps
  <2>. QED  BY <2>1, <2>2, <2>3
<1>4. x \in Byte /\ z \in Seq(Byte) /\ Len(z) = 1 /\ z[1] = x
  <2>1. x \in Byte
    BY <1>1, ByteSeq
  <2>. QED  BY <2>1, ByteSingle
<1>. HIDE DEF z, r, d, q, x
<1>5. /\ Follows(z \o r, d, n)
      /\ EndFrom(chunk)[p] = EndFrom(chunk)[1]
      /\ s.i = (IF n < N THEN n ELSE N)
      /\ (\A a \in 0 .. s.i - 1 : s.mem[a] = Xor(d[a + 1], StoryFile[a]))
  BY <1>3 DEF HasRead, d
<1>6. Follows(r, d, n + Len(z)) /\ \A j \in 1 .. Len(z) : d[n + j] = z[j]
  BY <1>3, <1>4, <1>5, Suffix
<1>7. Len(r) \in Nat
  BY <1>3, ByteSeq
<1>8. Follows(r, d, n + 1) /\ d[n + 1] = x
  <2>1. 1 \in 1 .. Len(z)
    BY <1>4
  <2>2. d[n + 1] = z[1]
    BY <1>6, <2>1
  <2>. QED  BY <1>4, <1>6, <2>2
<1>9. CASE s.i = N
  <2>1. Len(d) > N
    BY <1>1, <1>5, <1>7, <1>8, <1>9 DEF Follows
  <2>. QED  BY <1>1, <1>9, <2>1 DEF Whole, d
<1>10. CASE s.i # N
  <2>. DEFINE t == [s EXCEPT !.at = @ + 1, !.i = @ + 1, !.mem[s.i] = Xor(x, StoryFile[s.i])]
  <2>1. s.i = n /\ n < N /\ n \in Address /\ n + 1 \in 0 .. N
    BY <1>1, <1>5, <1>10 DEF Address
  <2>2. StoryFile[n] \in Byte /\ Xor(x, StoryFile[n]) \in Byte
    BY <1>4, <2>1, CMemAssumption, XorLaws
  <2>3. /\ t \in ReadState /\ t.at = q /\ t.i = n + 1
        /\ t.mem = [s.mem EXCEPT ![n] = Xor(x, StoryFile[n])]
    <3>. DEFINE m == [s.mem EXCEPT ![n] = Xor(x, StoryFile[n])]
    <3>1. m \in [Address -> Byte]
      BY <1>1, <2>2
    <3>2. t = [s EXCEPT !.at = q, !.i = n + 1, !.mem = m]
      BY <2>1 DEF q, ReadState
    <3>3. q \in Nat \ {0}
      BY <1>1 DEF q
    <3>. HIDE DEF m, t
    <3>4. t \in ReadState /\ t.at = q /\ t.i = n + 1 /\ t.mem = m
      BY <1>1, <2>1, <3>1, <3>2, <3>3 DEF ReadState
    <3>. QED  BY <3>4 DEF m
  <2>. HIDE DEF t
  <2>4. \A a \in 0 .. n : t.mem[a] = Xor(d[a + 1], StoryFile[a])
    <3>. SUFFICES ASSUME NEW a \in 0 .. n  PROVE t.mem[a] = Xor(d[a + 1], StoryFile[a])
      OBVIOUS
    <3>1. a \in Address
      BY <1>1, <2>1 DEF Address
    <3>2. CASE a = n
      BY <1>1, <1>8, <2>1, <2>3, <3>2
    <3>3. CASE a # n
      <4>1. a \in 0 .. s.i - 1 /\ t.mem[a] = s.mem[a]
        BY <1>1, <2>1, <2>3, <3>1, <3>3
      <4>. QED  BY <1>5, <4>1
    <3>. QED  BY <3>2, <3>3
  <2>5. /\ t.at <= Len(chunk) + 1
        /\ t.i = (IF n + 1 < N THEN n + 1 ELSE N)
        /\ t.i - 1 = n
    BY <1>1, <1>2, <2>1, <2>3
  <2>6. HasRead(chunk, t, n + 1)
    BY <1>3, <1>5, <1>8, <2>3, <2>4, <2>5 DEF HasRead, d, r
  <2>. QED  BY <1>10, <2>3, <2>6 DEF t, x
<1>. QED  BY <1>9, <1>10
\* A run, as far as the memory goes.
LEMMA RunIsRead ==
  ASSUME NEW chunk \in Seq(Byte), NEW s \in ReadState, NEW n \in Nat, HasRead(chunk, s, n),
         s.at < Len(chunk), chunk[s.at] = 0
  PROVE  LET t == RunRead(s, chunk[s.at + 1])
         IN /\ t \in ReadState /\ t.at = s.at + 2 /\ t.bad = s.bad
            /\ HasRead(chunk, t, n + (chunk[s.at + 1] + 1))
<1>. DEFINE d == Differences(chunk)
            p == s.at
            q == p + 2
            run == chunk[p + 1]
            l == run + 1
            z == Zeros(l)
            r == DiffFrom(chunk)[q]
            N == h_restart_size
            end == IF s.i + run + 1 < N THEN s.i + run + 1 ELSE N
            m == [a \in Address |-> IF a \in s.i .. end - 1 THEN StoryFile[a] ELSE s.mem[a]]
            t == RunRead(s, run)
<1>1. /\ N \in Nat \ {0} /\ p \in Nat \ {0} /\ s.i \in 0 .. N /\ s.mem \in [Address -> Byte]
      /\ s.bad \in BOOLEAN /\ Len(chunk) \in Nat /\ p \in 1 .. Len(chunk)
      /\ p + 1 \in 1 .. Len(chunk)
  <2>1. Len(chunk) \in Nat
    BY ByteSeq
  <2>2. /\ N \in Nat \ {0} /\ p \in Nat \ {0} /\ s.i \in 0 .. N /\ s.mem \in [Address -> Byte]
        /\ s.bad \in BOOLEAN
    BY CMemAssumption DEF ReadState
  <2>. QED  BY <2>1, <2>2
<1>2. p \in 1 .. Len(chunk) + 2 /\ q \in 1 .. Len(chunk) + 2 /\ q <= Len(chunk) + 1 /\ 1 \in 1 .. Len(chunk) + 2
  BY <1>1
<1>3. run \in 0 .. 255 /\ l \in Nat /\ l = run + 1
  <2>. DEFINE o == p + 1
  <2>1. o \in 1 .. Len(chunk) /\ run = chunk[o]
    BY <1>1
  <2>. HIDE DEF o, run
  <2>2. run \in 0 .. 255
    BY <2>1, ByteSeq
  <2>. QED  BY <2>2
<1>4. /\ d \in Seq(Byte) /\ r \in Seq(Byte)
      /\ DiffFrom(chunk)[p] = z \o r /\ EndFrom(chunk)[p] = EndFrom(chunk)[q]
  <2>1. /\ DiffFrom(chunk)[1] \in Seq(Byte) /\ DiffFrom(chunk)[q] \in Seq(Byte)
        /\ d = DiffFrom(chunk)[1]
    BY <1>2, DifferencesFrom
  <2>2. DiffFrom(chunk)[p] = z \o r
    BY <1>1, <1>2, DifferencesFrom
  <2>3. EndFrom(chunk)[p] = EndFrom(chunk)[q]
    BY <1>1, <1>2, EndFromSteps
  <2>. QED  BY <2>1, <2>2, <2>3
<1>5. z \in Seq(Byte) /\ Len(z) = l /\ \A j \in 1 .. l : z[j] = 0
  BY <1>3, ZerosParts
<1>6. end \in Nat /\ end \in s.i .. N /\ end = (IF s.i + l < N THEN s.i + l ELSE N)
  <2>. HIDE DEF run, l
  <2>. QED  BY <1>1, <1>3
<1>7. t = [s EXCEPT !.at = q, !.i = end, !.mem = m]
  BY DEF RunRead, ReadState
<1>8. m \in [Address -> Byte]
  <2>. HIDE DEF end
  <2>. QED  BY <1>1, CMemAssumption
<1>9. q \in Nat \ {0}
  BY <1>1
<1>. HIDE DEF z, r, d, q, run, l, end, t
<1>10. /\ t \in ReadState /\ t.at = q /\ t.i = end /\ t.bad = s.bad
       /\ \A a \in Address : t.mem[a] = IF a \in s.i .. end - 1 THEN StoryFile[a] ELSE s.mem[a]
  <2>. HIDE DEF m
  <2>1. t \in ReadState /\ t.at = q /\ t.i = end /\ t.bad = s.bad /\ t.mem = m
    <3>1. s \in ReadState /\ q \in Nat \ {0} /\ end \in 0 .. N /\ m \in [Address -> Byte]
      BY <1>1, <1>6, <1>8, <1>9
    <3>. QED  BY <1>7, <3>1 DEF ReadState
  <2>. QED  BY <2>1 DEF m
<1>11. /\ Follows(z \o r, d, n)
       /\ EndFrom(chunk)[p] = EndFrom(chunk)[1]
       /\ s.i = (IF n < N THEN n ELSE N)
       /\ (\A a \in 0 .. s.i - 1 : s.mem[a] = Xor(d[a + 1], StoryFile[a]))
  BY <1>4 DEF HasRead, d
<1>12. Follows(r, d, n + l) /\ \A j \in 1 .. l : d[n + j] = z[j]
  <2>1. d \in Seq(Byte)
    BY <1>4
  <2>2. z \in Seq(Byte)
    BY <1>5
  <2>3. r \in Seq(Byte)
    BY <1>4
  <2>4. Follows(z \o r, d, n)
    BY <1>11
  <2>. HIDE DEF m
  <2>5. Follows(r, d, n + Len(z)) /\ \A j \in 1 .. Len(z) : d[n + j] = z[j]
    BY <2>1, <2>2, <2>3, <2>4, Suffix
  <2>6. Len(z) = l
    BY <1>5
  <2>. QED  BY <2>5, <2>6
<1>13. n + l \in Nat /\ end = (IF n + l < N THEN n + l ELSE N)
  BY <1>1, <1>3, <1>6, <1>11
<1>14. \A a \in 0 .. end - 1 : t.mem[a] = Xor(d[a + 1], StoryFile[a])
  <2>. SUFFICES ASSUME NEW a \in 0 .. end - 1
                PROVE  t.mem[a] = Xor(d[a + 1], StoryFile[a])
    OBVIOUS
  <2>1. a \in Address /\ a \in 0 .. end - 1
    BY <1>1, <1>6 DEF Address
  <2>2. CASE a \in s.i .. end - 1
    <3>. DEFINE j == a + 1 - n
    <3>1. s.i = n
      BY <1>1, <1>6, <1>11, <2>2
    <3>2. j \in 1 .. l /\ n + j = a + 1
      BY <1>1, <1>3, <1>6, <1>13, <2>2, <3>1
    <3>. HIDE DEF j
    <3>3. d[a + 1] = 0
      BY <1>5, <1>12, <3>2
    <3>4. StoryFile[a] \in Byte
      BY <2>1, CMemAssumption
    <3>5. Xor(0, StoryFile[a]) = StoryFile[a]
      <4>1. 0 \in Byte
        BY DEF Byte
      <4>. QED  BY <3>4, <4>1, XorLaws
    <3>. QED  BY <1>10, <2>1, <2>2, <3>3, <3>5
  <2>3. CASE ~ (a \in s.i .. end - 1)
    <3>1. a \in 0 .. s.i - 1
      BY <1>1, <1>6, <2>1, <2>3
    <3>2. t.mem[a] = s.mem[a]
      BY <1>10, <2>1, <2>3
    <3>. QED  BY <1>11, <3>1, <3>2
  <2>. QED  BY <2>2, <2>3
<1>15. EndFrom(chunk)[q] = EndFrom(chunk)[1]
  BY <1>4, <1>11
<1>16. HasRead(chunk, t, n + l)
  BY <1>2, <1>10, <1>12, <1>13, <1>14, <1>15 DEF HasRead, d, r
<1>. QED  BY <1>10, <1>16 DEF t, q, l, run

\* One step of the loop over a chunk.
LEMMA ReadStep ==
  ASSUME NEW chunk \in Seq(Byte), NEW k \in Nat, NEW s, Reads(chunk, s, k)
  PROVE  Reads(chunk, NextRead(chunk, s), k + 1)
<1>. DEFINE x == chunk[s.at]
            N == h_restart_size
<1>1. s \in ReadState /\ s.at \in Nat \ {0} /\ s.bad \in BOOLEAN /\ Len(chunk) \in Nat /\ N \in Nat \ {0}
  BY ByteSeq, CMemAssumption DEF Reads, ReadState
<1>2. CASE s.bad
  <2>1. NextRead(chunk, s) = s
    BY <1>2 DEF NextRead
  <2>. QED  BY <1>2, <2>1 DEF Reads
<1>3. CASE ~ s.bad
  <2>1. PICK n \in Nat : HasRead(chunk, s, n)
    BY <1>3 DEF Reads
  <2>2. s.at > k \/ s.at > Len(chunk)
    BY <1>3 DEF Reads
  <2>3. CASE s.at > Len(chunk)
    <3>1. NextRead(chunk, s) = s
      BY <2>3 DEF NextRead
    <3>. QED  BY <1>1, <1>3, <2>1, <2>3, <3>1 DEF Reads
  <2>4. CASE s.at <= Len(chunk) /\ x = 0 /\ s.at = Len(chunk)
    <3>. DEFINE t == [s EXCEPT !.bad = TRUE]
    <3>1. NextRead(chunk, s) = t
      BY <1>1, <1>3, <2>4 DEF NextRead
    <3>2. t \in ReadState /\ t.bad = TRUE
      BY <1>1 DEF ReadState
    <3>3. /\ s.at \in 1 .. Len(chunk) + 2 /\ s.at + 2 \in 1 .. Len(chunk) + 2
          /\ s.at + 2 > Len(chunk) /\ s.at + 2 = Len(chunk) + 2
      BY <1>1, <2>4
    <3>4. EndFrom(chunk)[s.at] = EndFrom(chunk)[s.at + 2]
      BY <2>4, <3>3, EndFromSteps
    <3>5. EndFrom(chunk)[s.at + 2] = s.at + 2
      BY <3>3, EndFromSteps
    <3>6. EndFrom(chunk)[1] = Len(chunk) + 2
      BY <2>1, <3>3, <3>4, <3>5 DEF HasRead
    <3>7. CutShort(chunk)
      <4>1. EndFrom(chunk)[1] > Len(chunk) + 1
        BY <1>1, <3>6
      <4>2. CutShort(chunk) = (EndFrom(chunk)[1] > Len(chunk) + 1)
        BY EndFromSteps
      <4>. QED  BY <4>1, <4>2
    <3>8. ~ Whole(chunk)
      BY <3>7 DEF Whole
    <3>. QED  BY <3>1, <3>2, <3>8 DEF Reads
  <2>5. CASE s.at <= Len(chunk) /\ x = 0 /\ s.at # Len(chunk)
    <3>. DEFINE run == chunk[s.at + 1]
                t == RunRead(s, run)
    <3>1. NextRead(chunk, s) = t
      BY <1>1, <1>3, <2>5 DEF NextRead
    <3>2. s.at < Len(chunk)
      BY <1>1, <2>5
    <3>3. /\ t \in ReadState /\ t.at = s.at + 2 /\ t.bad = s.bad
          /\ HasRead(chunk, t, n + (run + 1))
      BY <1>1, <2>1, <2>5, <3>2, RunIsRead
    <3>4. run \in 0 .. 255
      <4>1. s.at + 1 \in 1 .. Len(chunk)
        BY <1>1, <3>2
      <4>. QED  BY <4>1, ByteSeq
    <3>. HIDE DEF t, run
    <3>5. n + (run + 1) \in Nat
      BY <3>4
    <3>6. t.at > k + 1 \/ t.at > Len(chunk)
      BY <1>1, <2>2, <2>5, <3>3
    <3>. QED  BY <1>3, <3>1, <3>3, <3>5, <3>6 DEF Reads
  <2>6. CASE s.at <= Len(chunk) /\ x # 0
    <3>. DEFINE t == [s EXCEPT !.at = @ + 1, !.i = @ + 1, !.mem[s.i] = Xor(x, StoryFile[s.i])]
                b == [s EXCEPT !.bad = TRUE]
    <3>1. IF s.i = N THEN ~ Whole(chunk) ELSE t \in ReadState /\ HasRead(chunk, t, n + 1)
      BY <1>1, <2>1, <2>6, ByteRead
    <3>2. CASE s.i = N
      <4>1. NextRead(chunk, s) = b
        BY <1>1, <1>3, <2>6, <3>2 DEF NextRead
      <4>2. b \in ReadState /\ b.bad = TRUE
        BY <1>1 DEF ReadState
      <4>. QED  BY <3>1, <3>2, <4>1, <4>2 DEF Reads
    <3>3. CASE s.i # N
      <4>1. NextRead(chunk, s) = t
        BY <1>1, <1>3, <2>6, <3>3 DEF NextRead
      <4>2. t.at = s.at + 1 /\ t.bad = s.bad
        BY <1>1 DEF ReadState
      <4>3. t \in ReadState /\ HasRead(chunk, t, n + 1)
        BY <3>1, <3>3
      <4>. HIDE DEF t
      <4>4. t.at > k + 1 \/ t.at > Len(chunk)
        BY <1>1, <2>2, <2>6, <4>2
      <4>. QED  BY <1>3, <4>1, <4>2, <4>3, <4>4 DEF Reads
    <3>. QED  BY <3>2, <3>3
  <2>. QED  BY <1>1, <2>3, <2>4, <2>5, <2>6
<1>. QED  BY <1>2, <1>3
IsReading(after, chunk, mem) ==
    after = [k \in 0 .. Len(chunk) |->
               IF k = 0 THEN ReadingFrom(mem) ELSE NextRead(chunk, after[k - 1])]

\* What has been read of a chunk after k steps.
ReadAt(chunk, mem) == CHOOSE after : IsReading(after, chunk, mem)

\* A step goes from states to states.
LEMMA NextReadState ==
  ASSUME NEW chunk \in Seq(Byte), NEW s \in ReadState
  PROVE  NextRead(chunk, s) \in ReadState
<1>. DEFINE N == h_restart_size
            p == s.at
            x == chunk[p]
<1>1. /\ N \in Nat \ {0} /\ p \in Nat \ {0} /\ s.i \in 0 .. N /\ s.mem \in [Address -> Byte]
      /\ s.bad \in BOOLEAN /\ Len(chunk) \in Nat
  <2>1. Len(chunk) \in Nat
    BY ByteSeq
  <2>2. N \in Nat \ {0}
    BY CMemAssumption
  <2>. QED  BY <2>1, <2>2 DEF ReadState
<1>2. CASE s.bad \/ p > Len(chunk)
  BY <1>2 DEF NextRead
<1>3. CASE ~ (s.bad \/ p > Len(chunk))
  <2>1. p \in 1 .. Len(chunk)
    BY <1>1, <1>3
  <2>2. [s EXCEPT !.bad = TRUE] \in ReadState
    BY <1>1 DEF ReadState
  <2>3. CASE x = 0
    <3>1. CASE p = Len(chunk)
      BY <1>3, <2>2, <2>3, <3>1 DEF NextRead
    <3>2. CASE p # Len(chunk)
      <4>. DEFINE o == p + 1
                  run == chunk[o]
                  end == IF s.i + run + 1 < N THEN s.i + run + 1 ELSE N
                  m == [a \in Address |-> IF a \in s.i .. end - 1 THEN StoryFile[a] ELSE s.mem[a]]
      <4>1. o \in 1 .. Len(chunk)
        BY <1>1, <2>1, <3>2
      <4>2. NextRead(chunk, s) = [s EXCEPT !.at = p + 2, !.i = end, !.mem = m]
        BY <1>1, <1>3, <2>3, <3>2 DEF NextRead, RunRead, ReadState
      <4>. HIDE DEF o
      <4>3. run \in 0 .. 255
        BY <4>1, ByteSeq
      <4>. HIDE DEF run
      <4>4. end \in 0 .. N
        <5>. DEFINE first == s.i
        <5>1. first \in 0 .. N /\ N \in Nat
          BY <1>1
        <5>2. end = IF first + run + 1 < N THEN first + run + 1 ELSE N
          OBVIOUS
        <5>. HIDE DEF first, end
        <5>. QED  BY <4>3, <5>1, <5>2
      <4>. HIDE DEF end
      <4>5. m \in [Address -> Byte]
        BY <1>1, CMemAssumption
      <4>. HIDE DEF m
      <4>6. p + 2 \in Nat \ {0}
        BY <1>1
      <4>. QED  BY <4>2, <4>4, <4>5, <4>6 DEF ReadState
    <3>. QED  BY <3>1, <3>2
  <2>4. CASE x # 0
    <3>1. CASE s.i = N
      BY <1>3, <2>2, <2>4, <3>1 DEF NextRead
    <3>2. CASE s.i # N
      <4>. DEFINE m == [s.mem EXCEPT ![s.i] = Xor(x, StoryFile[s.i])]
                  i == s.i + 1
      <4>1. NextRead(chunk, s) = [s EXCEPT !.at = p + 1, !.i = i, !.mem = m]
        BY <1>1, <1>3, <2>4, <3>2 DEF NextRead, ReadState
      <4>2. x \in Byte
        BY <2>1, ByteSeq
      <4>3. s.i \in Address /\ i \in 0 .. N
        BY <1>1, <3>2 DEF Address
      <4>4. StoryFile[s.i] \in Byte
        BY <4>3, CMemAssumption
      <4>5. Xor(x, StoryFile[s.i]) \in Byte
        BY <4>2, <4>4, XorLaws
      <4>6. m \in [Address -> Byte]
        BY <1>1, <4>5
      <4>. HIDE DEF m, i
      <4>7. p + 1 \in Nat \ {0}
        BY <1>1
      <4>. QED  BY <4>1, <4>3, <4>6, <4>7 DEF ReadState
    <3>. QED  BY <3>1, <3>2
  <2>. QED  BY <2>3, <2>4
<1>. QED  BY <1>2, <1>3

LEMMA ReadingExists ==
  ASSUME NEW chunk \in Seq(Byte), NEW mem \in [Address -> Byte]
  PROVE  IsReading(ReadAt(chunk, mem), chunk, mem)
<1>. DEFINE D == 0 .. Len(chunk)
            V == ReadState
            rank == [k \in D |-> k]
            start == ReadingFrom(mem)
            body(f, k) == IF k = 0 THEN start ELSE NextRead(chunk, f[k - 1])
            step == [k \in D |-> [f \in [D -> V] |-> body(f, k)]]
            bound == Len(chunk) + 1
<1>1. Len(chunk) \in Nat /\ bound \in Nat /\ rank \in [D -> Nat] /\ (\A k \in D : rank[k] < bound)
  <2>1. Len(chunk) \in Nat
    BY ByteSeq
  <2>. QED  BY <2>1
<1>2. start \in V
  <2>1. 0 \in 0 .. h_restart_size
    BY CMemAssumption
  <2>. QED  BY <2>1 DEF ReadingFrom, ReadState
<1>3. \A k \in D : k # 0 => k - 1 \in D /\ rank[k - 1] < rank[k]
  BY <1>1
<1>. HIDE DEF rank, bound, start
<1>5. \A k \in D : \A f \in [D -> V] : body(f, k) \in V
  BY <1>2, <1>3, NextReadState
<1>6. \A k \in D : \A f, g \in [D -> V] :
        (\A j \in D : rank[j] < rank[k] => f[j] = g[j]) => body(f, k) = body(g, k)
  <2>. HIDE DEF V
  <2>. QED  BY <1>3
<1>7. \A k \in D : \A f \in [D -> V] : step[k][f] = body(f, k)
  OBVIOUS
<1>. HIDE DEF body, V
<1>8. step \in [D -> [[D -> V] -> V]]
  BY <1>5
<1>. HIDE DEF step
<1>9. Descends(D, V, rank, bound, step)
  <2>. HIDE DEF D
  <2>1. \A k \in D : \A f, g \in [D -> V] :
          (\A j \in D : rank[j] < rank[k] => f[j] = g[j]) => step[k][f] = step[k][g]
    <3>. SUFFICES ASSUME NEW k \in D, NEW f \in [D -> V], NEW g \in [D -> V],
                         \A j \in D : rank[j] < rank[k] => f[j] = g[j]
                  PROVE  step[k][f] = step[k][g]
      OBVIOUS
    <3>1. body(f, k) = body(g, k)
      BY <1>6
    <3>. QED  BY <1>7, <3>1
  <2>. QED  BY <1>1, <1>2, <1>8, <2>1 DEF Descends
<1>10. PICK f \in [D -> V] : \A k \in D : f[k] = body(f, k)
  <2>. HIDE DEF D
  <2>. QED  BY <1>7, <1>9, RecursiveFunction
<1>11. f = [k \in D |-> body(f, k)]
  BY <1>10
<1>12. IsReading(f, chunk, mem)
  BY <1>11 DEF IsReading, body, start
<1>. QED  BY <1>12 DEF ReadAt

\* What restore_quetzal makes of a chunk: the memory the chunk stands for, and it
\* refuses none that is whole.
LEMMA ReadMeans ==
  ASSUME NEW chunk \in Seq(Byte), NEW mem \in [Address -> Byte]
  PROVE  /\ Read(chunk, mem).bad \in BOOLEAN
         /\ Read(chunk, mem).mem \in [Address -> Byte]
         /\ Read(chunk, mem).bad => ~ Whole(chunk)
         /\ ~ Read(chunk, mem).bad => Read(chunk, mem).mem = Meant(chunk)
<1>. DEFINE u == ReadAt(chunk, mem)
            l == Len(chunk)
            N == h_restart_size
            start == ReadingFrom(mem)
            S == {k \in Nat : k <= l => Reads(chunk, u[k], k)}
            d == Differences(chunk)
            s == u[l]
            got == [a \in Address |-> IF a >= s.i THEN StoryFile[a] ELSE s.mem[a]]
<1>1. Read(chunk, mem) = [bad |-> s.bad, mem |-> got]
  BY DEF Read, ReadAt, IsReading
<1>2. l \in Nat /\ N \in Nat \ {0}
  BY ByteSeq, CMemAssumption
<1>3. \A k \in 0 .. l : u[k] = IF k = 0 THEN start ELSE NextRead(chunk, u[k - 1])
  <2>. DEFINE body(f, k) == IF k = 0 THEN start ELSE NextRead(chunk, f[k - 1])
  <2>1. IsReading(u, chunk, mem)
    BY ReadingExists
  <2>. HIDE DEF u, l
  <2>2. u = [k \in 0 .. l |-> body(u, k)]
    BY <2>1 DEF IsReading, l
  <2>. HIDE DEF body
  <2>3. \A k \in 0 .. l : u[k] = body(u, k)
    BY <2>2
  <2>. QED  BY <2>3 DEF body
<1>. HIDE DEF u
<1>4. Reads(chunk, start, 0)
  <2>1. start.at = 1 /\ start.i = 0 /\ start.bad = FALSE /\ start \in ReadState
    <3>1. 0 \in 0 .. N
      BY <1>2
    <3>. QED  BY <3>1 DEF ReadingFrom, ReadState
  <2>. HIDE DEF start
  <2>2. 1 \in 1 .. l + 2 /\ 1 <= l + 1
    BY <1>2
  <2>3. d = DiffFrom(chunk)[1] /\ d \in Seq(Byte)
    BY <2>2, DifferencesFrom
  <2>. HIDE DEF d, l
  <2>4. Follows(d, d, 0)
    <3>1. Len(d) \in Nat
      BY <2>3, ByteSeq
    <3>2. Len(d) = 0 + Len(d)
      BY <3>1
    <3>3. \A j \in 1 .. Len(d) : 0 + j = j
      BY <3>1
    <3>4. \A j \in 1 .. Len(d) : d[0 + j] = d[j]
      BY <3>3
    <3>. QED  BY <3>2, <3>4 DEF Follows
  <2>5. HasRead(chunk, start, 0)
    BY <1>2, <2>1, <2>2, <2>3, <2>4 DEF HasRead, d, l
  <2>. QED  BY <2>1, <2>5 DEF Reads
<1>. HIDE DEF start
<1>5. ASSUME NEW k \in Nat, 0 .. k - 1 \subseteq S  PROVE k \in S
  <2>. HIDE DEF l
  <2>. SUFFICES ASSUME k <= l  PROVE Reads(chunk, u[k], k)
    OBVIOUS
  <2>0. k \in 0 .. l
    BY <1>2
  <2>1. CASE k = 0
    <3>1. u[k] = start
      BY <1>3, <2>0, <2>1
    <3>. QED  BY <1>4, <2>1, <3>1
  <2>2. CASE k # 0
    <3>. DEFINE j == k - 1
    <3>1. j \in Nat /\ j \in 0 .. k - 1 /\ j <= l /\ j + 1 = k
      BY <1>2, <2>0, <2>2
    <3>2. u[k] = NextRead(chunk, u[j])
      BY <1>3, <2>0, <2>2, Zenon
    <3>. HIDE DEF j
    <3>3. Reads(chunk, u[j], j)
      BY <1>5, <3>1
    <3>4. Reads(chunk, NextRead(chunk, u[j]), j + 1)
      BY <3>1, <3>3, ReadStep
    <3>. QED  BY <3>1, <3>2, <3>4
  <2>. QED  BY <2>1, <2>2
<1>6. Reads(chunk, s, l)
  <2>. HIDE DEF S, l
  <2>1. l \in S
    BY <1>2, <1>5, Ladder
  <2>. QED  BY <1>2, <2>1 DEF S
<1>. HIDE DEF s, l
<1>7. s.bad \in BOOLEAN /\ s.i \in 0 .. N /\ s.mem \in [Address -> Byte] /\ s.at \in Nat \ {0}
  BY <1>6 DEF Reads, ReadState
<1>8. got \in [Address -> Byte]
  BY <1>7, CMemAssumption
<1>9. s.bad => ~ Whole(chunk)
  BY <1>6 DEF Reads
<1>10. ASSUME ~ s.bad  PROVE got = Meant(chunk)
  <2>1. PICK n \in Nat : HasRead(chunk, s, n)
    BY <1>6, <1>10 DEF Reads
  <2>2. s.at > l /\ s.at <= l + 1
    BY <1>2, <1>6, <1>7, <1>10, <2>1 DEF Reads, HasRead, l
  <2>3. s.at = l + 1 /\ l + 1 \in 1 .. Len(chunk) + 2 /\ l + 1 > Len(chunk)
    BY <1>2, <1>7, <2>2 DEF l
  <2>4. DiffFrom(chunk)[s.at] = <<>>
    BY <2>3, DifferencesFrom
  <2>5. /\ Len(d) = n
        /\ s.i = (IF n < N THEN n ELSE N)
        /\ \A a \in 0 .. s.i - 1 : s.mem[a] = Xor(d[a + 1], StoryFile[a])
    <3>1. Follows(<<>>, d, n)
      BY <2>1, <2>4 DEF HasRead
    <3>2. Len(d) = n
      BY <3>1 DEF Follows
    <3>. QED  BY <2>1, <3>2 DEF HasRead
  <2>. HIDE DEF d
  <2>6. \A a \in Address : (IF a >= s.i THEN StoryFile[a] ELSE s.mem[a])
                           = IF a < Len(d) THEN Xor(d[a + 1], StoryFile[a]) ELSE StoryFile[a]
    <3>. SUFFICES ASSUME NEW a \in Address
                  PROVE  (IF a >= s.i THEN StoryFile[a] ELSE s.mem[a])
                         = IF a < Len(d) THEN Xor(d[a + 1], StoryFile[a]) ELSE StoryFile[a]
      OBVIOUS
    <3>1. a \in 0 .. N - 1
      BY DEF Address
    <3>2. CASE a >= s.i
      <4>1. ~ (a < Len(d))
        BY <1>2, <2>5, <3>1, <3>2
      <4>. QED  BY <3>2, <4>1
    <3>3. CASE ~ (a >= s.i)
      <4>1. a < Len(d) /\ a \in 0 .. s.i - 1
        BY <1>2, <1>7, <2>5, <3>1, <3>3
      <4>. QED  BY <2>5, <3>3, <4>1
    <3>. QED  BY <3>2, <3>3
  <2>. QED  BY <2>6 DEF Meant, d
<1>. HIDE DEF got
<1>. QED  BY <1>1, <1>7, <1>8, <1>9, <1>10
LEMMA MeantTyped ==
  ASSUME NEW chunk \in Seq(Byte)
  PROVE  Meant(chunk) \in [Address -> Byte]
<1>. DEFINE d == Differences(chunk)
            l == Len(d)
<1>1. d \in Seq(Byte)
  <2>1. 1 \in 1 .. Len(chunk) + 2
    BY ByteSeq
  <2>. QED  BY <2>1, DifferencesFrom
<1>2. l \in Nat /\ \A i \in 1 .. l : d[i] \in Byte
  BY <1>1, ByteSeq
<1>. HIDE DEF d, l
<1>3. ASSUME NEW a \in Address
      PROVE  (IF a < l THEN Xor(d[a + 1], StoryFile[a]) ELSE StoryFile[a]) \in Byte
  <2>0. StoryFile[a] \in Byte
    BY CMemAssumption
  <2>1. CASE a < l
    <3>. DEFINE i == a + 1
    <3>1. i \in 1 .. l
      BY <1>2, <2>1, CMemAssumption DEF Address
    <3>. HIDE DEF i
    <3>2. d[i] \in Byte
      BY <1>2, <3>1
    <3>3. Xor(d[i], StoryFile[a]) \in Byte
      BY <2>0, <3>2, XorLaws
    <3>. QED  BY <2>1, <3>3 DEF i
  <2>2. CASE ~ (a < l)
    BY <2>0, <2>2
  <2>. QED  BY <2>1, <2>2
<1>4. Meant(chunk) = [a \in Address |-> IF a < l THEN Xor(d[a + 1], StoryFile[a]) ELSE StoryFile[a]]
  BY DEF Meant, d, l
<1>. QED  BY <1>3, <1>4

-----------------------------------------------------------------------------
(* The scripting bit *)

\* Setting the bit of one byte, and reading it.
LEMMA BitOfByte ==
  ASSUME NEW x \in Byte, NEW bit \in {0, 1}
  PROVE  /\ x % 2 \in {0, 1}
         /\ (x \div 2) * 2 + bit \in Byte
         /\ ((x \div 2) * 2 + bit) % 2 = bit
         /\ ((x \div 2) * 2 + bit) \div 2 = x \div 2
         /\ x % 2 = bit => (x \div 2) * 2 + bit = x
BY DEF Byte

LEMMA WithBitLaws ==
  ASSUME NEW mem \in [Address -> Byte], NEW bit \in {0, 1}
  PROVE  /\ ScriptingBit(mem) \in {0, 1}
         /\ WithBit(mem, bit) \in [Address -> Byte]
         /\ ScriptingBit(WithBit(mem, bit)) = bit
         /\ WithBit(mem, bit)[H_FLAGS] \div 2 = mem[H_FLAGS] \div 2
         /\ \A a \in Address \ {H_FLAGS} : WithBit(mem, bit)[a] = mem[a]
<1>. DEFINE x == mem[H_FLAGS]
            y == (x \div 2) * 2 + bit
<1>1. H_FLAGS \in Address /\ x \in Byte
  BY GameFilesAssumption
<1>2. WithBit(mem, bit) = [mem EXCEPT ![H_FLAGS] = y]
  BY DEF WithBit
<1>3. x % 2 \in {0, 1} /\ y \in Byte /\ y % 2 = bit /\ y \div 2 = x \div 2
  BY <1>1, BitOfByte
<1>4. ScriptingBit(mem) = x % 2 /\ ScriptingBit(WithBit(mem, bit)) = WithBit(mem, bit)[H_FLAGS] % 2
  BY DEF ScriptingBit
<1>. HIDE DEF y
<1>5. /\ WithBit(mem, bit) \in [Address -> Byte] /\ WithBit(mem, bit)[H_FLAGS] = y
      /\ \A a \in Address \ {H_FLAGS} : WithBit(mem, bit)[a] = mem[a]
  BY <1>1, <1>2, <1>3
<1>. HIDE DEF x
<1>. QED  BY <1>3, <1>4, <1>5 DEF x

\* save clears the bit and puts it back, and the memory is as it was.
LEMMA SaveKeepsMemory ==
  ASSUME NEW mem \in [Address -> Byte]
  PROVE  (IF ScriptingBit(mem) = 1 THEN WithBit(WithBit(mem, 0), 1) ELSE WithBit(mem, 0)) = mem
<1>1. ScriptingBit(mem) \in {0, 1} /\ H_FLAGS \in Address /\ mem[H_FLAGS] \in Byte
  BY WithBitLaws, GameFilesAssumption
<1>2. WithBit(mem, 0) \in [Address -> Byte]
  BY WithBitLaws
<1>3. CASE ScriptingBit(mem) = 0
  <2>1. (mem[H_FLAGS] \div 2) * 2 + 0 = mem[H_FLAGS]
    BY <1>1, <1>3, BitOfByte DEF ScriptingBit
  <2>2. WithBit(mem, 0) = [mem EXCEPT ![H_FLAGS] = mem[H_FLAGS]]
    BY <2>1 DEF WithBit
  <2>3. WithBit(mem, 0) = mem
    BY <2>2
  <2>. QED  BY <1>3, <2>3
<1>4. CASE ScriptingBit(mem) = 1
  <2>. DEFINE m == WithBit(mem, 0)
              w == WithBit(m, 1)
  <2>1. (mem[H_FLAGS] \div 2) * 2 + 1 = mem[H_FLAGS]
    BY <1>1, <1>4, BitOfByte DEF ScriptingBit
  <2>2. m[H_FLAGS] \div 2 = mem[H_FLAGS] \div 2 /\ \A a \in Address \ {H_FLAGS} : m[a] = mem[a]
    BY WithBitLaws
  <2>3. w \in [Address -> Byte] /\ \A a \in Address \ {H_FLAGS} : w[a] = m[a]
    BY <1>2, WithBitLaws
  <2>4. w[H_FLAGS] = (m[H_FLAGS] \div 2) * 2 + 1
    BY <1>1, <1>2 DEF WithBit
  <2>. HIDE DEF m, w
  <2>5. w[H_FLAGS] = mem[H_FLAGS]
    BY <2>1, <2>2, <2>4
  <2>6. \A a \in Address : w[a] = mem[a]
    BY <2>2, <2>3, <2>5
  <2>7. w = mem
    BY <2>3, <2>6
  <2>. QED  BY <1>4, <2>7 DEF w, m
<1>. QED  BY <1>1, <1>3, <1>4

\* What restart_interp leaves of the memory it is given.
LEMMA RestartLaws ==
  ASSUME NEW mem \in [Address -> Byte], NEW bit \in {0, 1}
  PROVE  /\ restart_interp(mem, bit) \in [Address -> Byte]
         /\ restart_interp(mem, bit)[H_SCREEN_COLUMNS] = screen_cols
         /\ \A a \in Address \ {H_FLAGS, H_SCREEN_COLUMNS} : restart_interp(mem, bit)[a] = mem[a]
         /\ restart_interp(mem, bit)[H_FLAGS] \div 2 = mem[H_FLAGS] \div 2
         /\ ScriptingBit(restart_interp(mem, bit)) = IF bit = 1 THEN 1 ELSE ScriptingBit(mem)
<1>. DEFINE m == IF bit = 1 THEN WithBit(mem, 1) ELSE mem
            w == restart_interp(mem, bit)
<1>1. /\ H_FLAGS \in Address /\ H_SCREEN_COLUMNS \in Address /\ H_FLAGS # H_SCREEN_COLUMNS
      /\ screen_cols \in Byte
  BY GameFilesAssumption
<1>2. w = [m EXCEPT ![H_SCREEN_COLUMNS] = screen_cols]
  BY DEF restart_interp
<1>3. /\ m \in [Address -> Byte]
      /\ m[H_FLAGS] \div 2 = mem[H_FLAGS] \div 2
      /\ \A a \in Address \ {H_FLAGS} : m[a] = mem[a]
      /\ ScriptingBit(m) = IF bit = 1 THEN 1 ELSE ScriptingBit(mem)
  BY WithBitLaws
<1>. HIDE DEF m, w
<1>4. /\ w \in [Address -> Byte] /\ w[H_SCREEN_COLUMNS] = screen_cols
      /\ \A a \in Address \ {H_SCREEN_COLUMNS} : w[a] = m[a]
  BY <1>1, <1>2, <1>3
<1>5. w[H_FLAGS] = m[H_FLAGS]
  BY <1>1, <1>4
<1>6. ScriptingBit(w) = ScriptingBit(m)
  BY <1>5 DEF ScriptingBit
<1>. QED  BY <1>3, <1>4, <1>5, <1>6 DEF w
-----------------------------------------------------------------------------
(* The inductive invariant *)

\* The saved game is a chunk that stands for the memory kept beside it, and a whole
\* one if this interpreter wrote it.
FileMeans ==
    file # None =>
      /\ file.chunk \in Seq(Byte)
      /\ file.memory = Meant(file.chunk)
      /\ file.own => Whole(file.chunk)

\* A transcript that has no name has no characters, and an open one has a name.
TranscriptNamed ==
    /\ scripting \in BOOLEAN /\ script_file_valid \in BOOLEAN /\ script \in Nat
    /\ scripting => script_file_valid
    /\ ~ script_file_valid => script = 0

Inv == TypeOK /\ FileMeans /\ TranscriptNamed

LEMMA InitInv == Init => Inv
<1>. SUFFICES ASSUME Init  PROVE Inv
  OBVIOUS
<1>1. datap \in [Address -> Byte]
  BY RestartLaws, CMemAssumption DEF Init
<1>. QED  BY <1>1 DEF Init, Inv, TypeOK, FileMeans, TranscriptNamed

\* What is written by a save, and what is read by a restore, is memory.
LEMMA SavedGame ==
  ASSUME Inv
  PROVE  LET saved == WithBit(datap, 0) IN
         /\ saved \in [Address -> Byte]
         /\ ScriptingBit(saved) = 0
         /\ Written(saved) \in Seq(Byte)
         /\ Whole(Written(saved))
         /\ Meant(Written(saved)) = saved
         /\ AfterSave(ScriptingBit(datap)) = datap
<1>1. datap \in [Address -> Byte]
  BY DEF Inv, TypeOK
<1>2. WithBit(datap, 0) \in [Address -> Byte] /\ ScriptingBit(WithBit(datap, 0)) = 0
  BY <1>1, WithBitLaws
<1>3. /\ Written(WithBit(datap, 0)) \in Seq(Byte)
      /\ Whole(Written(WithBit(datap, 0)))
      /\ Meant(Written(WithBit(datap, 0))) = WithBit(datap, 0)
  BY <1>2, WrittenMeans
<1>4. AfterSave(ScriptingBit(datap)) = datap
  BY <1>1, SaveKeepsMemory DEF AfterSave
<1>. QED  BY <1>2, <1>3, <1>4

LEMMA RestoredGame ==
  ASSUME Inv, file # None
  PROVE  LET read == Read(file.chunk, WithBit(datap, 0)) IN
         /\ read.bad \in BOOLEAN /\ read.mem \in [Address -> Byte]
         /\ read.bad => ~ file.own /\ ~ Whole(file.chunk)
         /\ ~ read.bad => read.mem = file.memory
<1>. DEFINE read == Read(file.chunk, WithBit(datap, 0))
<1>1. datap \in [Address -> Byte] /\ file.chunk \in Seq(Byte)
      /\ file.memory = Meant(file.chunk) /\ (file.own => Whole(file.chunk))
  BY DEF Inv, TypeOK, FileMeans
<1>2. WithBit(datap, 0) \in [Address -> Byte]
  BY <1>1, WithBitLaws
<1>3. /\ read.bad \in BOOLEAN /\ read.mem \in [Address -> Byte]
      /\ read.bad => ~ Whole(file.chunk)
      /\ ~ read.bad => read.mem = Meant(file.chunk)
  BY <1>1, <1>2, ReadMeans
<1>. HIDE DEF read
<1>4. read.bad => ~ file.own
  BY <1>1, <1>3
<1>. QED  BY <1>1, <1>3, <1>4 DEF read

LEMMA TypeNext == Inv /\ [Next]_vars => TypeOK'
<1>. SUFFICES ASSUME Inv, [Next]_vars  PROVE TypeOK'
  OBVIOUS
<1>. USE DEF TypeOK
<1>0. /\ datap \in [Address -> Byte] /\ ScriptingBit(datap) \in {0, 1}
      /\ StoryFile \in [Address -> Byte]
      /\ WithBit(datap, 0) \in [Address -> Byte] /\ WithBit(datap, 1) \in [Address -> Byte]
  <2>1. datap \in [Address -> Byte]
    BY DEF Inv
  <2>. QED  BY <2>1, WithBitLaws, CMemAssumption
<1>1. CASE z_storeb
  <2>1. PICK w \in StoryWrites : datap' = [datap EXCEPT ![w[1]] = w[2]]
    BY <1>1 DEF z_storeb
  <2>2. w[2] \in Byte
    BY GameFilesAssumption
  <2>3. datap' \in [Address -> Byte]
    BY <1>0, <2>1, <2>2
  <2>. QED  BY <1>1, <2>3 DEF Inv, z_storeb, files
<1>2. CASE z_restart
  <2>1. datap' \in [Address -> Byte]
    BY <1>0, <1>2, RestartLaws DEF z_restart
  <2>. QED  BY <1>2, <2>1 DEF Inv, z_restart, files
<1>3. CASE z_save
  <2>1. /\ datap' = datap
        /\ \/ file' = file
           \/ file' = None
           \/ file' = [chunk |-> Written(WithBit(datap, 0)), memory |-> WithBit(datap, 0), own |-> TRUE]
    BY <1>3, SavedGame DEF z_save
  <2>2. file' # None => file'.chunk \in Seq(Byte)
    BY <2>1, SavedGame DEF Inv
  <2>. QED  BY <1>0, <1>3, <2>1, <2>2 DEF Inv, z_save
<1>4. CASE z_restore
  <2>1. CASE NotOpened
    BY <1>4, <2>1 DEF Inv, z_restore, NotOpened, files
  <2>2. CASE FileRead
    <3>. DEFINE read == Read(file.chunk, WithBit(datap, 0))
    <3>1. read.mem \in [Address -> Byte]
      BY <2>2, RestoredGame DEF FileRead
    <3>2. datap' = restart_interp(read.mem, ScriptingBit(datap)) /\ status' \in {"run", "fatal"}
      BY <2>2 DEF FileRead, Inv
    <3>. HIDE DEF read
    <3>3. datap' \in [Address -> Byte]
      BY <1>0, <3>1, <3>2, RestartLaws
    <3>. QED  BY <1>4, <3>2, <3>3 DEF Inv, z_restore, files
  <2>. QED  BY <1>4, <2>1, <2>2 DEF z_restore
<1>5. CASE ForeignFile
  <2>1. PICK chunk \in ForeignChunks :
          file' = [chunk |-> chunk, memory |-> Meant(chunk), own |-> FALSE]
    BY <1>5 DEF ForeignFile
  <2>2. file'.chunk \in Seq(Byte)
    BY <2>1, GameFilesAssumption
  <2>. QED  BY <1>5, <2>2 DEF Inv, ForeignFile
<1>6. CASE z_save_undo
  BY <1>0, <1>6 DEF Inv, z_save_undo, files
<1>7. CASE z_restore_undo
  BY <1>7 DEF Inv, z_restore_undo, files
<1>8. CASE z_save_aux
  BY <1>8 DEF Inv, z_save_aux
<1>9. CASE z_restore_aux
  BY <1>9 DEF Inv, z_restore_aux, files
<1>10. CASE \E type \in {2, -2} : z_output_stream(type)
  <2>1. datap' \in [Address -> Byte]
    BY <1>0, <1>10 DEF z_output_stream, open_script, close_script, BitFollows
  <2>. QED  BY <1>10, <2>1 DEF Inv, z_output_stream, files
<1>11. CASE script_char
  <2>1. datap' \in [Address -> Byte]
    BY <1>0, <1>11 DEF script_char, open_script, close_script, BitFollows
  <2>. QED  BY <1>11, <2>1 DEF Inv, script_char, files
<1>12. CASE UNCHANGED vars
  BY <1>12 DEF Inv, vars, files
<1>. QED  BY <1>1, <1>2, <1>3, <1>4, <1>5, <1>6, <1>7, <1>8, <1>9, <1>10, <1>11, <1>12 DEF Next

LEMMA FileNext == Inv /\ [Next]_vars => FileMeans'
<1>. SUFFICES ASSUME Inv, [Next]_vars  PROVE FileMeans'
  OBVIOUS
<1>1. CASE UNCHANGED file
  BY <1>1 DEF Inv, FileMeans
<1>2. CASE z_save
  <2>. DEFINE saved == WithBit(datap, 0)
  <2>1. CASE UNCHANGED file \/ file' = None
    BY <2>1 DEF Inv, FileMeans
  <2>2. CASE file' = [chunk |-> Written(saved), memory |-> saved, own |-> TRUE]
    <3>1. Written(saved) \in Seq(Byte) /\ Whole(Written(saved)) /\ Meant(Written(saved)) = saved
      BY SavedGame
    <3>2. file'.chunk = Written(saved) /\ file'.memory = saved
      BY <2>2
    <3>. HIDE DEF saved
    <3>. QED  BY <3>1, <3>2 DEF FileMeans
  <2>. QED  BY <1>2, <2>1, <2>2 DEF z_save
<1>3. CASE ForeignFile
  <2>1. PICK chunk \in ForeignChunks :
          file' = [chunk |-> chunk, memory |-> Meant(chunk), own |-> FALSE]
    BY <1>3 DEF ForeignFile
  <2>2. chunk \in Seq(Byte)
    BY GameFilesAssumption
  <2>3. file'.chunk = chunk /\ file'.memory = Meant(chunk) /\ file'.own = FALSE
    BY <2>1
  <2>. QED  BY <2>2, <2>3 DEF FileMeans
<1>4. CASE ~ (UNCHANGED file \/ z_save \/ ForeignFile)
  BY <1>4 DEF Next, vars, files, z_storeb, z_restart, z_restore, z_save_undo, z_restore_undo,
              z_save_aux, z_restore_aux, z_output_stream, script_char
<1>. QED  BY <1>1, <1>2, <1>3, <1>4

\* Only an open transcript grows, and one that is opened again is appended to.
LEMMA TranscriptNext == Inv /\ [Next]_vars => TranscriptNamed' /\ script' >= script
<1>. SUFFICES ASSUME Inv, [Next]_vars  PROVE TranscriptNamed' /\ script' >= script
  OBVIOUS
<1>0. TranscriptNamed
  BY DEF Inv
<1>1. CASE UNCHANGED transcript
  BY <1>0, <1>1 DEF TranscriptNamed, transcript
<1>2. ASSUME NEW printed \in {0, 1}, Opened(printed)
      PROVE  TranscriptNamed' /\ script' >= script
  BY <1>0, <1>2 DEF TranscriptNamed, Opened
<1>3. CASE close_script
  <2>1. scripting' = FALSE /\ script_file_valid' = script_file_valid /\ script' = script
    BY <1>3 DEF close_script
  <2>2. script' \in Nat /\ script' >= script
    BY <1>0, <2>1 DEF TranscriptNamed
  <2>3. ~ script_file_valid' => script' = 0
    BY <1>0, <2>1, Zenon DEF TranscriptNamed
  <2>. QED  BY <1>0, <2>1, <2>2, <2>3, Zenon DEF TranscriptNamed
<1>4. CASE scripting /\ script' = script + 1 /\ UNCHANGED <<scripting, script_file_valid>>
  BY <1>0, <1>4 DEF TranscriptNamed
<1>5. CASE \E type \in {2, -2} : z_output_stream(type)
  BY <1>1, <1>2, <1>3, <1>5 DEF z_output_stream, open_script
<1>6. CASE script_char
  BY <1>1, <1>2, <1>3, <1>4, <1>6 DEF script_char
<1>7. CASE ~ (\E type \in {2, -2} : z_output_stream(type)) /\ ~ script_char
  <2>1. UNCHANGED transcript
    BY <1>7 DEF Next, vars, z_storeb, z_restart, z_save, ForeignFile, z_restore, z_save_undo,
                z_restore_undo, z_save_aux, z_restore_aux, transcript
  <2>. QED  BY <1>1, <2>1
<1>. QED  BY <1>5, <1>6, <1>7

\* Inv is inductive: the types, what the file stands for, and the transcript's name.
THEOREM Invariance == Spec => []Inv
<1>1. Inv /\ [Next]_vars => Inv'
  BY TypeNext, FileNext, TranscriptNext DEF Inv
<1>. QED  BY <1>1, InitInv, PTL DEF Spec

\* Memory is bytes, and the file holds a chunk of bytes: whatever chunk z_restore reads,
\* whichever bits z_save clears and puts back, and whatever restart_interp sets.
THEOREM TypeCorrect == Spec => []TypeOK
<1>1. Inv => TypeOK
  BY DEF Inv
<1>. QED  BY <1>1, Invariance, PTL
-----------------------------------------------------------------------------
(* What the files give back *)

\* Whatever undo, restart, restore and the story do to the scripting bit, open_script
\* and script_char write over nothing in the transcript: for every story and any
\* order of its steps.
THEOREM NothingWrittenOver == Spec => TranscriptGoesOn
<1>1. Inv /\ [Next]_vars => [script' >= script]_vars
  BY TranscriptNext
<1>. QED  BY <1>1, Invariance, PTL DEF Spec, TranscriptGoesOn

\* save_quetzal and restore_quetzal are inverses: a chunk this interpreter writes of a
\* memory is read back as that memory, whatever the memory was before, for every story
\* file, every size of the memory and every length a run may have.
THEOREM ChunkGivesMemory ==
  \A mem, other \in [Address -> Byte] :
    Read(Written(mem), other) = [bad |-> FALSE, mem |-> mem]
<1>. SUFFICES ASSUME NEW mem \in [Address -> Byte], NEW other \in [Address -> Byte]
              PROVE  Read(Written(mem), other) = [bad |-> FALSE, mem |-> mem]
  OBVIOUS
<1>. DEFINE w == Written(mem)
            read == Read(w, other)
<1>1. w \in Seq(Byte) /\ Whole(w) /\ Meant(w) = mem
  BY WrittenMeans
<1>. HIDE DEF w
<1>2. read.bad = FALSE /\ read.mem = mem
  <2>1. /\ read.bad \in BOOLEAN
        /\ read.bad => ~ Whole(w)
        /\ ~ read.bad => read.mem = Meant(w)
    BY <1>1, ReadMeans
  <2>. QED  BY <1>1, <2>1
<1>3. read = [bad |-> read.bad, mem |-> read.mem]
  BY DEF Read
<1>. HIDE DEF read
<1>4. read = [bad |-> FALSE, mem |-> mem]
  BY <1>2, <1>3
<1>. QED  BY <1>4 DEF read, w

\* Each step says what it was.
LEMMA StepsAreNamed ==
  ASSUME Next
  PROVE  /\ did'.what = "save" => z_save
         /\ did'.what = "restart" => z_restart
         /\ did'.what = "restore" => z_restore /\ status = "run"
<1>1. z_storeb => did'.what = "storeb"
  BY DEF z_storeb, Did
<1>2. z_save_undo => did'.what = "save_undo"
  BY DEF z_save_undo, Did
<1>3. z_restore_undo => did'.what = "undo"
  BY DEF z_restore_undo, Did
<1>4. z_save_aux => did'.what = "save_aux"
  BY DEF z_save_aux, Did
<1>5. z_restore_aux => did'.what = "restore_aux"
  BY DEF z_restore_aux, Did
<1>6. (\E type \in {2, -2} : z_output_stream(type)) => did'.what = "stream"
  BY DEF z_output_stream, Did
<1>7. script_char => did'.what = "print"
  BY DEF script_char, Did
<1>8. ForeignFile => did'.what = "foreign_file"
  BY DEF ForeignFile, Did
<1>9. z_save => did'.what = "save"
  BY DEF z_save, Did
<1>10. z_restart => did'.what = "restart"
  BY DEF z_restart, Did
<1>11. z_restore => did'.what = "restore"
  BY DEF z_restore, NotOpened, FileRead, Did
<1>. QED
  BY <1>1, <1>2, <1>3, <1>4, <1>5, <1>6, <1>7, <1>8, <1>9, <1>10, <1>11 DEF Next

\* z_restore gives back every byte the chunk in the file stands for, except the byte
\* restart_interp sets and a scripting bit that was set: it refuses no game that was
\* saved here, and no whole one of another interpreter.
THEOREM RestoredAsSaved == Spec => RestoreGivesSaved
<1>. DEFINE Asked ==
       did'.what = "restore" /\ file # None =>
         /\ status' = "fatal" => ~ file.own /\ ~ Whole(file.chunk)
         /\ status' = "run" /\ did'.result = 2 =>
              /\ \A a \in Address \ {H_FLAGS, H_SCREEN_COLUMNS} : datap'[a] = file.memory[a]
              /\ datap'[H_SCREEN_COLUMNS] = screen_cols
              /\ datap'[H_FLAGS] \div 2 = file.memory[H_FLAGS] \div 2
              /\ (ScriptingBit(datap') = 1) =
                   (ScriptingBit(datap) = 1 \/ ScriptingBit(file.memory) = 1)
<1>1. Inv /\ Next => Asked
  <2>. SUFFICES ASSUME Inv, Next, did'.what = "restore", file # None
                PROVE  Asked
    OBVIOUS
  <2>1. z_restore /\ status = "run"
    BY StepsAreNamed
  <2>2. CASE NotOpened
    BY <2>1, <2>2 DEF NotOpened, Did
  <2>3. CASE FileRead
    <3>. DEFINE read == Read(file.chunk, WithBit(datap, 0))
                bit == ScriptingBit(datap)
    <3>1. /\ read.bad \in BOOLEAN /\ read.mem \in [Address -> Byte]
          /\ read.bad => ~ file.own /\ ~ Whole(file.chunk)
          /\ ~ read.bad => read.mem = file.memory
      BY RestoredGame
    <3>2. /\ datap' = restart_interp(read.mem, bit)
          /\ did'.result = (IF read.bad THEN 0 ELSE 2)
          /\ status' = (IF read.bad THEN "fatal" ELSE status)
      BY <2>3 DEF FileRead, Did
    <3>3. bit \in {0, 1}
      <4>1. datap \in [Address -> Byte]
        BY DEF Inv, TypeOK
      <4>. QED  BY <4>1, WithBitLaws
    <3>. HIDE DEF read, bit
    <3>4. CASE read.bad
      BY <3>1, <3>2, <3>4
    <3>5. CASE ~ read.bad
      <4>. DEFINE mem == file.memory
      <4>1. mem \in [Address -> Byte] /\ datap' = restart_interp(mem, bit) /\ status' = "run"
        BY <2>1, <3>1, <3>2, <3>5
      <4>. HIDE DEF mem
      <4>2. /\ datap'[H_SCREEN_COLUMNS] = screen_cols
            /\ \A a \in Address \ {H_FLAGS, H_SCREEN_COLUMNS} : datap'[a] = mem[a]
            /\ datap'[H_FLAGS] \div 2 = mem[H_FLAGS] \div 2
            /\ ScriptingBit(restart_interp(mem, bit)) = IF bit = 1 THEN 1 ELSE ScriptingBit(mem)
        BY <3>3, <4>1, RestartLaws
      <4>3. ScriptingBit(datap') = IF bit = 1 THEN 1 ELSE ScriptingBit(mem)
        BY <4>1, <4>2
      <4>4. (ScriptingBit(datap') = 1) = (bit = 1 \/ ScriptingBit(mem) = 1)
        BY <4>3
      <4>. QED  BY <4>1, <4>2, <4>4 DEF mem, bit
    <3>. QED  BY <3>4, <3>5
  <2>. QED  BY <2>1, <2>2, <2>3 DEF z_restore
<1>2. Inv /\ [Next]_vars => [Asked]_vars
  BY <1>1
<1>. HIDE DEF Asked
<1>3. Spec => [][Asked]_vars
  BY <1>2, Invariance, PTL DEF Spec
<1>. QED  BY <1>3 DEF RestoreGivesSaved, Asked

\* A story whose file has the scripting bit clear.
NoBitInStory == ScriptingBit(StoryFile) = 0

\* z_save leaves the memory as it was, though it clears the scripting bit while it
\* writes, and what it writes has the bit clear; z_restart keeps the bit, in a story that
\* has it clear in its file.
THEOREM BitKept == NoBitInStory => (Spec => ScriptingBitKept)
<1>. DEFINE Kept ==
       /\ did'.what = "save" => datap' = datap
       /\ did'.what = "restart" => ScriptingBit(datap') = ScriptingBit(datap)
       /\ did'.what = "save" /\ did'.result = 1 => ScriptingBit(Meant(file'.chunk)) = 0
<1>1. ASSUME NoBitInStory, Inv, Next  PROVE Kept
  <2>1. CASE did'.what = "save"
    <3>1. z_save
      BY <1>1, <2>1, StepsAreNamed
    <3>2. datap' = datap
      BY <1>1, <3>1, SavedGame DEF z_save
    <3>3. ASSUME did'.result = 1  PROVE ScriptingBit(Meant(file'.chunk)) = 0
      <4>. DEFINE saved == WithBit(datap, 0)
      <4>1. file' = [chunk |-> Written(saved), memory |-> saved, own |-> TRUE]
        BY <3>1, <3>3 DEF z_save, Did
      <4>2. Meant(Written(saved)) = saved /\ ScriptingBit(saved) = 0
        BY <1>1, SavedGame
      <4>3. file'.chunk = Written(saved)
        BY <4>1
      <4>. HIDE DEF saved
      <4>. QED  BY <4>2, <4>3
    <3>. QED  BY <2>1, <3>2, <3>3
  <2>2. CASE did'.what = "restart"
    <3>1. z_restart
      BY <1>1, <2>2, StepsAreNamed
    <3>. DEFINE bit == ScriptingBit(datap)
    <3>2. bit \in {0, 1}
      <4>1. datap \in [Address -> Byte]
        BY <1>1 DEF Inv, TypeOK
      <4>. QED  BY <4>1, WithBitLaws
    <3>3. datap' = restart_interp(StoryFile, bit)
      BY <3>1 DEF z_restart
    <3>. HIDE DEF bit
    <3>4. ScriptingBit(restart_interp(StoryFile, bit)) = IF bit = 1 THEN 1 ELSE ScriptingBit(StoryFile)
      BY <3>2, RestartLaws, CMemAssumption
    <3>5. ScriptingBit(datap') = bit
      BY <1>1, <3>2, <3>3, <3>4 DEF NoBitInStory
    <3>. QED  BY <2>2, <3>5 DEF bit
  <2>3. CASE did'.what # "save" /\ did'.what # "restart"
    BY <2>3
  <2>. QED  BY <2>1, <2>2, <2>3
<1>2. NoBitInStory /\ Inv /\ [Next]_vars => [Kept]_vars
  BY <1>1
<1>. HIDE DEF Kept
<1>3. ASSUME NoBitInStory  PROVE Spec => [][Kept]_vars
  <2>1. Inv /\ [Next]_vars => [Kept]_vars
    BY <1>2, <1>3
  <2>. QED  BY <2>1, Invariance, PTL DEF Spec
<1>. QED  BY <1>3 DEF ScriptingBitKept, Kept
=============================================================================
