-------------------------- MODULE Properties_proofs --------------------------
(***************************************************************************)
(* Proofs about Properties and Arithmetic: for every story whose lists are *)
(* as a compiler writes them and every sequence of property, table and     *)
(* computing instructions, results are words, copies are as asked, the     *)
(* laws of arithmetic hold, and the lists of bytes implement the lists of  *)
(* numbered properties.                                                    *)
(***************************************************************************)
EXTENDS Properties, TLAPS, Recursion, SequenceTheorems

-----------------------------------------------------------------------------
(* Words and division *)

\* Words of 16 bits.
AllWords == {a \in Nat : a < 65536}

\* A number that fits in 16 bits with a sign.
Short(n) == n \in Int /\ n >= -32768 /\ n < 32768

-----------------------------------------------------------------------------

\* What the proofs use of div and mod: the quotient and the remainder make the number,
LEMMA DivisionIs ==
  ASSUME NEW x \in Int, NEW y \in Nat, y > 0
  PROVE  /\ x \div y \in Int /\ x % y \in 0 .. y - 1
         /\ x = y * (x \div y) + (x % y)
OBVIOUS

\* and only they do.
LEMMA DivisionUnique ==
  ASSUME NEW x \in Int, NEW y \in Nat, NEW q \in Int, NEW r \in 0 .. y - 1,
         x = y * q + r
  PROVE  x \div y = q /\ x % y = r
<1>. DEFINE d == x \div y
            m == x % y
<1>1. d \in Int /\ m \in 0 .. y - 1 /\ x = y * d + m
  BY DivisionIs
<1>. HIDE DEF d, m
<1>2. d = q
  <2>1. CASE d > q
    <3>1. y * d >= y * q + y
      <4>1. y * (d - q - 1) >= 0
        BY <1>1, <2>1
      <4>. QED  BY <4>1, <1>1
    <3>. QED  BY <3>1, <1>1
  <2>2. CASE d < q
    <3>1. y * q >= y * d + y
      <4>1. y * (q - d - 1) >= 0
        BY <1>1, <2>2
      <4>. QED  BY <4>1, <1>1
    <3>. QED  BY <3>1, <1>1
  <2>. QED  BY <2>1, <2>2, <1>1
<1>3. m = r
  BY <1>1, <1>2
<1>. QED  BY <1>2, <1>3 DEF d, m

\* The conversion to zword_t is the remainder by 2^16, the same for numbers 2^16 apart;
\* a number of 16 bits with a sign becomes its two's complement.
LEMMA ZwordIs ==
  ASSUME NEW n \in Int
  PROVE  /\ zword_t(n) = n % 65536
         /\ zword_t(n) \in AllWords
         /\ \A k \in Int : zword_t(n + 65536 * k) = zword_t(n)
         /\ n \in AllWords => zword_t(n) = n
         /\ Short(n) => zword_t(n) = IF n < 0 THEN n + 65536 ELSE n
<1>. DEFINE d == n \div 65536
            m == n % 65536
<1>1. d \in Int /\ m \in Nat /\ m < 65536 /\ n = 65536 * d + m
  OBVIOUS
<1>2. \A k \in Int : (n + 65536 * k) % 65536 = n % 65536
  OBVIOUS
<1>3. n \in AllWords => n % 65536 = n
  BY DEF AllWords
<1>4. Short(n) => n % 65536 = IF n < 0 THEN n + 65536 ELSE n
  BY DEF Short
<1>5. n % 65536 \in AllWords
  BY DEF AllWords
<1>6. \A k \in Int : zword_t(k) = k % 65536
  BY DEF zword_t, WORD
<1>7. \A k \in Int : n + 65536 * k \in Int
  OBVIOUS
<1>. QED  BY <1>2, <1>3, <1>4, <1>5, <1>6, <1>7

\* ZINT16 undoes it.
LEMMA ZintIs ==
  /\ \A a \in AllWords : /\ ZINT16(a) = IF a >= 32768 THEN a - 65536 ELSE a
                      /\ Short(ZINT16(a))
                      /\ zword_t(ZINT16(a)) = a
  /\ \A n : Short(n) => ZINT16(n) = n /\ ZINT16(zword_t(n)) = n
<1>1. ASSUME NEW a \in AllWords
      PROVE  ZINT16(a) = IF a >= 32768 THEN a - 65536 ELSE a
  <2>1. a % 65536 = a
    BY DEF AllWords
  <2>. QED  BY <2>1 DEF ZINT16, WORD
<1>2. ASSUME NEW a \in AllWords
      PROVE  Short(ZINT16(a)) /\ zword_t(ZINT16(a)) = a
  <2>1. Short(ZINT16(a))
    BY <1>1 DEF AllWords, Short
  <2>. QED  BY <1>1, <2>1, ZwordIs DEF AllWords, Short
<1>3. ASSUME NEW n, Short(n)
      PROVE  ZINT16(n) = n
  <2>1. n \in Int /\ n % 65536 = IF n < 0 THEN n + 65536 ELSE n
    BY <1>3 DEF Short
  <2>. QED  BY <1>3, <2>1 DEF ZINT16, WORD, Short
<1>4. ASSUME NEW n, Short(n)
      PROVE  ZINT16(zword_t(n)) = n
  <2>1. n \in Int /\ zword_t(n) \in AllWords /\ zword_t(n) = IF n < 0 THEN n + 65536 ELSE n
    BY <1>4, ZwordIs DEF Short
  <2>. QED  BY <1>1, <1>4, <2>1 DEF Short
<1>. QED  BY <1>1, <1>2, <1>3, <1>4

-----------------------------------------------------------------------------

\* The int quotient and remainder of two numbers of 16 bits fit in 16 bits again, but for
\* -32768 / -1.
LEMMA QuotientsFit ==
  ASSUME NEW x \in Int, NEW y \in Int, Short(x), Short(y), y # 0,
         ~(x = -32768 /\ y = -1)
  PROVE  LET q == Quotient(x, y)
             r == Remainder(x, y)
         IN  /\ Short(q) /\ Short(r) /\ x = y * q + r
             /\ Magnitude(r) < Magnitude(y)
             /\ r # 0 => (r < 0) = (x < 0)
<1>. DEFINE mx == Magnitude(x)
            my == Magnitude(y)
            k == mx \div my
            m == mx % my
            q == Quotient(x, y)
            r == Remainder(x, y)
<1>1. /\ mx \in Nat /\ my \in Nat /\ my > 0
      /\ x = (IF x < 0 THEN -mx ELSE mx) /\ y = (IF y < 0 THEN -my ELSE my)
      /\ mx <= 32768 /\ my <= 32768
  BY DEF Magnitude, Short
<1>2. q = IF (x < 0) = (y < 0) THEN k ELSE -k
  BY DEF Quotient
<1>3. r = x - y * q
  BY DEF Remainder
<1>. HIDE DEF mx, my, q, r
<1>4. k \in Int /\ m \in Nat /\ m < my /\ mx = my * k + m
  BY <1>1
<1>. HIDE DEF k, m
<1>5. k \in Nat /\ k <= mx
  <2>1. k >= 0
    <3>1. SUFFICES ASSUME k <= -1  PROVE FALSE
      BY <1>4
    <3>2. my * k <= -my
      <4>1. my * (k + 1) <= 0
        BY <1>1, <1>4, <3>1
      <4>. QED  BY <4>1, <1>1, <1>4
    <3>. QED  BY <1>1, <1>4, <3>2
  <2>2. my * k >= k
    <3>1. (my - 1) * k >= 0
      BY <1>1, <1>4, <2>1
    <3>. QED  BY <3>1, <1>1, <1>4
  <2>. QED  BY <1>1, <1>4, <2>1, <2>2
<1>6. r = IF x < 0 THEN -m ELSE m
  <2>1. y * q = IF x < 0 THEN -(my * k) ELSE my * k
    <3>1. y * (-k) = -(y * k) /\ (-my) * k = -(my * k) /\ (-my) * (-k) = my * k
      BY <1>1, <1>4
    <3>. QED  BY <1>1, <1>2, <1>4, <3>1
  <2>. QED  BY <1>1, <1>3, <1>4, <2>1
<1>7. Short(q)
  <2>1. CASE mx < 32768
    BY <1>2, <1>5, <1>1, <2>1 DEF Short
  <2>2. CASE mx = 32768
    <3>1. x = -32768
      BY <1>1, <2>2 DEF Short
    <3>2. CASE my = 1
      <4>1. y = 1 /\ k = 32768
        BY <1>1, <1>4, <3>1, <3>2, <2>2
      <4>. QED  BY <1>2, <3>1, <4>1 DEF Short
    <3>3. CASE my > 1
      <4>1. (my - 2) * k >= 0
        BY <1>1, <1>5, <3>3
      <4>2. my * k >= 2 * k
        BY <1>1, <1>5, <4>1
      <4>3. 2 * k <= 32768
        BY <1>1, <1>4, <1>5, <2>2, <4>2
      <4>. QED  BY <1>2, <1>5, <4>3 DEF Short
    <3>. QED  BY <1>1, <3>2, <3>3
  <2>. QED  BY <1>1, <2>1, <2>2
<1>8. Short(r) /\ x = y * q + r
  BY <1>1, <1>3, <1>4, <1>6, <1>7 DEF Short
<1>9. Magnitude(r) = m /\ my = Magnitude(y)
  BY <1>4, <1>6 DEF Magnitude, my
<1>10. r # 0 => (r < 0) = (x < 0)
  BY <1>4, <1>6
<1>. QED  BY <1>4, <1>7, <1>8, <1>9, <1>10 DEF q, r

\* Zero has no sign.
LEMMA Negated ==
  \A j \in Int : j = 0 => -j = 0
<1>1. \A j \in Int : -j = 0 - j
  OBVIOUS
<1>2. \A j \in Int : j = 0 => 0 - j = 0
  OBVIOUS
<1>. QED  BY <1>1, <1>2, Zenon

\* int division and the signs of its operands.
LEMMA Opposites ==
  ASSUME NEW x \in Int, NEW y \in Int, y # 0
  PROVE  /\ Quotient(-x, y) = -Quotient(x, y)
         /\ Quotient(x, -y) = -Quotient(x, y)
         /\ Remainder(-x, y) = -Remainder(x, y)
         /\ Remainder(x, -y) = Remainder(x, y)
         /\ Quotient(x, y) \in Int /\ Remainder(x, y) \in Int
         /\ Magnitude(x) < Magnitude(y) => Quotient(x, y) = 0
<1>. DEFINE k == Magnitude(x) \div Magnitude(y)
<1>1. /\ Magnitude(-x) = Magnitude(x) /\ Magnitude(-y) = Magnitude(y)
      /\ Magnitude(x) \in Nat /\ Magnitude(y) \in Nat /\ Magnitude(y) > 0
  BY DEF Magnitude
<1>2. k \in Int
  BY <1>1
<1>3. x = 0 => k = 0
  BY <1>1 DEF Magnitude
<1>4. /\ Quotient(x, y) = IF (x < 0) = (y < 0) THEN k ELSE -k
      /\ Quotient(-x, y) = IF (-x < 0) = (y < 0) THEN k ELSE -k
      /\ Quotient(x, -y) = IF (x < 0) = (-y < 0) THEN k ELSE -k
  BY <1>1 DEF Quotient
<1>. HIDE DEF k
<1>5. /\ Quotient(-x, y) = -Quotient(x, y)
      /\ Quotient(x, -y) = -Quotient(x, y)
      /\ Quotient(x, y) \in Int
  BY <1>2, <1>3, <1>4
<1>6. /\ y * (-Quotient(x, y)) = -(y * Quotient(x, y))
      /\ (-y) * (-Quotient(x, y)) = y * Quotient(x, y)
      /\ y * Quotient(x, y) \in Int
  BY <1>5
<1>7. Magnitude(x) < Magnitude(y) => Quotient(x, y) = 0
  <2>1. ASSUME NEW m \in Nat, NEW n \in Nat, m < n  PROVE m \div n = 0
    <3>1. PICK z \in Int : z = 0
      OBVIOUS
    <3>2. m = n * z + m /\ m \in 0 .. n - 1 /\ m \in Int
      BY <2>1, <3>1
    <3>3. m \div n = z
      BY <3>2, DivisionUnique
    <3>. QED  BY <3>1, <3>3
  <2>. SUFFICES ASSUME Magnitude(x) < Magnitude(y)
                PROVE  Quotient(x, y) = 0
    OBVIOUS
  <2>2. k = 0
    BY <1>1, <2>1 DEF k
  <2>3. -k = 0
    BY <1>2, <2>2, Negated
  <2>. QED  BY <1>4, <2>2, <2>3
<1>8. /\ Remainder(x, y) = x - y * Quotient(x, y)
      /\ Remainder(-x, y) = (-x) - y * Quotient(-x, y)
      /\ Remainder(x, -y) = x - (-y) * Quotient(x, -y)
  BY DEF Remainder
<1>. QED  BY <1>5, <1>6, <1>7, <1>8

\* For all operands z_div and z_mod belong together, where -32768 is not divided by a
\* negative number.
THEOREM DivisionIsConsistent ==
  \A a, b \in AllWords : DivisionLaw(a, b)
<1>. DEFINE x(a) == ZINT16(a)
<1>. SUFFICES ASSUME NEW a \in AllWords, NEW b \in AllWords, b # 0,
                     ~(x(a) = -32768 /\ x(b) < 0)
              PROVE  LET r == ZINT16(z_mod(a, b)) IN
                     /\ zword_t(ZINT16(z_div(a, b)) * x(b) + r) = a
                     /\ Magnitude(r) < Magnitude(x(b))
                     /\ r # 0 => (r < 0) = (x(a) < 0)
  BY DEF DivisionLaw
<1>. DEFINE p == x(a)
            q == x(b)
<1>1. Short(p) /\ Short(q) /\ q # 0 /\ p \in Int /\ q \in Int /\ zword_t(p) = a
  BY ZintIs DEF Short, AllWords
<1>2. ~(p = -32768 /\ q < 0)
  OBVIOUS
<1>. DEFINE quotient == Quotient(p, q)
            remainder == Remainder(p, q)
<1>3. /\ Short(quotient) /\ Short(remainder) /\ p = q * quotient + remainder
      /\ Magnitude(remainder) < Magnitude(q)
      /\ remainder # 0 => (remainder < 0) = (p < 0)
  BY <1>1, <1>2, QuotientsFit
<1>4. z_div(a, b) = zword_t(quotient)
  <2>. DEFINE sa == IF q < 0 THEN ZINT16(-p) ELSE p
              sb == IF q < 0 THEN ZINT16(-q) ELSE q
  <2>1. sb # 0 /\ sb \in Int /\ sa = (IF q < 0 THEN -p ELSE p) /\ (sb = (IF q < 0 THEN -q ELSE q) \/ (q = -32768 /\ sb = q))
    <3>1. q < 0 => Short(-p)
      BY <1>1, <1>2 DEF Short
    <3>2. q < 0 /\ q # -32768 => Short(-q)
      BY <1>1 DEF Short
    <3>3. ZINT16(32768) = -32768
      BY ZintIs DEF AllWords
    <3>. HIDE DEF p, q
    <3>. QED  BY <1>1, <3>1, <3>2, <3>3, ZintIs
  <2>2. z_div(a, b) = zword_t(IF sa >= 0 THEN Quotient(sa, sb) ELSE -Quotient(-sa, sb))
    BY <2>1 DEF z_div
  <2>. HIDE DEF sa, sb, p, q
  <2>3. z_div(a, b) = zword_t(Quotient(sa, sb))
    <3>1. Quotient(-sa, sb) = -Quotient(sa, sb) /\ Quotient(sa, sb) \in Int
      <4>1. sa \in Int
        BY <1>1, <2>1
      <4>. QED  BY <2>1, <4>1, Opposites
    <3>. QED  BY <2>2, <3>1
  <2>4. Quotient(sa, sb) = Quotient(p, q)
    <3>1. CASE q > 0
      BY <1>1, <2>1, <3>1
    <3>2. CASE q < 0 /\ sb = -q
      <4>1. sa = -p
        BY <2>1, <3>2
      <4>2. Quotient(-p, -q) = -Quotient(-p, q) /\ Quotient(-p, q) = -Quotient(p, q)
            /\ Quotient(p, q) \in Int
        BY <1>1, Opposites
      <4>. QED  BY <3>2, <4>1, <4>2
    <3>3. CASE q = -32768 /\ sb = q
      <4>1. sa = -p /\ Magnitude(p) < Magnitude(q) /\ Magnitude(-p) < Magnitude(q)
        BY <1>1, <1>2, <2>1, <3>3 DEF Short, Magnitude
      <4>2. Quotient(p, q) = 0 /\ Quotient(-p, q) = 0
        BY <1>1, <4>1, Opposites
      <4>. QED  BY <3>3, <4>1, <4>2
    <3>. QED  BY <1>1, <2>1, <3>1, <3>2, <3>3
  <2>. QED  BY <2>3, <2>4 DEF p, q
<1>5. z_mod(a, b) = zword_t(remainder)
  <2>. DEFINE sb == IF q < 0 THEN ZINT16(-q) ELSE q
  <2>1. sb # 0 /\ sb \in Int /\ (sb = q \/ sb = -q)
    <3>1. q < 0 /\ q # -32768 => Short(-q)
      BY <1>1 DEF Short
    <3>2. ZINT16(32768) = -32768
      BY ZintIs DEF AllWords
    <3>. HIDE DEF p, q
    <3>. QED  BY <1>1, <3>1, <3>2, ZintIs
  <2>2. z_mod(a, b) = zword_t(IF p >= 0 THEN Remainder(p, sb) ELSE -Remainder(-p, sb))
    BY DEF z_mod
  <2>. HIDE DEF sb, p, q
  <2>3. /\ Remainder(-p, sb) = -Remainder(p, sb) /\ Remainder(p, sb) \in Int
        /\ Remainder(p, -q) = Remainder(p, q)
    BY <1>1, <2>1, Opposites
  <2>. QED  BY <2>1, <2>2, <2>3
<1>. HIDE DEF p, q, quotient, remainder
<1>6. ZINT16(z_div(a, b)) = quotient /\ ZINT16(z_mod(a, b)) = remainder
  BY <1>3, <1>4, <1>5, ZintIs
<1>7. quotient * q + remainder = p
  <2>1. quotient \in Int /\ q \in Int
    BY <1>1, <1>3 DEF Short
  <2>. QED  BY <1>3, <2>1
<1>. QED  BY <1>1, <1>3, <1>6, <1>7 DEF p, q

\* For all operands exactly one of jl, je and jg branches, and the sign of z_sub says which
\* where it does not overflow.
THEOREM OrderIsConsistent ==
  \A a, b \in AllWords : OrderLaw(a, b)
<1>. SUFFICES ASSUME NEW a \in AllWords, NEW b \in AllWords  PROVE OrderLaw(a, b)
  OBVIOUS
<1>. DEFINE p == ZINT16(a)
            q == ZINT16(b)
<1>1. /\ Short(p) /\ Short(q) /\ p \in Int /\ q \in Int /\ a \in Int /\ b \in Int
      /\ a = (IF p < 0 THEN p + 65536 ELSE p) /\ b = (IF q < 0 THEN q + 65536 ELSE q)
  BY ZintIs DEF Short, AllWords
<1>2. z_je(<<a, b>>) <=> a = b
  <2>. DEFINE operand == <<a, b>>
  <2>1. Len(operand) = 2 /\ operand[1] = a /\ operand[2] = b
    OBVIOUS
  <2>. HIDE DEF operand
  <2>2. z_je(operand) <=> \E i \in 2 .. 2 : operand[i] = operand[1]
    BY <2>1 DEF z_je
  <2>3. \A i \in 2 .. 2 : i = 2
    OBVIOUS
  <2>. QED  BY <2>1, <2>2, <2>3 DEF operand
<1>3. (p >= 0) = (q >= 0) => ZINT16(z_sub(a, b)) = p - q
  <2>. SUFFICES ASSUME (p >= 0) = (q >= 0)  PROVE ZINT16(z_sub(a, b)) = p - q
    OBVIOUS
  <2>. HIDE DEF p, q
  <2>1. a - b = p - q /\ Short(p - q)
    BY <1>1 DEF Short
  <2>. QED  BY <2>1, ZintIs DEF z_sub
<1>4. /\ z_jl(a, b) <=> p < q
      /\ z_jg(a, b) <=> p > q
      /\ z_jg(b, a) <=> q > p
  BY DEF z_jl, z_jg
<1>. HIDE DEF p, q
<1>5. ((p >= 0) = (q >= 0)) => (p < q <=> ZINT16(z_sub(a, b)) < 0)
  BY <1>1, <1>3
<1>6. a = b <=> ~(p < q) /\ ~(p > q)
  BY <1>1 DEF Short
<1>7. z_jl(a, b) = z_jg(b, a)
  BY <1>1, <1>4 DEF z_jl, z_jg
<1>8. ~(z_jl(a, b) /\ z_jg(a, b))
  BY <1>1, <1>4
<1>9. z_je(<<a, b>>) = (~z_jl(a, b) /\ ~z_jg(a, b))
  BY <1>2, <1>4, <1>6, Zenon DEF z_je
<1>10. ((p >= 0) = (q >= 0)) => z_jl(a, b) = (ZINT16(z_sub(a, b)) < 0)
  <2>. SUFFICES ASSUME (p >= 0) = (q >= 0)
                PROVE  z_jl(a, b) = (ZINT16(z_sub(a, b)) < 0)
    OBVIOUS
  <2>1. z_jl(a, b) <=> ZINT16(z_sub(a, b)) < 0
    BY <1>4, <1>5
  <2>. QED  BY <2>1 DEF z_jl
<1>. QED  BY <1>7, <1>8, <1>9, <1>10, Zenon DEF OrderLaw, p, q

-----------------------------------------------------------------------------
(* Shifts *)

\* The places of the bits of a word.
BitPlaces == 0 .. 15

\* The places of the bits, as inequalities.
LEMMA BitPlaceIs ==
  \A i : i \in BitPlaces <=> i \in Nat /\ i <= 15
<1>1. PICK top \in Nat : top = 15
  OBVIOUS
<1>2. \A i : i \in 0 .. top <=> i \in Nat /\ i <= top
  OBVIOUS
<1>3. BitPlaces = 0 .. top
  BY <1>1 DEF BitPlaces
<1>. QED  BY <1>1, <1>2, <1>3

\* The powers of two that a shift of a word multiplies and divides by.
LEMMA Powers ==
  ASSUME NEW n \in BitPlaces
  PROVE  /\ 2 ^ n \in Nat /\ 2 ^ n > 0 /\ 2 ^ n <= 32768
         /\ 2 ^ (16 - n) \in Nat /\ 2 ^ (16 - n) > 1
         /\ 2 ^ n * 2 ^ (16 - n) = 65536
         /\ 2 ^ (n + 1) = 2 * 2 ^ n
         /\ 2 ^ (16 - n) = 2 * 2 ^ (15 - n) /\ 2 ^ (15 - n) \in Nat
<1>16. CASE n = 0  BY <1>16
<1>1. CASE n = 1  BY <1>1
<1>2. CASE n = 2  BY <1>2
<1>3. CASE n = 3  BY <1>3
<1>4. CASE n = 4  BY <1>4
<1>5. CASE n = 5  BY <1>5
<1>6. CASE n = 6  BY <1>6
<1>7. CASE n = 7  BY <1>7
<1>8. CASE n = 8  BY <1>8
<1>9. CASE n = 9  BY <1>9
<1>10. CASE n = 10  BY <1>10
<1>11. CASE n = 11  BY <1>11
<1>12. CASE n = 12  BY <1>12
<1>13. CASE n = 13  BY <1>13
<1>14. CASE n = 14  BY <1>14
<1>15. CASE n = 15  BY <1>15
<1>. QED  BY <1>1, <1>2, <1>3, <1>4, <1>5, <1>6, <1>7, <1>8, <1>9, <1>10, <1>11, <1>12, <1>13, <1>14, <1>15, <1>16
       DEF BitPlaces

\* What the four shifts are: products and quotients.
LEMMA ShiftsOf ==
  ASSUME NEW x \in AllWords, NEW n \in BitPlaces
  PROVE  LET down == zword_t(-n) IN
         /\ ZINT16(n) = n
         /\ z_log_shift(x, n) = zword_t(x * 2 ^ n)
         /\ z_art_shift(x, n) = zword_t(ZINT16(x) * 2 ^ n)
         /\ z_log_shift(x, down) = x \div 2 ^ n
         /\ z_art_shift(x, down) = zword_t(ZINT16(x) \div 2 ^ n)
<1>. DEFINE down == zword_t(-n)
            z == ZINT16(x)
<1>1. ZINT16(n) = n /\ ZINT16(down) = -n
  <2>1. Short(n) /\ Short(-n)
    <3>1. n \in Int /\ n >= 0 /\ n <= 15
      BY DEF BitPlaces
    <3>. QED  BY <3>1 DEF Short
  <2>. QED  BY <2>1, ZintIs
<1>2. -(-n) = n /\ (n > 0 \/ n = 0) /\ -n <= 0 /\ n \in Int
  <2>1. n \in Nat
    BY DEF BitPlaces
  <2>. QED  BY <2>1
<1>3. z \in Int /\ x \in Int /\ zword_t(x) = x
  BY ZintIs, ZwordIs DEF Short, AllWords
<1>4. 2 ^ 0 = 1 /\ (\A y \in Int : y \div 1 = y /\ y * 1 = y)
  OBVIOUS
<1>. HIDE DEF down, z
<1>5. z_log_shift(x, n) = zword_t(x * 2 ^ n)
  <2>1. CASE n > 0
    BY <1>1, <2>1 DEF z_log_shift
  <2>2. CASE n = 0
    <3>1. z_log_shift(x, n) = x \div 2 ^ (-n)
      BY <1>1, <1>2, <2>2 DEF z_log_shift
    <3>2. -n = 0
      BY <1>2, <2>2, Negated
    <3>. QED  BY <1>3, <1>4, <2>2, <3>1, <3>2
  <2>. QED  BY <1>2, <2>1, <2>2
<1>6. z_art_shift(x, n) = zword_t(z * 2 ^ n)
  <2>1. CASE n > 0
    BY <1>1, <2>1 DEF z_art_shift, z
  <2>2. CASE n = 0
    <3>1. z_art_shift(x, n) = zword_t(z \div 2 ^ (-n))
      BY <1>1, <1>2, <2>2 DEF z_art_shift, z
    <3>2. -n = 0
      BY <1>2, <2>2, Negated
    <3>. QED  BY <1>3, <1>4, <2>2, <3>1, <3>2
  <2>. QED  BY <1>2, <2>1, <2>2
<1>7. /\ z_log_shift(x, down) = x \div 2 ^ n
      /\ z_art_shift(x, down) = zword_t(z \div 2 ^ n)
  <2>1. ~(-n > 0)
    BY <1>2
  <2>2. /\ z_log_shift(x, down) = x \div 2 ^ (-(-n))
        /\ z_art_shift(x, down) = zword_t(z \div 2 ^ (-(-n)))
    BY <1>1, <2>1 DEF z_log_shift, z_art_shift, z
  <2>. QED  BY <1>2, <2>2
<1>. QED  BY <1>1, <1>5, <1>6, <1>7 DEF down, z

\* For all words and all shifts up to 15 places, up and down again loses the high bits or
\* fills them with the sign.
THEOREM ShiftsAreConsistent ==
  \A a \in AllWords : \A n : ShiftLaw(a, n)
<1>. SUFFICES ASSUME NEW a \in AllWords, NEW n \in BitPlaces
              PROVE  LET down == zword_t(-n) IN
                     /\ z_log_shift(z_log_shift(a, n), down) = a % (2 ^ (16 - n))
                     /\ zword_t(z_art_shift(z_log_shift(a, down), n) + (a % (2 ^ n))) = a
                     /\ ZINT16(z_art_shift(a, down)) * 2 ^ n <= ZINT16(a)
                     /\ ZINT16(a) < (ZINT16(z_art_shift(a, down)) + 1) * 2 ^ n
  BY DEF ShiftLaw, BitPlaces
<1>. DEFINE down == zword_t(-n)
            p == 2 ^ n
            m == 2 ^ (16 - n)
            z == ZINT16(a)
<1>1. /\ p \in Nat /\ p > 0 /\ p <= 32768 /\ m \in Nat /\ m > 1 /\ p * m = 65536
  BY Powers
<1>2. z \in Int /\ Short(z) /\ a \in Nat /\ a < 65536 /\ zword_t(a) = a
  BY ZintIs, ZwordIs DEF Short, AllWords
<1>3. z_log_shift(z_log_shift(a, n), down) = zword_t(a * p) \div p
  <2>1. z_log_shift(a, n) = zword_t(a * p) /\ a * p \in Int
    BY <1>1, <1>2, ShiftsOf DEF p
  <2>2. zword_t(a * p) \in AllWords
    BY <2>1, ZwordIs
  <2>. HIDE DEF p
  <2>. QED  BY <2>1, <2>2, ShiftsOf DEF p
<1>. DEFINE x == a \div p
            r == a % p
<1>4. x \in Nat /\ x \in AllWords /\ r \in Nat /\ r < p /\ a = p * x + r
  <2>. HIDE DEF p
  <2>1. x \in Int /\ r \in Nat /\ r < p /\ a = p * x + r
    BY <1>1, <1>2
  <2>. HIDE DEF x, r
  <2>2. x >= 0
    <3>1. ~(x <= -1)
      <4>. SUFFICES ASSUME x <= -1  PROVE FALSE
        OBVIOUS
      <4>1. p * (x + 1) <= 0
        BY <1>1, <2>1
      <4>. QED  BY <1>1, <1>2, <2>1, <4>1
    <3>. QED  BY <2>1, <3>1
  <2>3. x <= a
    <3>1. (p - 1) * x >= 0
      BY <1>1, <2>1, <2>2
    <3>. QED  BY <1>1, <2>1, <2>2, <3>1
  <2>. QED  BY <1>2, <2>1, <2>2, <2>3 DEF AllWords
<1>5. z_log_shift(a, down) = x /\ z_art_shift(x, n) = zword_t(ZINT16(x) * p)
  BY <1>4, ShiftsOf
<1>6. z_art_shift(a, down) = zword_t(z \div p)
  BY ShiftsOf
<1>. HIDE DEF p, m, z, x, r, down
<1>7. zword_t(a * p) \div p = a % m
  <2>. DEFINE k == a \div m
              s == a % m
  <2>1. k \in Int /\ s \in Nat /\ s < m /\ a = m * k + s
    BY <1>1, <1>2
  <2>. HIDE DEF k, s
  <2>2. a * p = s * p + 65536 * k /\ s * p \in Int
    <3>1. (m * k + s) * p = s * p + (p * m) * k
      BY <1>1, <2>1
    <3>. QED  BY <1>1, <2>1, <3>1
  <2>3. s * p \in AllWords
    <3>1. s * p >= 0 /\ (m - 1 - s) * p >= 0
      BY <1>1, <2>1
    <3>2. s * p <= m * p - p
      BY <1>1, <2>1, <3>1
    <3>. QED  BY <1>1, <2>1, <3>1, <3>2 DEF AllWords
  <2>4. zword_t(a * p) = s * p
    BY <2>1, <2>2, <2>3, ZwordIs
  <2>5. (s * p) \div p = s
    <3>1. PICK o \in 0 .. p - 1 : o = 0
      BY <1>1
    <3>2. s * p = p * s + o
      BY <1>1, <2>1, <3>1
    <3>. QED  BY <1>1, <2>1, <2>2, <3>2, DivisionUnique
  <2>. QED  BY <2>4, <2>5 DEF s
<1>8. zword_t(zword_t(ZINT16(x) * p) + r) = a
  <2>1. PICK j \in Int : ZINT16(x) = x + 65536 * j
    <3>1. ZINT16(x) = x + 65536 * 0 \/ ZINT16(x) = x + 65536 * (-1)
      BY <1>4, ZintIs
    <3>. QED  BY <3>1
  <2>2. ZINT16(x) * p = x * p + 65536 * (j * p) /\ x * p \in Int /\ j * p \in Int
    BY <1>1, <1>4, <2>1
  <2>3. x * p \in AllWords
    <3>1. x * p >= 0 /\ x * p <= a
      BY <1>1, <1>4
    <3>. QED  BY <1>2, <2>2, <3>1 DEF AllWords
  <2>4. zword_t(ZINT16(x) * p) = x * p
    BY <2>2, <2>3, ZwordIs
  <2>5. x * p + r = a
    BY <1>1, <1>4
  <2>. QED  BY <1>2, <2>4, <2>5
<1>9. /\ ZINT16(zword_t(z \div p)) * p <= z
      /\ z < (ZINT16(zword_t(z \div p)) + 1) * p
  <2>. DEFINE d == z \div p
              s == z % p
  <2>1. d \in Int /\ s \in Nat /\ s < p /\ z = p * d + s
    BY <1>1, <1>2
  <2>. HIDE DEF d, s
  <2>2. d >= -32768
    <3>. SUFFICES ASSUME d <= -32769  PROVE FALSE
      BY <2>1
    <3>1. p * (d + 32769) <= 0 /\ (p - 1) * 32768 >= 0
      BY <1>1, <2>1
    <3>. QED  BY <1>1, <1>2, <2>1, <3>1 DEF Short
  <2>3. d < 32768
    <3>. SUFFICES ASSUME d >= 32768  PROVE FALSE
      BY <2>1
    <3>1. p * (d - 32768) >= 0 /\ (p - 1) * 32768 >= 0
      BY <1>1, <2>1
    <3>. QED  BY <1>1, <1>2, <2>1, <3>1 DEF Short
  <2>4. ZINT16(zword_t(d)) = d
    BY <2>1, <2>2, <2>3, ZintIs DEF Short
  <2>5. d * p <= z /\ z < (d + 1) * p
    BY <1>1, <2>1
  <2>. QED  BY <2>4, <2>5 DEF d
<1>. QED  BY <1>3, <1>5, <1>6, <1>7, <1>8, <1>9 DEF p, m, z, x, r, down

-----------------------------------------------------------------------------
(* Bits *)

\* The sum FromBits builds, as a function of the place.
IsSum(sum, bits) ==
    sum = [i \in 0 .. 16 |-> IF i = 0 THEN 0 ELSE sum[i - 1] + bits[i - 1] * 2 ^ (i - 1)]

\* FromBits is a sum with a step for each place.
LEMMA SumOf ==
  ASSUME NEW bits \in [BitPlaces -> Nat]
  PROVE  \E sum : /\ FromBits(bits) = sum[16] /\ sum[16] \in Nat
                 /\ sum[0] = 0
                 /\ \A i \in BitPlaces : /\ sum[i] \in Nat
                                      /\ sum[i + 1] = sum[i] + bits[i] * 2 ^ i
<1>. DEFINE top == 16
            D == 0 .. top
            V == Nat
            rank == [i \in D |-> i]
            body(f, i) == IF i = 0 THEN 0 ELSE f[i - 1] + bits[i - 1] * 2 ^ (i - 1)
            step == [i \in D |-> [f \in [D -> V] |-> body(f, i)]]
            bound == 17
<1>1. top \in Nat /\ top = 16
  OBVIOUS
<1>. HIDE DEF top
<1>2. rank \in [D -> Nat] /\ bound \in Nat /\ (\A x \in D : rank[x] < bound) /\ V # {}
  BY <1>1
<1>3. \A i \in D : i # 0 => i - 1 \in D /\ rank[i - 1] < rank[i] /\ i - 1 \in BitPlaces
  BY <1>1, BitPlaceIs
<1>4. ASSUME NEW i \in D, NEW f \in [D -> V]  PROVE body(f, i) \in V
  <2>1. CASE i = 0
    BY <2>1
  <2>2. CASE i # 0
    <3>1. f[i - 1] \in Nat /\ bits[i - 1] \in Nat /\ 2 ^ (i - 1) \in Nat
      <4>1. \A n \in BitPlaces : 2 ^ n \in Nat
        BY Powers
      <4>. QED  BY <1>3, <2>2, <4>1
    <3>2. \A x, y, z \in Nat : x + y * z \in Nat
      OBVIOUS
    <3>. QED  BY <2>2, <3>1, <3>2
  <2>. QED  BY <2>1, <2>2
<1>5. \A i \in D : \A f, g \in [D -> V] :
        (\A j \in D : rank[j] < rank[i] => f[j] = g[j]) => body(f, i) = body(g, i)
  BY <1>3
<1>6. \A i \in D : \A f \in [D -> V] : step[i][f] = body(f, i)
  OBVIOUS
<1>7. \A f : f = [i \in D |-> body(f, i)] <=> IsSum(f, bits)
  BY <1>1 DEF IsSum
<1>. HIDE DEF body
<1>8. step \in [D -> [[D -> V] -> V]]
  BY <1>4
<1>. HIDE DEF step, rank, bound
<1>9. Descends(D, V, rank, bound, step)
  <2>. HIDE DEF D, V
  <2>1. \A x \in D : \A f, g \in [D -> V] :
          (\A y \in D : rank[y] < rank[x] => f[y] = g[y]) => step[x][f] = step[x][g]
    BY <1>5, <1>6
  <2>. QED  BY <1>2, <1>8, <2>1 DEF Descends
<1>10. PICK f \in [D -> V] : \A x \in D : f[x] = body(f, x)
  <2>. HIDE DEF D, V
  <2>. QED  BY <1>6, <1>9, RecursiveFunction
<1>. DEFINE sum == CHOOSE g : IsSum(g, bits)
<1>11. IsSum(sum, bits)
  <2>1. f = [i \in D |-> body(f, i)]
    BY <1>10
  <2>. QED  BY <1>7, <2>1
<1>12. FromBits(bits) = sum[16]
  BY DEF FromBits, IsSum
<1>. HIDE DEF sum
<1>13. \A i \in D : sum[i] = body(sum, i)
  <2>1. sum = [i \in D |-> body(sum, i)]
    BY <1>7, <1>11
  <2>. QED  BY <2>1
<1>14. sum[0] = 0 /\ \A i \in BitPlaces : sum[i + 1] = sum[i] + bits[i] * 2 ^ i
  <2>1. 0 \in D /\ \A i \in BitPlaces : i + 1 \in D /\ i + 1 # 0 /\ (i + 1) - 1 = i
    BY <1>1, BitPlaceIs
  <2>. QED  BY <1>13, <2>1 DEF body
<1>15. \A i \in Nat : i <= 16 => sum[i] \in Nat
  <2>. DEFINE S == {i \in Nat : i <= 16 => sum[i] \in Nat}
  <2>1. ASSUME NEW i \in Nat, 0 .. i - 1 \subseteq S  PROVE i \in S
    <3>1. CASE i = 0
      BY <1>14, <3>1
    <3>2. CASE i > 0 /\ i <= 16
      <4>. DEFINE j == i - 1
      <4>1. j \in S /\ j \in BitPlaces /\ j + 1 = i /\ j \in Nat /\ j <= 16
        <5>1. j \in BitPlaces /\ j \in 0 .. i - 1
          BY <3>2, BitPlaceIs
        <5>. QED  BY <2>1, <3>2, <5>1
      <4>. HIDE DEF j
      <4>2. sum[j] \in Nat /\ bits[j] \in Nat /\ 2 ^ j \in Nat
        BY <4>1, Powers
      <4>3. \A x, y, z \in Nat : x + y * z \in Nat
        OBVIOUS
      <4>4. sum[i] = sum[j] + bits[j] * 2 ^ j
        BY <1>14, <4>1
      <4>. QED  BY <4>2, <4>3, <4>4
    <3>. QED  BY <3>1, <3>2
  <2>. HIDE DEF S
  <2>2. Nat \subseteq S
    BY <2>1, Ladder
  <2>. QED  BY <2>2 DEF S
<1>16. 16 \in Nat /\ \A i \in BitPlaces : i \in Nat /\ i <= 16
  BY BitPlaceIs
<1>. QED  BY <1>12, <1>14, <1>15, <1>16

\* Two pairs of words with the same sum at each place.
SameBits(a, b, c, d) ==
    /\ a \in [BitPlaces -> Nat] /\ b \in [BitPlaces -> Nat]
    /\ c \in [BitPlaces -> Nat] /\ d \in [BitPlaces -> Nat]
    /\ \A i \in BitPlaces : a[i] + b[i] = c[i] + d[i]

\* Where the bits of two pairs have the same sums, so have the words.
LEMMA SumsAdd ==
  ASSUME NEW a, NEW b, NEW c, NEW d, SameBits(a, b, c, d)
  PROVE  FromBits(a) + FromBits(b) = FromBits(c) + FromBits(d)
<1>. USE DEF SameBits
<1>. DEFINE IsSumOf(sum, bits) ==
              /\ FromBits(bits) = sum[16] /\ sum[16] \in Nat
              /\ sum[0] = 0
              /\ \A i \in BitPlaces : /\ sum[i] \in Nat
                                   /\ sum[i + 1] = sum[i] + bits[i] * 2 ^ i
<1>1. PICK f : IsSumOf(f, a)
  BY SumOf
<1>2. PICK g : IsSumOf(g, b)
  BY SumOf
<1>3. PICK h : IsSumOf(h, c)
  BY SumOf
<1>4. PICK k : IsSumOf(k, d)
  BY SumOf
<1>. DEFINE S == {i \in Nat : i <= 16 => f[i] + g[i] = h[i] + k[i]}
<1>5. ASSUME NEW i \in Nat, 0 .. i - 1 \subseteq S  PROVE i \in S
  <2>1. CASE i = 0
    BY <1>1, <1>2, <1>3, <1>4, <2>1
  <2>2. CASE i > 0 /\ i <= 16
    <3>. DEFINE j == i - 1
                p == 2 ^ j
    <3>1. j \in S /\ j \in BitPlaces /\ j + 1 = i /\ j \in Nat /\ j <= 16
      <4>1. j \in BitPlaces /\ j \in 0 .. i - 1
        BY <2>2, BitPlaceIs
      <4>. QED  BY <1>5, <2>2, <4>1
    <3>2. p \in Nat /\ a[j] \in Nat /\ b[j] \in Nat /\ c[j] \in Nat /\ d[j] \in Nat
          /\ a[j] + b[j] = c[j] + d[j]
      BY <3>1, Powers
    <3>. HIDE DEF j, p
    <3>3. /\ f[i] = f[j] + a[j] * p /\ g[i] = g[j] + b[j] * p
          /\ h[i] = h[j] + c[j] * p /\ k[i] = k[j] + d[j] * p
          /\ f[j] \in Nat /\ g[j] \in Nat /\ h[j] \in Nat /\ k[j] \in Nat
      BY <1>1, <1>2, <1>3, <1>4, <3>1 DEF p
    <3>4. f[j] + g[j] = h[j] + k[j]
      BY <3>1
    <3>5. (a[j] * p) + (b[j] * p) = (c[j] * p) + (d[j] * p)
      <4>1. (a[j] + b[j]) * p = (c[j] + d[j]) * p
        BY <3>2
      <4>2. \A x, y, z \in Nat : (x + y) * z = (x * z) + (y * z)
        OBVIOUS
      <4>. QED  BY <3>2, <4>1, <4>2
    <3>6. \A x, y \in Nat : x * y \in Nat
      OBVIOUS
    <3>7. f[i] + g[i] = h[i] + k[i]
      <4>. DEFINE ap == a[j] * p
                  bp == b[j] * p
                  cp == c[j] * p
                  dp == d[j] * p
      <4>1. ap \in Nat /\ bp \in Nat /\ cp \in Nat /\ dp \in Nat
        BY <3>2, <3>6
      <4>2. ap + bp = cp + dp
        BY <3>5
      <4>3. f[i] = f[j] + ap /\ g[i] = g[j] + bp /\ h[i] = h[j] + cp /\ k[i] = k[j] + dp
        BY <3>3
      <4>4. f[j] \in Nat /\ g[j] \in Nat /\ h[j] \in Nat /\ k[j] \in Nat
        BY <3>3
      <4>5. \A t, u, v, w, x, y, z, o \in Nat :
              t + u = v + w /\ x + y = z + o => (t + x) + (u + y) = (v + z) + (w + o)
        OBVIOUS
      <4>. HIDE DEF ap, bp, cp, dp, SameBits
      <4>6. (f[j] + ap) + (g[j] + bp) = (h[j] + cp) + (k[j] + dp)
        BY <3>4, <4>1, <4>2, <4>4, <4>5
      <4>. QED  BY <4>3, <4>6
    <3>. QED  BY <3>7
  <2>. QED  BY <2>1, <2>2
<1>. HIDE DEF S
<1>6. 16 \in S
  BY <1>5, Ladder
<1>. QED  BY <1>1, <1>2, <1>3, <1>4, <1>6 DEF S

\* Bit gives the bit a word has at a place, and the complement has the other one.
LEMMA BitOf ==
  ASSUME NEW w \in AllWords, NEW i \in BitPlaces
  PROVE  /\ Bit(w, i) \in {0, 1}
         /\ w % 2 ^ (i + 1) = (w % 2 ^ i) + Bit(w, i) * 2 ^ i
         /\ 65535 - w \in AllWords
         /\ Bit(65535 - w, i) = 1 - Bit(w, i)
<1>. DEFINE p == 2 ^ i
            m == 2 ^ (16 - i)
            h == 2 ^ (15 - i)
            d == w \div p
            r == w % p
            e == d \div 2
            b == d % 2
<1>1. /\ p \in Nat /\ p > 0 /\ m \in Nat /\ h \in Nat /\ m = 2 * h /\ p * m = 65536
      /\ 2 ^ (i + 1) = 2 * p
  BY Powers
<1>. HIDE DEF p, m, h
<1>2. d \in Int /\ r \in Nat /\ r < p /\ w = p * d + r /\ w \in Nat /\ w < 65536
  BY <1>1 DEF AllWords
<1>3. Bit(w, i) = b
  BY DEF Bit, p
<1>. HIDE DEF d, r
<1>4. e \in Int /\ b \in {0, 1} /\ d = 2 * e + b
  BY <1>2
<1>. HIDE DEF e, b
<1>5. w % (2 * p) = r + b * p
  <2>1. w = (2 * p) * e + (r + b * p)
    <3>1. p * (2 * e + b) = (2 * p) * e + b * p
      BY <1>1, <1>4
    <3>. QED  BY <1>1, <1>2, <1>4, <3>1
  <2>2. r + b * p \in Nat /\ r + b * p < 2 * p
    BY <1>1, <1>2, <1>4
  <2>. DEFINE y == 2 * p
              s == r + b * p
  <2>3. y \in Nat /\ s \in 0 .. y - 1 /\ w = y * e + s /\ w \in Int
    BY <1>1, <1>2, <2>1, <2>2
  <2>. HIDE DEF y, s
  <2>4. w % y = s
    BY <1>4, <2>3, DivisionUnique
  <2>. QED  BY <2>4 DEF y, s
<1>6. (65535 - w) \div p = m - 1 - d
  <2>. DEFINE x == 65535 - w
              q == m - 1 - d
              s == p - 1 - r
  <2>1. p * (m - 1 - d) = 65536 - p - p * d
    <3>1. p * (m - 1 - d) = p * m - p - p * d
      BY <1>1, <1>2
    <3>. QED  BY <1>1, <3>1
  <2>2. x = p * q + s /\ x \in Int /\ q \in Int /\ s \in 0 .. p - 1
    BY <1>1, <1>2, <2>1
  <2>. HIDE DEF x, q, s
  <2>3. x \div p = q
    BY <1>1, <2>2, DivisionUnique
  <2>. QED  BY <2>3 DEF x, q
<1>7. (m - 1 - d) % 2 = 1 - b
  <2>1. m - 1 - d = 2 * (h - 1 - e) + (1 - b)
    BY <1>1, <1>2, <1>4
  <2>2. \A x \in Int : (2 * x + 1) % 2 = 1 /\ (2 * x + 0) % 2 = 0
    OBVIOUS
  <2>3. h - 1 - e \in Int /\ (1 - b = 1 \/ 1 - b = 0)
    BY <1>1, <1>4
  <2>. QED  BY <2>1, <2>2, <2>3
<1>8. Bit(65535 - w, i) = 1 - b
  BY <1>6, <1>7 DEF Bit, p
<1>9. 65535 - w \in AllWords
  BY <1>2 DEF AllWords
<1>. QED  BY <1>1, <1>3, <1>4, <1>5, <1>8, <1>9 DEF p, r

Bits(w) == [i \in BitPlaces |-> Bit(w, i)]

\* A word is the sum of its bits.
LEMMA SumOfBits ==
  ASSUME NEW w \in AllWords
  PROVE  Bits(w) \in [BitPlaces -> Nat] /\ FromBits(Bits(w)) = w
<1>1. Bits(w) \in [BitPlaces -> Nat]
  BY BitOf DEF Bits
<1>2. PICK sum : /\ FromBits(Bits(w)) = sum[16] /\ sum[0] = 0
                 /\ \A i \in BitPlaces : sum[i + 1] = sum[i] + Bits(w)[i] * 2 ^ i
  BY <1>1, SumOf
<1>. DEFINE S == {i \in Nat : i <= 16 => sum[i] = w % 2 ^ i}
<1>3. ASSUME NEW i \in Nat, 0 .. i - 1 \subseteq S  PROVE i \in S
  <2>1. CASE i = 0
    <3>1. 2 ^ 0 = 1 /\ w % 1 = 0
      BY DEF AllWords
    <3>. QED  BY <1>2, <2>1, <3>1
  <2>2. CASE i > 0 /\ i <= 16
    <3>. DEFINE j == i - 1
    <3>1. j \in S /\ j \in BitPlaces /\ j + 1 = i /\ j \in Nat /\ j <= 16
      <4>1. j \in BitPlaces /\ j \in 0 .. i - 1
        BY <2>2, BitPlaceIs
      <4>. QED  BY <1>3, <2>2, <4>1
    <3>. HIDE DEF j
    <3>2. w % 2 ^ (j + 1) = (w % 2 ^ j) + Bit(w, j) * 2 ^ j
      BY <3>1, BitOf
    <3>3. sum[j + 1] = sum[j] + Bit(w, j) * 2 ^ j
      BY <1>2, <3>1 DEF Bits
    <3>. QED  BY <3>1, <3>2, <3>3
  <2>. QED  BY <2>1, <2>2
<1>. HIDE DEF S
<1>4. 16 \in S
  BY <1>3, Ladder
<1>5. w % 2 ^ 16 = w
  <2>1. 2 ^ 16 = 65536
    OBVIOUS
  <2>. QED  BY <2>1, ZwordIs DEF AllWords
<1>. QED  BY <1>1, <1>2, <1>4, <1>5 DEF S

\* For all words z_and, z_or and z_not count the same bits, and z_test is the test of a mask.
THEOREM MasksAreConsistent ==
  \A a, b \in AllWords : BitsLaw(a, b)
<1>. SUFFICES ASSUME NEW a \in AllWords, NEW b \in AllWords  PROVE BitsLaw(a, b)
  OBVIOUS
<1>. DEFINE no(w) == 65535 - w
            And(v, w) == [i \in BitPlaces |-> IF Bit(v, i) = 1 /\ Bit(w, i) = 1 THEN 1 ELSE 0]
            Or(v, w) == [i \in BitPlaces |-> IF Bit(v, i) = 1 \/ Bit(w, i) = 1 THEN 1 ELSE 0]
<1>1. \A w \in AllWords : z_not(w) = no(w) /\ no(w) \in AllWords
  <2>. SUFFICES ASSUME NEW w \in AllWords  PROVE z_not(w) = no(w) /\ no(w) \in AllWords
    OBVIOUS
  <2>1. w \in Int /\ no(w) \in AllWords /\ no(w) \in Int
    BY DEF AllWords
  <2>2. -w - 1 = no(w) + 65536 * (-1)
    BY <2>1
  <2>. HIDE DEF no
  <2>3. zword_t(no(w) + 65536 * (-1)) = no(w)
    BY <2>1, ZwordIs
  <2>. QED  BY <2>1, <2>2, <2>3 DEF z_not
<1>2. \A v, w \in AllWords : z_and(v, w) = FromBits(And(v, w)) /\ z_or(v, w) = FromBits(Or(v, w))
  BY DEF z_and, z_or, BitPlaces
<1>3. \A w \in AllWords : \A i \in BitPlaces :
        Bit(w, i) \in {0, 1} /\ Bit(no(w), i) = 1 - Bit(w, i)
  BY BitOf
<1>. HIDE DEF no
<1>4. \A v, w \in AllWords : And(v, w) \in [BitPlaces -> Nat] /\ Or(v, w) \in [BitPlaces -> Nat]
  OBVIOUS
<1>5. \A w \in AllWords : Bits(w) \in [BitPlaces -> Nat] /\ FromBits(Bits(w)) = w
                        /\ \A i \in BitPlaces : Bits(w)[i] = Bit(w, i)
  BY SumOfBits DEF Bits
<1>6. \A v, w \in AllWords : \A i \in BitPlaces :
        /\ And(v, w)[i] = IF Bit(v, i) = 1 /\ Bit(w, i) = 1 THEN 1 ELSE 0
        /\ Or(v, w)[i] = IF Bit(v, i) = 1 \/ Bit(w, i) = 1 THEN 1 ELSE 0
  OBVIOUS
<1>. HIDE DEF And, Or
<1>7. \A v, w \in AllWords : z_and(v, w) + z_or(v, w) = v + w
  <2>. SUFFICES ASSUME NEW v \in AllWords, NEW w \in AllWords
                PROVE  z_and(v, w) + z_or(v, w) = v + w
    OBVIOUS
  <2>1. \A i \in BitPlaces : And(v, w)[i] + Or(v, w)[i] = Bits(v)[i] + Bits(w)[i]
    BY <1>3, <1>5, <1>6
  <2>2. FromBits(And(v, w)) + FromBits(Or(v, w)) = FromBits(Bits(v)) + FromBits(Bits(w))
    <3>1. /\ And(v, w) \in [BitPlaces -> Nat] /\ Or(v, w) \in [BitPlaces -> Nat]
          /\ Bits(v) \in [BitPlaces -> Nat] /\ Bits(w) \in [BitPlaces -> Nat]
      BY <1>4, <1>5
    <3>2. SameBits(And(v, w), Or(v, w), Bits(v), Bits(w))
      BY <2>1, <3>1 DEF SameBits
    <3>. QED  BY <3>2, SumsAdd
  <2>. QED  BY <1>2, <1>5, <2>2
<1>8. z_or(no(a), no(b)) + z_and(a, b) = a + no(a)
  <2>1. \A i \in BitPlaces : Or(no(a), no(b))[i] + And(a, b)[i] = Bits(a)[i] + Bits(no(a))[i]
    BY <1>1, <1>3, <1>5, <1>6
  <2>2. FromBits(Or(no(a), no(b))) + FromBits(And(a, b))
          = FromBits(Bits(a)) + FromBits(Bits(no(a)))
    <3>1. /\ Or(no(a), no(b)) \in [BitPlaces -> Nat] /\ And(a, b) \in [BitPlaces -> Nat]
          /\ Bits(a) \in [BitPlaces -> Nat] /\ Bits(no(a)) \in [BitPlaces -> Nat]
      BY <1>1, <1>4, <1>5
    <3>2. SameBits(Or(no(a), no(b)), And(a, b), Bits(a), Bits(no(a)))
      BY <2>1, <3>1 DEF SameBits
    <3>. QED  BY <3>2, SumsAdd
  <2>. QED  BY <1>1, <1>2, <1>5, <2>2
<1>9. z_and(no(a), b) + z_and(a, b) = b + 0
  <2>1. 0 \in AllWords /\ \A i \in BitPlaces : Bit(0, i) = 0
    <3>1. 0 \in AllWords
      BY DEF AllWords
    <3>2. ASSUME NEW i \in BitPlaces  PROVE Bit(0, i) = 0
      <4>1. \A p \in Nat : p > 0 => 0 \div p = 0
        <5>. SUFFICES ASSUME NEW p \in Nat, p > 0  PROVE 0 \div p = 0
          OBVIOUS
        <5>1. PICK z \in Int : z = 0
          OBVIOUS
        <5>2. z = p * z + z /\ z \in 0 .. p - 1
          BY <5>1
        <5>. QED  BY <5>1, <5>2, DivisionUnique
      <4>2. 2 ^ i \in Nat /\ 2 ^ i > 0
        BY Powers
      <4>3. 0 \div 2 ^ i = 0 /\ 0 % 2 = 0
        BY <4>1, <4>2
      <4>. QED  BY <4>3 DEF Bit
    <3>. QED  BY <3>1, <3>2
  <2>2. \A i \in BitPlaces : And(no(a), b)[i] + And(a, b)[i] = Bits(b)[i] + Bits(0)[i]
    <3>. SUFFICES ASSUME NEW i \in BitPlaces
                  PROVE  And(no(a), b)[i] + And(a, b)[i] = Bits(b)[i] + Bits(0)[i]
      OBVIOUS
    <3>1. Bits(0)[i] = 0 /\ Bits(b)[i] = Bit(b, i)
      BY <1>5, <2>1
    <3>2. /\ Bit(a, i) \in {0, 1} /\ Bit(b, i) \in {0, 1}
          /\ Bit(no(a), i) = 1 - Bit(a, i) /\ no(a) \in AllWords
      BY <1>1, <1>3
    <3>. QED  BY <1>6, <3>1, <3>2
  <2>3. FromBits(And(no(a), b)) + FromBits(And(a, b))
          = FromBits(Bits(b)) + FromBits(Bits(0))
    <3>1. /\ And(no(a), b) \in [BitPlaces -> Nat] /\ And(a, b) \in [BitPlaces -> Nat]
          /\ Bits(b) \in [BitPlaces -> Nat] /\ Bits(0) \in [BitPlaces -> Nat]
      BY <1>1, <1>4, <1>5, <2>1
    <3>2. SameBits(And(no(a), b), And(a, b), Bits(b), Bits(0))
      BY <2>2, <3>1 DEF SameBits
    <3>. QED  BY <3>2, SumsAdd
  <2>. QED  BY <1>1, <1>2, <1>5, <2>1, <2>3
<1>10. \A v, w \in AllWords : z_and(v, w) \in Nat /\ z_or(v, w) \in Nat
  <2>1. \A bits \in [BitPlaces -> Nat] : FromBits(bits) \in Nat
    BY SumOf
  <2>. QED  BY <1>2, <1>4, <2>1
<1>11. z_or(z_not(a), z_not(b)) = z_not(z_and(a, b))
  <2>. DEFINE x == z_and(a, b)
              y == z_or(no(a), no(b))
  <2>1. x \in Nat /\ y \in Nat
    BY <1>1, <1>10
  <2>2. y + x = 65535
    <3>1. a + no(a) = 65535
      BY DEF AllWords, no
    <3>. QED  BY <1>8, <3>1
  <2>. HIDE DEF x, y
  <2>3. x \in AllWords /\ y = no(x)
    BY <2>1, <2>2 DEF AllWords, no
  <2>. QED  BY <1>1, <2>3 DEF x, y
<1>12. z_test(a, b) = (z_and(a, b) = b)
  <2>. DEFINE x == z_and(a, b)
              y == z_and(no(a), b)
  <2>1. x \in Nat /\ y \in Nat /\ b \in Nat /\ y + x = b + 0
    BY <1>1, <1>9, <1>10 DEF AllWords
  <2>2. z_and(z_not(a), b) = y
    BY <1>1
  <2>. HIDE DEF x, y
  <2>3. y = 0 <=> x = b
    BY <2>1
  <2>4. (y = 0) = (x = b)
    BY <2>3, Zenon
  <2>. QED  BY <2>2, <2>4 DEF z_test, x
<1>. QED  BY <1>7, <1>11, <1>12 DEF BitsLaw

-----------------------------------------------------------------------------
(* Every step obeys the laws of arithmetic *)

\* The operands of the runs and of every other instance are words.
LEMMA OperandsAreWords ==
  /\ Words \subseteq AllWords /\ Values \subseteq AllWords /\ Chances \subseteq AllWords
  /\ Shifts \subseteq Int
<1>1. \A a \in Values \cup Words \cup Chances : a \in AllWords
  BY PropertiesAssumption DEF AllWords, WORD
<1>2. Shifts \subseteq Int
  BY PropertiesAssumption
<1>. QED  BY <1>1, <1>2

\* What ArithmeticLaws says of a step.
Laws ==
    LET arg == asked'.args IN
    /\ asked'.opcode \in {"div", "mod"} => DivisionLaw(arg[1], arg[2])
    /\ asked'.opcode \in {"log_shift", "art_shift"} => ShiftLaw(arg[1], ZINT16(arg[2]))
    /\ asked'.opcode \in {"and", "or", "test"} => BitsLaw(arg[1], arg[2])
    /\ asked'.opcode \in {"jl", "je", "jg"} => OrderLaw(arg[1], arg[2])

\* The instructions UsesProperties takes,
LEMMA PropertiesAsk ==
  ASSUME UsesProperties
  PROVE  asked'.opcode \in {"get_prop", "put_prop", "get_next_prop", "get_prop_addr",
                            "get_prop_len", "storeb"}
BY DEF UsesProperties, z_get_prop, z_put_prop, z_get_next_prop, z_get_prop_addr, z_get_prop_len,
       z_storeb, Does

\* those UsesTables takes,
LEMMA TablesAsk ==
  ASSUME UsesTables
  PROVE  asked'.opcode \in {"loadw", "loadb", "storew", "storeb", "scan_table", "copy_table"}
<1>1. \A src, dst, n : z_copy_table(src, dst, n) => asked'.opcode = "copy_table"
  BY DEF z_copy_table, Does
<1>2. \A a, i, v : z_storew(a, i, v) => asked'.opcode = "storew"
  BY DEF z_storew, Does
<1>3. \A a, i, v : z_storeb(a, i, v) => asked'.opcode = "storeb"
  BY DEF z_storeb, Does
<1>4. \A v, a, n, form : z_scan_table(v, a, n, form) => asked'.opcode = "scan_table"
  BY DEF z_scan_table, Does
<1>5. \A a, i : z_loadw(a, i) => asked'.opcode = "loadw"
  BY DEF z_loadw, Does
<1>6. \A a, i : z_loadb(a, i) => asked'.opcode = "loadb"
  BY DEF z_loadb, Does
<1>. QED  BY <1>1, <1>2, <1>3, <1>4, <1>5, <1>6 DEF UsesTables

Calculation == {"add", "sub", "mul", "div", "or", "and", "log_shift", "art_shift", "not", "random",
                "mod", "test", "jz", "je", "jl", "jg"}

\* and those of Calculates, with their operands.
LEMMA CalculatesWith ==
  ASSUME Calculates
  PROVE  \E opcode \in Calculation, a \in AllWords :
            \/ asked' = [opcode |-> "random", args |-> <<a>>]
            \/ \E b : /\ asked' = [opcode |-> opcode, args |-> <<a, b>>]
                      /\ ~ Shift(opcode) => b \in AllWords
<1>1. 0 \in AllWords
  BY DEF AllWords
<1>. QED  BY <1>1, OperandsAreWords DEF Calculates, Computes, Mod, Random, Compares, Does, Calculation, Shift

\* A step obeys the laws of its instruction.
LEMMA LawsHold ==
  ASSUME Next
  PROVE  Laws
<1>1. CASE UsesProperties \/ UsesTables
  BY <1>1, PropertiesAsk, TablesAsk DEF Laws
<1>2. CASE Calculates
  <2>1. PICK opcode \in Calculation, a \in AllWords :
            \/ asked' = [opcode |-> "random", args |-> <<a>>]
            \/ \E b : /\ asked' = [opcode |-> opcode, args |-> <<a, b>>]
                      /\ ~ Shift(opcode) => b \in AllWords
    BY <1>2, CalculatesWith
  <2>2. CASE asked' = [opcode |-> "random", args |-> <<a>>]
    BY <2>2 DEF Laws
  <2>3. ASSUME NEW b, asked' = [opcode |-> opcode, args |-> <<a, b>>],
               ~ Shift(opcode) => b \in AllWords
        PROVE  Laws
    <3>1. asked'.opcode = opcode /\ asked'.args[1] = a /\ asked'.args[2] = b
      BY <2>3
    <3>2. CASE Shift(opcode)
      <4>1. ShiftLaw(a, ZINT16(b))
        BY ShiftsAreConsistent
      <4>. QED  BY <3>1, <3>2, <4>1 DEF Laws, Shift
    <3>3. CASE ~ Shift(opcode)
      <4>1. DivisionLaw(a, b) /\ BitsLaw(a, b) /\ OrderLaw(a, b)
        BY <2>3, <3>3, DivisionIsConsistent, MasksAreConsistent, OrderIsConsistent
      <4>. QED  BY <3>1, <3>3, <4>1 DEF Laws, Shift
    <3>. QED  BY <3>2, <3>3
  <2>. QED  BY <2>1, <2>2, <2>3
<1>. QED  BY <1>1, <1>2 DEF Next

\* For every set of operands, division, shifts, masks and order of math.c obey the laws of
\* words of 16 bits.
THEOREM LawsOfArithmetic == Spec => ArithmeticLaws
<1>1. [Next]_vars => [Laws]_vars
  BY LawsHold
<1>2. [Laws]_vars =>
        [LET arg == asked'.args IN
         /\ asked'.opcode \in {"div", "mod"} => DivisionLaw(arg[1], arg[2])
         /\ asked'.opcode \in {"log_shift", "art_shift"} => ShiftLaw(arg[1], ZINT16(arg[2]))
         /\ asked'.opcode \in {"and", "or", "test"} => BitsLaw(arg[1], arg[2])
         /\ asked'.opcode \in {"jl", "je", "jg"} => OrderLaw(arg[1], arg[2])]_vars
  BY DEF Laws
<1>. QED  BY <1>1, <1>2, PTL DEF Spec, ArithmeticLaws

-----------------------------------------------------------------------------
(* Stores, one after the other *)

\* The data area.
Area == 0 .. data_size - 1
ByteValues == 0 .. 255
Areas == [Area -> ByteValues]

\* The addresses of the area, as inequalities,
LEMMA SizeIs ==
  /\ data_size \in Nat /\ data_size + 1 < 65536
  /\ \A a : a \in Area <=> a \in Nat /\ a < data_size
<1>1. data_size \in Nat /\ data_size + 1 < 65536
  BY TablesAssumption, PropertiesAssumption DEF WORD
<1>. QED  BY <1>1 DEF Area

\* and the bytes.
LEMMA ByteIs == \A b : b \in ByteValues <=> b \in Nat /\ b < 256
BY DEF ByteValues

\* What a step of Bytes stores.
Source(mem, a) == IF a = Zero THEN 0 ELSE ByteIn(mem, a)
IsSource(a) == a = Zero \/ (a \in Nat /\ InFile(a))

\* A byte of the story file, or the zero of a table that is filled.
LEMMA SourceIsByte ==
  ASSUME NEW mem \in Areas, NEW a, IsSource(a)
  PROVE  Source(mem, a) \in ByteValues
<1>1. 0 \in ByteValues
  BY ByteIs
<1>2. CASE a \in Nat /\ a < data_size
  <2>1. a \in Area
    BY <1>2, SizeIs
  <2>. QED  BY <1>1, <1>2, <2>1 DEF Source, ByteIn, Areas
<1>3. CASE a \in Nat /\ a \in DOMAIN StaticBytes
  <2>1. a >= data_size /\ StaticBytes[a] \in ByteValues
    BY <1>3, TablesAssumption DEF ByteValues
  <2>2. ~ (a < data_size)
    BY <1>3, <2>1, SizeIs
  <2>. QED  BY <1>1, <2>1, <2>2 DEF Source, ByteIn
<1>. QED  BY <1>1, <1>2, <1>3 DEF IsSource, InFile, Source

\* The stores of a copy, one after the other.
StoresDone(n, to, from, last, after) ==
    /\ last \in 0 .. n /\ after \in [0 .. last -> Areas]
    /\ after[0] = datap /\ datap' = after[last]
    /\ \A k \in 1 .. last :
         /\ to[k] \in Area
         /\ after[k] = [after[k - 1] EXCEPT ![to[k]] = Source(after[k - 1], from[k])]
    /\ \/ last = n /\ UNCHANGED status
       \/ last < n /\ Refused(to[last + 1])

\* A loop: each value is a step from the one before.
Fills(last, V, d, step) == last \in Nat /\ d \in V /\ step \in [1 .. last -> [V -> V]]

\* There is a function of the steps of a loop.
LEMMA Filling ==
  ASSUME NEW last, NEW V, NEW d, NEW step, Fills(last, V, d, step)
  PROVE  \E f \in [0 .. last -> V] :
            \A k \in 0 .. last : f[k] = IF k = 0 THEN d ELSE step[k][f[k - 1]]
<1>. USE DEF Fills
<1>. DEFINE D == 0 .. last
            rank == [k \in D |-> k]
            st == [k \in D |-> [f \in [D -> V] |-> IF k = 0 THEN d ELSE step[k][f[k - 1]]]]
<1>1. \A k \in D : k = 0 \/ (k \in 1 .. last /\ k - 1 \in D /\ k - 1 < k)
  OBVIOUS
<1>2. \A k \in D : rank[k] = k /\ k \in Nat /\ k < last + 1
  OBVIOUS
<1>. HIDE DEF D
<1>3. Descends(D, V, rank, last + 1, st)
  <2>1. st \in [D -> [[D -> V] -> V]]
    BY <1>1
  <2>2. rank \in [D -> Nat] /\ last + 1 \in Nat
    BY <1>2
  <2>3. ASSUME NEW k \in D, NEW f \in [D -> V], NEW g \in [D -> V],
               \A y \in D : rank[y] < rank[k] => f[y] = g[y]
        PROVE  st[k][f] = st[k][g]
    <3>1. k # 0 => f[k - 1] = g[k - 1]
      BY <1>1, <1>2, <2>3
    <3>. QED  BY <3>1
  <2>. HIDE DEF st, rank
  <2>. QED  BY <1>2, <2>1, <2>2, <2>3 DEF Descends
<1>4. PICK f \in [D -> V] : \A k \in D : f[k] = st[k][f]
  <2>. HIDE DEF st, rank
  <2>. QED  BY <1>3, RecursiveFunction
<1>5. \A k \in D : f[k] = IF k = 0 THEN d ELSE step[k][f[k - 1]]
  BY <1>4
<1>. QED  BY <1>5 DEF D

\* The loop of Bytes is a chain of stores, up to the first that is refused.
LEMMA BytesAreStored ==
  ASSUME NEW n \in Nat, NEW to \in [1 .. n -> Nat], NEW from \in [1 .. n -> Int],
         \A k \in 1 .. n : IsSource(from[k]),
         datap \in Areas, Bytes(n, to, from)
  PROVE  \E last, after : StoresDone(n, to, from, last, after)
<1>. DEFINE refused == {k \in 1 .. n : to[k] >= data_size}
            last == IF refused = {} THEN n
                    ELSE (CHOOSE k \in refused : \A j \in refused : k <= j) - 1
<1>1. /\ last \in 0 .. n /\ \A k \in 1 .. last : k \in 1 .. n /\ to[k] \in Area
      /\ last # n => last + 1 \in 1 .. n
  <2>1. CASE refused = {}
    <3>1. last = n
      BY <2>1
    <3>2. \A k \in 1 .. n : to[k] \in Nat /\ ~ (to[k] >= data_size)
      BY <2>1
    <3>. QED  BY <3>1, <3>2, SizeIs
  <2>2. CASE refused # {}
    <3>1. refused \subseteq Nat
      OBVIOUS
    <3>2. PICK m \in refused : \A j \in refused : ~ (j < m)
      <4>. HIDE DEF refused
      <4>. QED  BY <2>2, <3>1, LeastElement
    <3>3. \A j \in refused : m <= j
      BY <3>1, <3>2
    <3>. DEFINE c == CHOOSE k \in refused : \A j \in refused : k <= j
    <3>4. c \in refused /\ \A j \in refused : c <= j
      BY <3>2, <3>3
    <3>5. last = c - 1
      BY <2>2
    <3>. HIDE DEF c
    <3>6. c \in 1 .. n
      BY <3>4
    <3>7. ASSUME NEW k \in 1 .. last  PROVE k \in 1 .. n /\ to[k] \in Area
      <4>1. k \in 1 .. n /\ k < c
        BY <3>5, <3>6, <3>7
      <4>2. k \notin refused
        BY <3>4, <3>6, <4>1
      <4>3. to[k] \in Nat /\ ~ (to[k] >= data_size)
        BY <4>1, <4>2
      <4>. QED  BY <4>1, <4>3, SizeIs
    <3>. HIDE DEF last
    <3>8. last \in 0 .. n /\ last + 1 = c
      BY <3>5, <3>6
    <3>. QED  BY <3>6, <3>7, <3>8
  <2>. QED  BY <2>1, <2>2
<1>. DEFINE after[k \in 0 .. last] ==
              IF k = 0 THEN datap
              ELSE LET mem == after[k - 1]
                   IN [mem EXCEPT ![to[k]] = IF from[k] = Zero THEN 0 ELSE ByteIn(mem, from[k])]
<1>2. /\ datap' = after[last]
      /\ IF last = n THEN UNCHANGED status ELSE Refused(to[last + 1])
  BY DEF Bytes
<1>3. after = [k \in 0 .. last |->
                 IF k = 0 THEN datap
                 ELSE [after[k - 1] EXCEPT ![to[k]] = Source(after[k - 1], from[k])]]
  <2>. DEFINE step == [k \in 1 .. last |-> [mem \in Areas |->
                         [mem EXCEPT ![to[k]] = Source(mem, from[k])]]]
  <2>. HIDE DEF last
  <2>1. step \in [1 .. last -> [Areas -> Areas]]
    <3>1. ASSUME NEW k \in 1 .. last, NEW mem \in Areas
          PROVE  [mem EXCEPT ![to[k]] = Source(mem, from[k])] \in Areas
      <4>1. to[k] \in Area /\ Source(mem, from[k]) \in ByteValues
        BY <1>1, SourceIsByte
      <4>. QED  BY <4>1 DEF Areas
    <3>. QED  BY <3>1
  <2>2. last \in Nat
    BY <1>1
  <2>3. \A k \in 1 .. last, mem \in Areas : step[k][mem] = [mem EXCEPT ![to[k]] = Source(mem, from[k])]
    OBVIOUS
  <2>. HIDE DEF step
  <2>4. PICK f \in [0 .. last -> Areas] :
               \A k \in 0 .. last : f[k] = IF k = 0 THEN datap ELSE step[k][f[k - 1]]
    <3>1. Fills(last, Areas, datap, step)
      BY <2>1, <2>2 DEF Fills
    <3>. QED  BY <3>1, Filling
  <2>5. ASSUME NEW k \in 0 .. last
        PROVE  f[k] = IF k = 0 THEN datap ELSE [f[k - 1] EXCEPT ![to[k]] = Source(f[k - 1], from[k])]
    <3>1. CASE k # 0
      <4>1. k \in 1 .. last /\ f[k - 1] \in Areas
        BY <2>2, <3>1
      <4>. QED  BY <2>3, <2>4, <3>1, <4>1
    <3>. QED  BY <2>4, <3>1
  <2>6. f = [k \in 0 .. last |->
                 IF k = 0 THEN datap
                 ELSE [f[k - 1] EXCEPT ![to[k]] = Source(f[k - 1], from[k])]]
    BY <2>5
  <2>7. f = [k \in 0 .. last |->
              IF k = 0 THEN datap
              ELSE LET mem == f[k - 1]
                   IN [mem EXCEPT ![to[k]] = IF from[k] = Zero THEN 0 ELSE ByteIn(mem, from[k])]]
    BY <2>6 DEF Source
  <2>8. after = [k \in 0 .. last |->
              IF k = 0 THEN datap
              ELSE LET mem == after[k - 1]
                   IN [mem EXCEPT ![to[k]] = IF from[k] = Zero THEN 0 ELSE ByteIn(mem, from[k])]]
    BY <2>7
  <2>. HIDE DEF after
  <2>. QED  BY <2>8 DEF Source
<1>. HIDE DEF after, last
<1>4. after[0] = datap /\ \A k \in 1 .. last :
         after[k] = [after[k - 1] EXCEPT ![to[k]] = Source(after[k - 1], from[k])]
  <2>1. last \in Nat
    BY <1>1
  <2>2. 0 \in 0 .. last
    BY <2>1
  <2>3. after[0] = datap
    BY <1>3, <2>2
  <2>4. ASSUME NEW k \in 1 .. last
        PROVE after[k] = [after[k - 1] EXCEPT ![to[k]] = Source(after[k - 1], from[k])]
    <3>1. k \in 0 .. last /\ k # 0
      BY <2>1
    <3>. QED  BY <1>3, <3>1
  <2>. QED  BY <2>3, <2>4
<1>5. after \in [0 .. last -> Areas]
  <2>. DEFINE S == {i \in Nat : i \in 0 .. last => after[i] \in Areas}
  <2>1. ASSUME NEW i \in Nat, 0 .. i - 1 \subseteq S  PROVE i \in S
    <3>. SUFFICES ASSUME i \in 0 .. last  PROVE after[i] \in Areas
      OBVIOUS
    <3>1. CASE i = 0
      BY <1>4, <3>1
    <3>2. CASE i # 0
      <4>1. i - 1 \in 0 .. i - 1 /\ i - 1 \in 0 .. last /\ i \in 1 .. last
        BY <1>1, <3>2
      <4>2. after[i - 1] \in Areas
        BY <2>1, <4>1
      <4>3. to[i] \in Area /\ Source(after[i - 1], from[i]) \in ByteValues
        BY <1>1, <4>1, <4>2, SourceIsByte
      <4>4. after[i] = [after[i - 1] EXCEPT ![to[i]] = Source(after[i - 1], from[i])]
        BY <1>4, <4>1
      <4>. QED  BY <4>2, <4>3, <4>4 DEF Areas
    <3>. QED  BY <3>1, <3>2
  <2>2. Nat \subseteq S
    <3>. HIDE DEF S
    <3>. QED  BY <2>1, Ladder
  <2>3. \A i \in 0 .. last : i \in Nat
    BY <1>1
  <2>4. \A i \in 0 .. last : after[i] \in Areas
    BY <2>2, <2>3
  <2>5. DOMAIN after = 0 .. last /\ after = [i \in 0 .. last |-> after[i]]
    BY <1>3
  <2>. QED  BY <2>4, <2>5
<1>6. StoresDone(n, to, from, last, after)
  <2>1. last = n \/ last < n
    BY <1>1
  <2>. QED  BY <1>1, <1>2, <1>4, <1>5, <2>1 DEF StoresDone
<1>. QED  BY <1>6

-----------------------------------------------------------------------------
(* What a chain of stores copies *)

\* Stores leave every byte that is not stored, and all are made if the program goes on.
LEMMA StoresChange ==
  ASSUME NEW n \in Nat, NEW to \in [1 .. n -> Nat], NEW from, NEW last, NEW after,
         StoresDone(n, to, from, last, after), status = "run"
  PROVE  /\ datap' \in Areas
         /\ \A a \in Area : (\A k \in 1 .. n : to[k] # a) => datap'[a] = datap[a]
         /\ status' \in {"run", "fatal", "undefined"}
         /\ status' = "run" => last = n
<1>1. /\ last \in 0 .. n /\ after \in [0 .. last -> Areas] /\ datap' = after[last]
      /\ after[0] = datap
      /\ \A k \in 1 .. last :
           /\ to[k] \in Area
           /\ after[k] = [after[k - 1] EXCEPT ![to[k]] = Source(after[k - 1], from[k])]
      /\ \/ last = n /\ UNCHANGED status
         \/ last < n /\ Refused(to[last + 1])
  BY DEF StoresDone
<1>2. datap' \in Areas
  BY <1>1
<1>3. ASSUME NEW a \in Area, \A k \in 1 .. n : to[k] # a
      PROVE  datap'[a] = datap[a]
  <2>. DEFINE S == {i \in Nat : i \in 0 .. last => after[i][a] = datap[a]}
  <2>1. ASSUME NEW i \in Nat, 0 .. i - 1 \subseteq S  PROVE i \in S
    <3>. SUFFICES ASSUME i \in 0 .. last  PROVE after[i][a] = datap[a]
      OBVIOUS
    <3>1. CASE i = 0
      BY <1>1, <3>1
    <3>2. CASE i # 0
      <4>1. i - 1 \in 0 .. i - 1 /\ i - 1 \in 0 .. last /\ i \in 1 .. last /\ i \in 1 .. n
        BY <1>1, <3>2
      <4>2. after[i - 1][a] = datap[a] /\ after[i - 1] \in Areas
        BY <1>1, <2>1, <4>1
      <4>3. to[i] # a /\ after[i] = [after[i - 1] EXCEPT ![to[i]] = Source(after[i - 1], from[i])]
        BY <1>1, <1>3, <4>1
      <4>. QED  BY <4>2, <4>3 DEF Areas
    <3>. QED  BY <3>1, <3>2
  <2>2. Nat \subseteq S
    <3>. HIDE DEF S
    <3>. QED  BY <2>1, Ladder
  <2>3. last \in Nat /\ last \in 0 .. last
    BY <1>1
  <2>. QED  BY <1>1, <2>2, <2>3
<1>4. status' \in {"run", "fatal", "undefined"} /\ (status' = "run" => last = n)
  BY <1>1 DEF Refused
<1>. QED  BY <1>2, <1>3, <1>4

\* Remainders go on every g numbers.
LEMMA RemainderIs ==
  ASSUME NEW m \in Nat, NEW g \in Nat, g > 0
  PROVE  /\ m < g => m % g = m
         /\ m >= g => m - g \in Nat /\ (m - g) % g = m % g
         /\ m % g \in Nat
<1>1. /\ m \div g \in Int /\ m % g \in 0 .. g - 1 /\ m = g * (m \div g) + (m % g)
  BY DivisionIs
<1>2. ASSUME m < g  PROVE m % g = m
  <2>1. PICK z \in Int : z = 0
    OBVIOUS
  <2>2. m = g * z + m /\ m \in 0 .. g - 1
    BY <1>2, <2>1
  <2>. QED  BY <2>2, DivisionUnique
<1>3. ASSUME m >= g  PROVE m - g \in Nat /\ (m - g) % g = m % g
  <2>. DEFINE q == m \div g
              r == m % g
  <2>1. m - g \in Nat /\ q - 1 \in Int /\ r \in 0 .. g - 1 /\ m - g = g * (q - 1) + r
    <3>1. g * (q - 1) = g * q - g
      BY <1>1
    <3>. HIDE DEF q, r
    <3>. QED  BY <1>1, <1>3, <3>1 DEF q, r
  <2>. HIDE DEF q, r
  <2>2. (m - g) % g = r
    BY <2>1, DivisionUnique
  <2>. QED  BY <2>1, <2>2 DEF r
<1>. QED  BY <1>1, <1>2, <1>3

\* Which byte of the source a byte of the copy is, first byte first,
TurnedUp(src, dst, i) == IF dst < src THEN i ELSE i % (dst - src)

\* The bytes of a copy from the first on.
IsChainUp(mem, src, dst, n, after) ==
    /\ after \in [0 .. n -> Areas] /\ after[0] = mem
    /\ \A j \in 0 .. n - 1 :
         /\ dst + j \in Area
         /\ after[j + 1] = [after[j] EXCEPT ![dst + j] = ByteIn(after[j], src + j)]

\* Copied from the first byte on to a place behind, the bytes of the gap repeat.
LEMMA ChainUp ==
  ASSUME NEW mem \in Areas, NEW src \in Nat, NEW dst \in Nat, NEW n \in Nat, src # dst,
         NEW after, IsChainUp(mem, src, dst, n, after)
  PROVE  \A i \in 0 .. n - 1 :
           after[n][dst + i] = ByteIn(mem, src + TurnedUp(src, dst, i))
<1>. USE DEF IsChainUp
<1>. USE DEF TurnedUp
<1>. DEFINE turned(i) == TurnedUp(src, dst, i)
            value(a, k) == IF dst <= a /\ a < dst + k THEN ByteIn(mem, src + turned(a - dst)) ELSE mem[a]
            S == {k \in Nat : k <= n => \A a \in Area : after[k][a] = value(a, k)}
<1>1. ASSUME NEW k \in Nat, 0 .. k - 1 \subseteq S  PROVE k \in S
  <2>. SUFFICES ASSUME k <= n, NEW a \in Area  PROVE after[k][a] = value(a, k)
    OBVIOUS
  <2>0. a \in Nat /\ a < data_size
    BY SizeIs
  <2>1. CASE k = 0
    <3>1. ~ (dst <= a /\ a < dst + k)
      BY <2>0, <2>1
    <3>. QED  BY <2>1, <3>1
  <2>2. CASE k # 0
    <3>1. PICK j \in 0 .. n - 1 : k = j + 1 /\ j \in 0 .. k - 1 /\ j \in Nat /\ j <= n
      <4>1. k - 1 \in 0 .. n - 1 /\ k = (k - 1) + 1 /\ k - 1 \in 0 .. k - 1
        BY <2>2
      <4>. QED  BY <4>1
    <3>2. \A b \in Area : after[j][b] = value(b, j)
      <4>1. j \in S
        BY <1>1, <3>1
      <4>. QED  BY <3>1, <4>1
    <3>3. /\ after[j] \in Areas /\ dst + j \in Area
          /\ after[k] = [after[j] EXCEPT ![dst + j] = ByteIn(after[j], src + j)]
      <4>1. j \in 0 .. n
        BY <3>1
      <4>. QED  BY <3>1, <4>1
    <3>. HIDE DEF S
    <3>4. CASE a # dst + j
      <4>1. after[k][a] = after[j][a]
        BY <3>3, <3>4 DEF Areas
      <4>2. (dst <= a /\ a < dst + k) <=> (dst <= a /\ a < dst + j)
        BY <2>0, <3>1, <3>4
      <4>. QED  BY <3>2, <4>1, <4>2
    <3>5. CASE a = dst + j
      <4>. DEFINE b == src + j
      <4>1. after[k][a] = ByteIn(after[j], b)
        BY <3>3, <3>5 DEF Areas
      <4>2. b \in Nat
        BY <3>1
      <4>3. CASE b >= data_size
        <5>1. dst + j < data_size
          BY <3>3, SizeIs
        <5>2. dst < src
          BY <3>1, <4>3, <5>1, SizeIs
        <5>3. ~ (b < data_size)
          BY <4>2, <4>3, SizeIs
        <5>. HIDE DEF value
        <5>4. ByteIn(after[j], b) = ByteIn(mem, b)
          <6>. HIDE DEF b
          <6>. QED  BY <5>3 DEF ByteIn
        <5>5. dst <= a /\ a < dst + k /\ a - dst = j
          BY <3>1, <3>5
        <5>6. value(a, k) = ByteIn(mem, src + j)
          BY <5>2, <5>5 DEF value
        <5>. QED  BY <4>1, <5>4, <5>6
      <4>4. CASE b < data_size
        <5>1. b \in Area
          BY <4>2, <4>4, SizeIs
        <5>2. ByteIn(after[j], b) = value(b, j) /\ ByteIn(mem, b) = mem[b]
          BY <3>2, <4>4, <5>1 DEF ByteIn
        <5>3. dst <= a /\ a < dst + k /\ a - dst = j
          BY <3>1, <3>5
        <5>4. value(a, k) = ByteIn(mem, src + turned(j))
          BY <5>3
        <5>5. value(b, j) = ByteIn(mem, src + turned(j))
          <6>1. CASE dst < src
            <7>1. ~ (b < dst + j)
              BY <3>1, <6>1
            <7>. QED  BY <5>2, <6>1, <7>1
          <6>2. CASE src < dst
            <7>. DEFINE gap == dst - src
            <7>1. gap \in Nat /\ gap > 0 /\ ~ (dst < src)
              BY <6>2
            <7>2. CASE j < gap
              <8>1. j % gap = j
                <9>. HIDE DEF gap
                <9>. QED  BY <3>1, <7>1, <7>2, RemainderIs
              <8>2. ~ (dst <= b)
                BY <3>1, <7>1, <7>2
              <8>. QED  BY <5>2, <7>1, <8>1, <8>2
            <7>3. CASE j >= gap
              <8>1. (j - gap) % gap = j % gap
                <9>. HIDE DEF gap
                <9>. QED  BY <3>1, <7>1, <7>3, RemainderIs
              <8>2. dst <= b /\ b < dst + j /\ b - dst = j - gap
                BY <3>1, <7>1, <7>3
              <8>. QED  BY <7>1, <8>1, <8>2
            <7>. QED  BY <3>1, <7>1, <7>2, <7>3
          <6>. QED  BY <6>1, <6>2
        <5>. HIDE DEF value
        <5>. QED  BY <4>1, <5>2, <5>4, <5>5
      <4>. QED  BY <4>2, <4>3, <4>4, SizeIs
    <3>. QED  BY <3>4, <3>5
  <2>. QED  BY <2>1, <2>2
<1>2. n \in S
  <2>. HIDE DEF S
  <2>. QED  BY <1>1, Ladder
<1>3. ASSUME NEW i \in 0 .. n - 1  PROVE after[n][dst + i] = ByteIn(mem, src + turned(i))
  <2>1. dst + i \in Area
    OBVIOUS
  <2>2. after[n][dst + i] = value(dst + i, n)
    BY <1>2, <2>1
  <2>3. dst <= dst + i /\ dst + i < dst + n /\ (dst + i) - dst = i
    OBVIOUS
  <2>. QED  BY <2>2, <2>3
<1>. QED  BY <1>3

\* Which byte of the source a byte of the copy is, last byte first.
TurnedDown(src, dst, n, i) == IF src < dst THEN i ELSE n - 1 - ((n - 1 - i) % (src - dst))

\* The bytes of a copy from the last on.
IsChainDown(mem, src, dst, n, after) ==
    /\ after \in [0 .. n -> Areas] /\ after[0] = mem
    /\ \A j \in 0 .. n - 1 :
         /\ dst + (n - 1 - j) \in Area
         /\ after[j + 1] = [after[j] EXCEPT ![dst + (n - 1 - j)] = ByteIn(after[j], src + (n - 1 - j))]

\* Copied from the last byte on to a place in front, they repeat from the end.
LEMMA ChainDown ==
  ASSUME NEW mem \in Areas, NEW src \in Nat, NEW dst \in Nat, NEW n \in Nat, src # dst,
         NEW after, IsChainDown(mem, src, dst, n, after)
  PROVE  \A i \in 0 .. n - 1 :
           after[n][dst + i] =
             ByteIn(mem, src + TurnedDown(src, dst, n, i))
<1>. USE DEF IsChainDown
<1>. USE DEF TurnedDown
<1>. DEFINE turned(i) == TurnedDown(src, dst, n, i)
            value(a, k) == IF dst + (n - k) <= a /\ a < dst + n
                           THEN ByteIn(mem, src + turned(a - dst)) ELSE mem[a]
            S == {k \in Nat : k <= n => \A a \in Area : after[k][a] = value(a, k)}
<1>1. ASSUME NEW k \in Nat, 0 .. k - 1 \subseteq S  PROVE k \in S
  <2>. SUFFICES ASSUME k <= n, NEW a \in Area  PROVE after[k][a] = value(a, k)
    OBVIOUS
  <2>0. a \in Nat /\ a < data_size
    BY SizeIs
  <2>1. CASE k = 0
    <3>1. ~ (dst + (n - k) <= a /\ a < dst + n)
      BY <2>0, <2>1
    <3>. QED  BY <2>1, <3>1
  <2>2. CASE k # 0
    <3>1. PICK j \in 0 .. n - 1 : k = j + 1 /\ j \in 0 .. k - 1 /\ j \in Nat /\ j <= n
      <4>1. k - 1 \in 0 .. n - 1 /\ k = (k - 1) + 1 /\ k - 1 \in 0 .. k - 1
        BY <2>2
      <4>. QED  BY <4>1
    <3>2. \A b \in Area : after[j][b] = value(b, j)
      <4>1. j \in S
        BY <1>1, <3>1
      <4>. QED  BY <3>1, <4>1
    <3>3. PICK m \in 0 .. n - 1 :
            /\ m = n - 1 - j /\ j = n - 1 - m /\ n - k = m /\ n - j = m + 1
            /\ after[j] \in Areas /\ dst + m \in Area
            /\ after[k] = [after[j] EXCEPT ![dst + m] = ByteIn(after[j], src + m)]
      <4>1. j \in 0 .. n
        BY <3>1
      <4>2. n - 1 - j \in 0 .. n - 1
        BY <3>1
      <4>3. PICK m \in 0 .. n - 1 : m = n - 1 - j
        BY <4>2
      <4>4. j = n - 1 - m /\ n - k = m /\ n - j = m + 1
        BY <3>1, <4>3
      <4>5. /\ after[j] \in Areas /\ dst + m \in Area
            /\ after[k] = [after[j] EXCEPT ![dst + m] = ByteIn(after[j], src + m)]
        BY <3>1, <4>1, <4>3
      <4>. QED  BY <4>3, <4>4, <4>5
    <3>9. m \in Nat /\ m < n
      OBVIOUS
    <3>. HIDE DEF S
    <3>4. CASE a # dst + m
      <4>1. after[k][a] = after[j][a]
        BY <3>3, <3>4 DEF Areas
      <4>2. (dst + (n - k) <= a /\ a < dst + n) <=> (dst + (n - j) <= a /\ a < dst + n)
        BY <2>0, <3>3, <3>4, <3>9
      <4>. QED  BY <3>2, <4>1, <4>2
    <3>5. CASE a = dst + m
      <4>. DEFINE b == src + m
      <4>1. after[k][a] = ByteIn(after[j], b)
        BY <3>3, <3>5 DEF Areas
      <4>2. b \in Nat
        BY <3>9
      <4>0. /\ dst + (n - k) <= a /\ a < dst + n /\ a - dst = m
            /\ value(a, k) = ByteIn(mem, src + turned(m))
        <5>1. dst + (n - k) <= a /\ a < dst + n /\ a - dst = m
          BY <3>3, <3>5, <3>9
        <5>. QED  BY <5>1
      <4>3. CASE b >= data_size
        <5>1. ~ (b < data_size)
          BY <4>2, <4>3, SizeIs
        <5>2. ByteIn(after[j], b) = ByteIn(mem, b)
          <6>. HIDE DEF b, value
          <6>. QED  BY <5>1 DEF ByteIn
        <5>3. turned(m) = m
          <6>1. CASE src < dst
            BY <6>1
          <6>2. CASE dst < src
            <7>. DEFINE gap == src - dst
                        r == n - 1 - m
            <7>1. gap \in Nat /\ gap > 0 /\ ~ (src < dst) /\ r \in Nat /\ n - 1 - r = m
              BY <3>9, <6>2
            <7>2. dst + (n - 1) < data_size
              <8>1. 0 \in 0 .. n - 1
                BY <3>9
              <8>2. n - 1 - 0 = n - 1
                OBVIOUS
              <8>3. dst + (n - 1) \in Area
                BY <8>1, <8>2
              <8>. QED  BY <8>3, SizeIs
            <7>3. r < gap
              BY <3>9, <4>3, <7>2, SizeIs
            <7>4. r % gap = r
              <8>. HIDE DEF gap, r
              <8>. QED  BY <7>1, <7>3, RemainderIs
            <7>. QED  BY <7>1, <7>4
          <6>. QED  BY <6>1, <6>2
        <5>. HIDE DEF value, turned
        <5>. QED  BY <4>0, <4>1, <5>2, <5>3
      <4>4. CASE b < data_size
        <5>1. b \in Area
          BY <4>2, <4>4, SizeIs
        <5>2. ByteIn(after[j], b) = value(b, j) /\ ByteIn(mem, b) = mem[b]
          BY <3>2, <4>4, <5>1 DEF ByteIn
        <5>5. value(b, j) = ByteIn(mem, src + turned(m))
          <6>1. CASE src < dst
            <7>1. ~ (dst + (n - j) <= b)
              BY <3>3, <3>9, <6>1
            <7>. QED  BY <5>2, <6>1, <7>1
          <6>2. CASE dst < src
            <7>. DEFINE gap == src - dst
                        r == n - 1 - m
            <7>1. gap \in Nat /\ gap > 0 /\ ~ (src < dst) /\ r \in Nat /\ n - 1 - r = m
              BY <3>9, <6>2
            <7>2. CASE r < gap
              <8>1. r % gap = r
                <9>. HIDE DEF gap, r
                <9>. QED  BY <7>1, <7>2, RemainderIs
              <8>2. ~ (b < dst + n)
                BY <3>9, <7>1, <7>2
              <8>. QED  BY <5>2, <7>1, <8>1, <8>2
            <7>3. CASE r >= gap
              <8>1. (r - gap) % gap = r % gap
                <9>. HIDE DEF gap, r
                <9>. QED  BY <7>1, <7>3, RemainderIs
              <8>2. /\ dst + (n - j) <= b /\ b < dst + n
                    /\ b - dst = m + gap /\ n - 1 - (m + gap) = r - gap
                BY <3>3, <3>9, <7>1, <7>3
              <8>. QED  BY <7>1, <8>1, <8>2
            <7>. QED  BY <7>1, <7>2, <7>3
          <6>. QED  BY <6>1, <6>2
        <5>. HIDE DEF value
        <5>. QED  BY <4>0, <4>1, <5>2, <5>5
      <4>. QED  BY <4>2, <4>3, <4>4, SizeIs
    <3>. QED  BY <3>4, <3>5
  <2>. QED  BY <2>1, <2>2
<1>2. n \in S
  <2>. HIDE DEF S
  <2>. QED  BY <1>1, Ladder
<1>3. ASSUME NEW i \in 0 .. n - 1  PROVE after[n][dst + i] = ByteIn(mem, src + turned(i))
  <2>1. dst + i \in Area
    <3>1. PICK j \in 0 .. n - 1 : i = n - 1 - j
      <4>1. n - 1 - i \in 0 .. n - 1 /\ i = n - 1 - (n - 1 - i)
        OBVIOUS
      <4>. QED  BY <4>1
    <3>. QED  BY <3>1
  <2>2. after[n][dst + i] = value(dst + i, n)
    BY <1>2, <2>1
  <2>3. dst + (n - n) <= dst + i /\ dst + i < dst + n /\ (dst + i) - dst = i
    OBVIOUS
  <2>. QED  BY <2>2, <2>3
<1>. QED  BY <1>3

-----------------------------------------------------------------------------
(* The forms of copy_table *)

\* What the three forms of copy_table do to the area, whatever ends them.
Touches(low, high) ==
    /\ datap' \in Areas /\ status' \in {"run", "fatal", "undefined"}
    /\ \A a \in Area : ~ (low <= a /\ a < high) => datap'[a] = datap[a]

Readable(src, n) == \A i \in 0 .. n - 1 : InFile(src + i)

\* A word is its own conversion.
LEMMA ZwordOfWord == \A a \in Nat : a < 65536 => zword_t(a) = a
<1>1. \A a \in Nat : a < 65536 => a \in AllWords /\ a \in Int
  BY DEF AllWords
<1>. QED  BY <1>1, ZwordIs

\* copy_table from the first byte on: what it changes, and what is there behind it;
LEMMA CopiedUpIs ==
  ASSUME NEW src \in Nat, NEW dst \in Nat, NEW n \in Nat, src # dst, dst + n < 65536,
         Readable(src, n),
         datap \in Areas, status = "run", CopiedUp(src, dst, n)
  PROVE  /\ Touches(dst, dst + n)
         /\ status' = "run" =>
              \A i \in 0 .. n - 1 :
                 datap'[dst + i] = ByteIn(datap, src + TurnedUp(src, dst, i))
<1>. DEFINE to == [k \in 1 .. n |-> zword_t(dst + k - 1)]
            from == [k \in 1 .. n |-> src + k - 1]
<1>1. ASSUME NEW k \in 1 .. n
      PROVE  zword_t(dst + k - 1) = dst + (k - 1) /\ dst + (k - 1) \in Nat /\ src + k - 1 = src + (k - 1)
             /\ src + (k - 1) \in Nat /\ InFile(src + (k - 1))
  <2>1. dst + k - 1 \in Nat /\ dst + k - 1 < 65536 /\ dst + k - 1 = dst + (k - 1)
    OBVIOUS
  <2>2. k - 1 \in 0 .. n - 1
    OBVIOUS
  <2>. QED  BY <2>1, <2>2, ZwordOfWord DEF Readable
<1>2. /\ to = [k \in 1 .. n |-> dst + (k - 1)] /\ from = [k \in 1 .. n |-> src + (k - 1)]
  BY <1>1
<1>3. Bytes(n, to, from)
  BY DEF CopiedUp
<1>. HIDE DEF to, from
<1>4. to \in [1 .. n -> Nat] /\ from \in [1 .. n -> Int]
  BY <1>1, <1>2
<1>5. \A k \in 1 .. n : to[k] = dst + (k - 1) /\ from[k] = src + (k - 1)
  BY <1>2
<1>6. \A k \in 1 .. n : IsSource(from[k])
  BY <1>1, <1>5 DEF IsSource
<1>7. PICK last, after : StoresDone(n, to, from, last, after)
  BY <1>3, <1>4, <1>6, BytesAreStored
<1>8. /\ datap' \in Areas /\ status' \in {"run", "fatal", "undefined"}
      /\ status' = "run" => last = n
      /\ \A a \in Area : (\A k \in 1 .. n : to[k] # a) => datap'[a] = datap[a]
  BY <1>4, <1>7, StoresChange
<1>9. Touches(dst, dst + n)
  <2>1. ASSUME NEW a \in Area, ~ (dst <= a /\ a < dst + n)  PROVE datap'[a] = datap[a]
    <3>1. a \in Nat
      BY SizeIs
    <3>2. ASSUME NEW k \in 1 .. n  PROVE to[k] # a
      <4>1. dst <= dst + (k - 1) /\ dst + (k - 1) < dst + n
        OBVIOUS
      <4>. QED  BY <1>5, <2>1, <4>1
    <3>. QED  BY <1>8, <3>2
  <2>. QED  BY <1>8, <2>1 DEF Touches
<1>10. ASSUME status' = "run"
       PROVE \A i \in 0 .. n - 1 :
               datap'[dst + i] = ByteIn(datap, src + TurnedUp(src, dst, i))
  <2>0. StoresDone(n, to, from, n, after)
    BY <1>7, <1>8, <1>10
  <2>1. after \in [0 .. n -> Areas] /\ datap' = after[n] /\ after[0] = datap
    BY <2>0 DEF StoresDone
  <2>4. \A k \in 1 .. n :
          /\ to[k] \in Area
          /\ after[k] = [after[k - 1] EXCEPT ![to[k]] = Source(after[k - 1], from[k])]
    BY <2>0 DEF StoresDone
  <2>2. ASSUME NEW j \in 0 .. n - 1
        PROVE  /\ dst + j \in Area
               /\ after[j + 1] = [after[j] EXCEPT ![dst + j] = ByteIn(after[j], src + j)]
    <3>1. PICK k \in 1 .. n : k = j + 1 /\ k - 1 = j
      <4>1. j + 1 \in 1 .. n /\ (j + 1) - 1 = j
        OBVIOUS
      <4>. QED  BY <4>1
    <3>2. to[k] = dst + j /\ from[k] = src + j
      BY <1>5, <3>1
    <3>3. src + j # Zero
      BY DEF Zero
    <3>4. /\ to[k] \in Area
          /\ after[k] = [after[k - 1] EXCEPT ![to[k]] = Source(after[k - 1], from[k])]
      BY <2>4
    <3>. QED  BY <3>1, <3>2, <3>3, <3>4 DEF Source
  <2>3. \A i \in 0 .. n - 1 :
          after[n][dst + i] = ByteIn(datap, src + TurnedUp(src, dst, i))
    <3>1. IsChainUp(datap, src, dst, n, after)
      BY <2>1, <2>2 DEF IsChainUp
    <3>. QED  BY <3>1, ChainUp
  <2>. QED  BY <2>1, <2>3
<1>. QED  BY <1>9, <1>10

\* from the last byte on;
LEMMA CopiedDownIs ==
  ASSUME NEW src \in Nat, NEW dst \in Nat, NEW n \in Nat, src # dst, dst + n < 65536,
         Readable(src, n),
         datap \in Areas, status = "run", CopiedDown(src, dst, n)
  PROVE  /\ Touches(dst, dst + n)
         /\ status' = "run" =>
              \A i \in 0 .. n - 1 :
                 datap'[dst + i] =
                   ByteIn(datap, src + TurnedDown(src, dst, n, i))
<1>. DEFINE to == [k \in 1 .. n |-> zword_t(dst + n - k)]
            from == [k \in 1 .. n |-> src + n - k]
<1>1. ASSUME NEW k \in 1 .. n
      PROVE  zword_t(dst + n - k) = dst + (n - k) /\ dst + (n - k) \in Nat /\ src + n - k = src + (n - k)
             /\ src + (n - k) \in Nat /\ InFile(src + (n - k))
  <2>1. dst + n - k \in Nat /\ dst + n - k < 65536 /\ dst + n - k = dst + (n - k)
    OBVIOUS
  <2>2. n - k \in 0 .. n - 1
    OBVIOUS
  <2>. QED  BY <2>1, <2>2, ZwordOfWord DEF Readable
<1>2. /\ to = [k \in 1 .. n |-> dst + (n - k)] /\ from = [k \in 1 .. n |-> src + (n - k)]
  BY <1>1
<1>3. Bytes(n, to, from)
  BY DEF CopiedDown
<1>. HIDE DEF to, from
<1>4. to \in [1 .. n -> Nat] /\ from \in [1 .. n -> Int]
  BY <1>1, <1>2
<1>5. \A k \in 1 .. n : to[k] = dst + (n - k) /\ from[k] = src + (n - k)
  BY <1>2
<1>6. \A k \in 1 .. n : IsSource(from[k])
  BY <1>1, <1>5 DEF IsSource
<1>7. PICK last, after : StoresDone(n, to, from, last, after)
  BY <1>3, <1>4, <1>6, BytesAreStored
<1>8. /\ datap' \in Areas /\ status' \in {"run", "fatal", "undefined"}
      /\ status' = "run" => last = n
      /\ \A a \in Area : (\A k \in 1 .. n : to[k] # a) => datap'[a] = datap[a]
  BY <1>4, <1>7, StoresChange
<1>9. Touches(dst, dst + n)
  <2>1. ASSUME NEW a \in Area, ~ (dst <= a /\ a < dst + n)  PROVE datap'[a] = datap[a]
    <3>1. a \in Nat
      BY SizeIs
    <3>2. ASSUME NEW k \in 1 .. n  PROVE to[k] # a
      <4>1. dst <= dst + (n - k) /\ dst + (n - k) < dst + n
        OBVIOUS
      <4>. QED  BY <1>5, <2>1, <4>1
    <3>. QED  BY <1>8, <3>2
  <2>. QED  BY <1>8, <2>1 DEF Touches
<1>10. ASSUME status' = "run"
       PROVE \A i \in 0 .. n - 1 :
               datap'[dst + i] =
                 ByteIn(datap, src + TurnedDown(src, dst, n, i))
  <2>0. StoresDone(n, to, from, n, after)
    BY <1>7, <1>8, <1>10
  <2>1. after \in [0 .. n -> Areas] /\ datap' = after[n] /\ after[0] = datap
    BY <2>0 DEF StoresDone
  <2>4. \A k \in 1 .. n :
          /\ to[k] \in Area
          /\ after[k] = [after[k - 1] EXCEPT ![to[k]] = Source(after[k - 1], from[k])]
    BY <2>0 DEF StoresDone
  <2>2. ASSUME NEW j \in 0 .. n - 1
        PROVE  /\ dst + (n - 1 - j) \in Area
               /\ after[j + 1] = [after[j] EXCEPT ![dst + (n - 1 - j)] = ByteIn(after[j], src + (n - 1 - j))]
    <3>1. PICK k \in 1 .. n : k = j + 1 /\ k - 1 = j /\ n - k = n - 1 - j
      <4>1. j + 1 \in 1 .. n /\ (j + 1) - 1 = j /\ n - (j + 1) = n - 1 - j
        OBVIOUS
      <4>. QED  BY <4>1
    <3>2. to[k] = dst + (n - 1 - j) /\ from[k] = src + (n - 1 - j)
      BY <1>5, <3>1
    <3>3. src + (n - 1 - j) # Zero
      BY DEF Zero
    <3>4. /\ to[k] \in Area
          /\ after[k] = [after[k - 1] EXCEPT ![to[k]] = Source(after[k - 1], from[k])]
      BY <2>4
    <3>. QED  BY <3>1, <3>2, <3>3, <3>4 DEF Source
  <2>3. \A i \in 0 .. n - 1 :
          after[n][dst + i] =
             ByteIn(datap, src + TurnedDown(src, dst, n, i))
    <3>1. IsChainDown(datap, src, dst, n, after)
      BY <2>1, <2>2 DEF IsChainDown
    <3>. QED  BY <3>1, ChainDown
  <2>. QED  BY <2>1, <2>3
<1>. QED  BY <1>9, <1>10

\* and with no second table.
LEMMA ZeroFilledIs ==
  ASSUME NEW src \in Nat, NEW count \in Nat, src + 3 < 65536,
         datap \in Areas, status = "run", ZeroFilled(src, count)
  PROVE  Touches(src, 65536)
<1>. DEFINE most == IF src > data_size THEN 1 ELSE data_size + 2 - src
            n == IF count > most THEN most ELSE count
            to == [k \in 1 .. n |-> zword_t(src + k - 1)]
            from == [k \in 1 .. n |-> Zero]
<1>1. Bytes(n, to, from)
  BY DEF ZeroFilled
<1>. HIDE DEF to, from
<1>2. n \in Nat /\ (src > data_size => n <= 1) /\ (src <= data_size => src + n <= data_size + 2)
  BY SizeIs
<1>. HIDE DEF n, most
<1>3. ASSUME NEW k \in 1 .. n
      PROVE  zword_t(src + k - 1) \in Nat /\ src <= zword_t(src + k - 1)
  <2>1. src + k - 1 \in Nat /\ src + k - 1 < 65536 /\ src <= src + k - 1
    <3>1. CASE src > data_size
      BY <1>2, <3>1, SizeIs
    <3>2. CASE src <= data_size
      BY <1>2, <3>2, SizeIs
    <3>. QED  BY <3>1, <3>2, SizeIs
  <2>. QED  BY <2>1, ZwordOfWord
<1>4. to = [k \in 1 .. n |-> zword_t(src + k - 1)] /\ from = [k \in 1 .. n |-> Zero] /\ Zero \in Int
  BY DEF to, from, Zero
<1>5. /\ to \in [1 .. n -> Nat] /\ from \in [1 .. n -> Int]
      /\ \A k \in 1 .. n : IsSource(from[k]) /\ src <= to[k]
  BY <1>3, <1>4 DEF IsSource
<1>6. PICK last, after : StoresDone(n, to, from, last, after)
  BY <1>1, <1>2, <1>5, BytesAreStored
<1>7. /\ datap' \in Areas /\ status' \in {"run", "fatal", "undefined"}
      /\ \A a \in Area : (\A k \in 1 .. n : to[k] # a) => datap'[a] = datap[a]
  BY <1>2, <1>5, <1>6, StoresChange
<1>8. ASSUME NEW a \in Area, ~ (src <= a /\ a < 65536)  PROVE datap'[a] = datap[a]
  <2>1. a \in Nat /\ a < 65536
    BY SizeIs
  <2>2. ASSUME NEW k \in 1 .. n  PROVE to[k] # a
    <3>1. src <= to[k]
      BY <1>5
    <3>. QED  BY <1>8, <2>1, <3>1
  <2>. QED  BY <1>7, <2>2
<1>. QED  BY <1>7, <1>8 DEF Touches

-----------------------------------------------------------------------------
(* copy_table *)

\* The words, as inequalities.
LEMMA WordIs == \A x : x \in 0 .. WORD - 1 <=> x \in AllWords
<1>1. PICK top \in Nat : top = 65535
  OBVIOUS
<1>2. WORD - 1 = top
  BY <1>1 DEF WORD
<1>3. \A x : x \in 0 .. top <=> x \in Nat /\ x <= top
  OBVIOUS
<1>4. \A x \in Nat : x <= top <=> x < 65536
  BY <1>1
<1>. QED  BY <1>2, <1>3, <1>4 DEF AllWords

\* The tables of a story are words that do not wrap.
LEMMA TablesAre ==
  ASSUME NEW a \in Places, NEW n \in Counts
  PROVE  /\ a \in Nat /\ a + 3 < 65536 /\ a + n < 65536 /\ a - n < 65536
         /\ Short(n) /\ n \in Int
<1>1. /\ a \in Nat /\ a + 3 < WORD /\ a + n < WORD /\ a - n < WORD
      /\ n \in Int /\ -32768 <= n /\ n < 32768
  BY TablesAreBehind
<1>. QED  BY <1>1 DEF Short, WORD

\* A count goes to the instruction as a word and is a number there.
LEMMA CountIs ==
  ASSUME NEW n, Short(n)
  PROVE  /\ ZINT16(zword_t(n)) = n /\ zword_t(n) \in Nat
         /\ n >= 0 => zword_t(n) = n
<1>1. n \in Int
  BY DEF Short
<1>2. n >= 0 => ~ (n < 0)
  BY <1>1
<1>. QED  BY <1>1, <1>2, ZintIs, ZwordIs DEF AllWords

\* What CopyIsAsAsked asks of a copy of n bytes.
CopyOf(src, dst, n, up) ==
    LET gap == Magnitude(dst - src)
        from(i) ==
            IF (up /\ dst < src) \/ (~up /\ src < dst) THEN i
            ELSE IF up THEN i % gap ELSE n - 1 - ((n - 1 - i) % gap)
    IN /\ \A i \in 0 .. n - 1 : datap'[dst + i] = Byte(src + from(i))
       /\ \A a \in DOMAIN datap \ (dst .. dst + n - 1) : datap'[a] = datap[a]

\* What is left between two bounds is left between wider ones.
LEMMA TouchesMore ==
  ASSUME NEW low \in Nat, NEW high \in Nat, high < 65536, Touches(low, high)
  PROVE  /\ Touches(low, 65536)
         /\ datap \in Areas => \A a \in DOMAIN datap \ (low .. high - 1) : datap'[a] = datap[a]
<1>1. ASSUME NEW a \in Area, ~ (low <= a /\ a < 65536)  PROVE ~ (low <= a /\ a < high)
  <2>1. a \in Nat
    BY SizeIs
  <2>. QED  BY <1>1, <2>1
<1>2. ASSUME datap \in Areas, NEW a \in DOMAIN datap \ (low .. high - 1)  PROVE datap'[a] = datap[a]
  <2>1. a \in Area
    BY <1>2 DEF Areas
  <2>2. a \in Nat
    BY <2>1, SizeIs
  <2>3. ~ (low <= a /\ a < high)
    BY <1>2, <2>2
  <2>. QED  BY <2>1, <2>3 DEF Touches
<1>. QED  BY <1>1, <1>2 DEF Touches

\* A copy onto itself is none.
CopyCount(src, dst, m) == IF src = dst THEN 0 ELSE Magnitude(m)

\* All of copy_table: it changes the bytes of one table or what is behind it, and copies as
\* it was asked to.
LEMMA CopyTableIs ==
  ASSUME datap \in Areas, status = "run",
         NEW src \in Places, NEW dst \in Places \cup {0}, NEW m \in Counts,
         z_copy_table(src, dst, zword_t(m))
  PROVE  /\ \/ Touches(src, 65536)
            \/ dst # 0 /\ Touches(dst, 65536)
         /\ status' = "run" /\ dst # 0 =>
              CopyOf(src, dst, CopyCount(src, dst, m), m < 0)
<1>. DEFINE count == zword_t(m)
<1>1. /\ src \in Nat /\ src + 3 < 65536 /\ Short(m) /\ m \in Int
      /\ dst \in Nat /\ dst + m < 65536 /\ dst - m < 65536
      /\ ZINT16(count) = m /\ count \in Nat /\ (m >= 0 => count = m)
  <2>1. src \in Nat /\ src + 3 < 65536 /\ Short(m) /\ m \in Int
    BY TablesAre
  <2>2. dst \in Nat /\ dst + m < 65536 /\ dst - m < 65536
    <3>1. CASE dst \in Places
      BY <3>1, TablesAre
    <3>2. CASE dst = 0
      BY <2>1, <3>2 DEF Short
    <3>. QED  BY <3>1, <3>2
  <2>3. ZINT16(count) = m /\ count \in Nat /\ (m >= 0 => count = m)
    BY <2>1, CountIs
  <2>. QED  BY <2>1, <2>2, <2>3
<1>2. Magnitude(m) \in Nat /\ (m < 0 => Magnitude(m) = -m) /\ (m >= 0 => Magnitude(m) = m)
  BY <1>1 DEF Magnitude
<1>. HIDE DEF count
<1>3. /\ dst # 0 => Readable(src, Magnitude(m))
      /\ IF src = dst \/ count = 0 THEN UNCHANGED <<datap, status>>
         ELSE IF dst = 0 THEN ZeroFilled(src, count)
         ELSE IF m < 0 THEN CopiedUp(src, dst, -m)
         ELSE CopiedDown(src, dst, count)
  BY <1>1 DEF z_copy_table, Readable, count
<1>4. CASE src = dst \/ count = 0
  <2>1. datap' = datap /\ status' = status
    BY <1>3, <1>4
  <2>2. Touches(src, 65536)
    BY <2>1 DEF Touches
  <2>. DEFINE n == CopyCount(src, dst, m)
  <2>3. n = 0
    <3>. USE DEF CopyCount
    <3>1. count = 0 => m = 0
      <4>1. zword_t(m) = count /\ ZINT16(0) = 0
        BY CountIs DEF count, Short
      <4>. QED  BY <1>1, <4>1
    <3>2. CASE src # dst
      <4>1. m = 0
        BY <1>4, <3>1, <3>2
      <4>. QED  BY <1>2, <3>2, <4>1
    <3>. QED  BY <3>2
  <2>. HIDE DEF n
  <2>4. CopyOf(src, dst, n, m < 0)
    <3>1. \A i \in 0 .. n - 1 : FALSE
      BY <2>3
    <3>. QED  BY <2>1, <3>1 DEF CopyOf
  <2>5. CopyOf(src, dst, CopyCount(src, dst, m), m < 0)
    BY <2>4 DEF n
  <2>. QED  BY <2>2, <2>5
<1>5. CASE src # dst /\ count # 0 /\ dst = 0
  <2>1. ZeroFilled(src, count)
    BY <1>3, <1>5
  <2>2. Touches(src, 65536)
    <3>1. src \in Nat /\ src + 3 < 65536 /\ count \in Nat
      BY <1>1
    <3>. QED  BY <2>1, <3>1, ZeroFilledIs
  <2>. QED  BY <1>5, <2>2
<1>6. CASE src # dst /\ count # 0 /\ dst # 0 /\ m < 0
  <2>. DEFINE n == Magnitude(m)
  <2>1. n \in Nat /\ n = -m /\ dst + n < 65536
    BY <1>1, <1>2, <1>6
  <2>. HIDE DEF n
  <2>2. CopiedUp(src, dst, n) /\ Readable(src, n)
    BY <1>3, <1>6, <2>1 DEF n
  <2>3. /\ Touches(dst, dst + n)
        /\ status' = "run" =>
              \A i \in 0 .. n - 1 :
                 datap'[dst + i] = ByteIn(datap, src + TurnedUp(src, dst, i))
    BY <1>1, <1>6, <2>1, <2>2, CopiedUpIs
  <2>4. /\ Touches(dst, 65536)
        /\ \A a \in DOMAIN datap \ (dst .. dst + n - 1) : datap'[a] = datap[a]
    <3>1. dst + n \in Nat
      BY <1>1, <2>1
    <3>. QED  BY <1>1, <2>1, <2>3, <3>1, TouchesMore
  <2>5. ASSUME status' = "run"  PROVE CopyOf(src, dst, n, m < 0)
    <3>1. ASSUME NEW i \in 0 .. n - 1
          PROVE  TurnedUp(src, dst, i) = IF dst < src THEN i ELSE i % Magnitude(dst - src)
      <4>1. src < dst => Magnitude(dst - src) = dst - src
        BY <1>1 DEF Magnitude
      <4>2. src < dst \/ dst < src
        BY <1>1, <1>6
      <4>. QED  BY <4>1, <4>2 DEF TurnedUp
    <3>2. ASSUME NEW i \in 0 .. n - 1
          PROVE  datap'[dst + i] = Byte(src + IF dst < src THEN i ELSE i % Magnitude(dst - src))
      <4>1. datap'[dst + i] = ByteIn(datap, src + TurnedUp(src, dst, i))
        BY <2>3, <2>5
      <4>. QED  BY <3>1, <4>1 DEF Byte
    <3>. QED  BY <1>6, <2>4, <3>2 DEF CopyOf
  <2>. QED  BY <1>6, <2>4, <2>5 DEF n, CopyCount
<1>7. CASE src # dst /\ count # 0 /\ dst # 0 /\ ~ (m < 0)
  <2>. DEFINE n == Magnitude(m)
  <2>1. n \in Nat /\ n = m /\ n = count /\ dst + n < 65536
    BY <1>1, <1>2, <1>7
  <2>. HIDE DEF n
  <2>2. CopiedDown(src, dst, n) /\ Readable(src, n)
    BY <1>3, <1>7, <2>1 DEF n
  <2>3. /\ Touches(dst, dst + n)
        /\ status' = "run" =>
              \A i \in 0 .. n - 1 :
                 datap'[dst + i] = ByteIn(datap, src + TurnedDown(src, dst, n, i))
    BY <1>1, <1>7, <2>1, <2>2, CopiedDownIs
  <2>4. /\ Touches(dst, 65536)
        /\ \A a \in DOMAIN datap \ (dst .. dst + n - 1) : datap'[a] = datap[a]
    <3>1. dst + n \in Nat
      BY <1>1, <2>1
    <3>. QED  BY <1>1, <2>1, <2>3, <3>1, TouchesMore
  <2>5. ASSUME status' = "run"  PROVE CopyOf(src, dst, n, m < 0)
    <3>1. ASSUME NEW i \in 0 .. n - 1
          PROVE  TurnedDown(src, dst, n, i) =
                   IF src < dst THEN i ELSE n - 1 - ((n - 1 - i) % Magnitude(dst - src))
      <4>1. dst < src => Magnitude(dst - src) = src - dst
        BY <1>1 DEF Magnitude
      <4>2. src < dst \/ dst < src
        BY <1>1, <1>7
      <4>3. dst < src => ~ (src < dst)
        BY <1>1
      <4>. QED  BY <4>1, <4>2, <4>3 DEF TurnedDown
    <3>2. ASSUME NEW i \in 0 .. n - 1
          PROVE  datap'[dst + i] =
                   Byte(src + IF src < dst THEN i ELSE n - 1 - ((n - 1 - i) % Magnitude(dst - src)))
      <4>1. datap'[dst + i] = ByteIn(datap, src + TurnedDown(src, dst, n, i))
        BY <2>3, <2>5
      <4>. QED  BY <3>1, <4>1 DEF Byte
    <3>. QED  BY <1>7, <2>4, <3>2 DEF CopyOf
  <2>. QED  BY <1>7, <2>4, <2>5 DEF n, CopyCount
<1>. QED  BY <1>4, <1>5, <1>6, <1>7

-----------------------------------------------------------------------------
(* The lists and their bytes *)

\* No byte of the structure of the lists has changed: the inductive invariant.
Kept == \A a \in Structure(h_type) : datap[a] = Story[h_type][a]
IsStory == h_type \in Versions /\ datap \in Areas /\ Kept

\* Bytes are numbers.
LEMMA ByteNumbers ==
  ASSUME NEW b, b \in ByteValues
  PROVE  b \in Nat /\ b < 256
BY ByteIs

\* The lists of an object are as a compiler writes them.
LEMMA ListsAre ==
  ASSUME h_type \in Versions, NEW o \in Objects
  PROVE  /\ h_type \in {3, 5} /\ Story[h_type] \in Areas
         /\ IsList(h_type, o) /\ AreApart(h_type)
BY PropertiesAssumption DEF Areas, Area, ByteValues

\* A property an object has.
IsProperty(o, p) == o \in Objects /\ p \in PropertiesOf(h_type, o)

\* What that says of a property.
LEMMA PropertyIs ==
  ASSUME h_type \in Versions, NEW o, NEW p, IsProperty(o, p)
  PROVE  /\ p \in Nat /\ p > 0
         /\ PropertyPlace[h_type][o][p] \in Nat /\ PropertySize[h_type][o][p] \in Nat
         /\ PropertySize[h_type][o][p] > 0
         /\ BeginOf(h_type, o, p) \in Nat /\ HasItsForm(h_type, o, p)
         /\ BehindOf(h_type, o, p) \in Area
         /\ BehindOf(h_type, o, p) = PropertyPlace[h_type][o][p] + PropertySize[h_type][o][p]
         /\ GoesOn(h_type, o, BehindOf(h_type, o, p), {q \in PropertiesOf(h_type, o) : q < p})
<1>1. IsList(h_type, o) /\ o \in Objects /\ p \in PropertiesOf(h_type, o)
  BY ListsAre DEF IsProperty
<1>2. /\ PropertyPlace[h_type][o][p] \in Nat /\ PropertySize[h_type][o][p] \in Nat \ {0}
      /\ p \in Nat \ {0}
  BY <1>1 DEF IsList
<1>3. /\ BeginOf(h_type, o, p) >= 0 /\ HasItsForm(h_type, o, p)
      /\ GoesOn(h_type, o, BehindOf(h_type, o, p), {q \in PropertiesOf(h_type, o) : q < p})
  BY <1>1 DEF IsList
<1>4. BehindOf(h_type, o, p) \in Area
  BY <1>1, <1>3, ListsAre DEF GoesOn, Areas
<1>5. BeginOf(h_type, o, p) \in Nat
  BY <1>2, <1>3 DEF BeginOf
<1>. QED  BY <1>2, <1>3, <1>4, <1>5 DEF BehindOf

\* The bytes of the structure that the walk reads.
LEMMA StructureHas ==
  ASSUME h_type \in Versions, NEW o \in Objects
  PROVE  /\ PropertyPointer[o] \in Structure(h_type) /\ PropertyPointer[o] + 1 \in Structure(h_type)
         /\ TableOf(h_type, o) \in Structure(h_type) /\ FirstOf(h_type, o) \in Structure(h_type)
         /\ \A p \in PropertiesOf(h_type, o) :
               /\ PropertyPlace[h_type][o][p] - 1 \in Structure(h_type)
               /\ BehindOf(h_type, o, p) \in Structure(h_type)
<1>1. DOMAIN Story[h_type] = Area /\ IsList(h_type, o)
  BY ListsAre DEF Areas
<1>2. /\ PropertyPointer[o] \in Nat /\ PropertyPointer[o] + 1 < data_size
      /\ TableOf(h_type, o) < data_size /\ FirstOf(h_type, o) \in Area
  BY <1>1 DEF IsList, GoesOn
<1>3. PropertyPointer[o] \in Area /\ PropertyPointer[o] + 1 \in Area
  BY <1>2, SizeIs
<1>4. TableOf(h_type, o) \in Area
  <2>1. Story[h_type][PropertyPointer[o]] \in ByteValues /\ Story[h_type][PropertyPointer[o] + 1] \in ByteValues
    BY <1>3, ListsAre DEF Areas
  <2>2. TableOf(h_type, o) \in Nat
    BY <2>1, ByteIs DEF TableOf, StoryWord
  <2>. QED  BY <1>2, <2>2, SizeIs
<1>5. ASSUME NEW p \in PropertiesOf(h_type, o)
      PROVE  PropertyPlace[h_type][o][p] - 1 \in Area /\ BehindOf(h_type, o, p) \in Area
  <2>1. /\ PropertyPlace[h_type][o][p] \in Nat /\ PropertySize[h_type][o][p] \in Nat
        /\ PropertySize[h_type][o][p] > 0 /\ BeginOf(h_type, o, p) \in Nat
        /\ BehindOf(h_type, o, p) \in Area
        /\ BehindOf(h_type, o, p) = PropertyPlace[h_type][o][p] + PropertySize[h_type][o][p]
    BY PropertyIs DEF IsProperty
  <2>2. PropertyPlace[h_type][o][p] > 0
    BY <2>1 DEF BeginOf
  <2>. QED  BY <2>1, <2>2, SizeIs
<1>. QED  BY <1>1, <1>2, <1>3, <1>4, <1>5 DEF Structure

\* What the size bytes before a property say.
SaysRight(a, place, behind, n, p) ==
    /\ IdAt(a) = p
    /\ get_next_property(a) = behind
    /\ ByteSized(get_byte(a)) <=> n = 1
    /\ PropertyLength(place) = n
    /\ LongForm(get_byte(a)) => place = a + 2
    /\ ~ LongForm(get_byte(a)) => place = a + 1
    /\ h_type = 3 \/ n <= 2 => place = a + 1

\* Size and id in one byte, up to V3 and from V4 on.
LEMMA ShortSizes ==
  ASSUME NEW n \in Nat, n > 0, NEW p \in Nat, NEW unit \in {32, 64}, p < unit,
         NEW size, size = (n - 1) * unit + p
  PROVE  /\ size % unit = p /\ size \div unit = n - 1
         /\ size < unit <=> n = 1
         /\ unit = 64 /\ n <= 2 => ~ (size >= 128)
<1>1. CASE unit = 32
  <2>1. size = 32 * (n - 1) + p /\ p \in 0 .. 32 - 1 /\ size \in Int /\ n - 1 \in Int
    BY <1>1
  <2>2. size \div 32 = n - 1 /\ size % 32 = p
    BY <2>1, DivisionUnique
  <2>3. size < 32 <=> n = 1
    BY <2>1
  <2>. QED  BY <1>1, <2>2, <2>3
<1>2. CASE unit = 64
  <2>1. size = 64 * (n - 1) + p /\ p \in 0 .. 64 - 1 /\ size \in Int /\ n - 1 \in Int
    BY <1>2
  <2>2. size \div 64 = n - 1 /\ size % 64 = p
    BY <2>1, DivisionUnique
  <2>3. (size < 64 <=> n = 1) /\ (n <= 2 => ~ (size >= 128))
    BY <2>1
  <2>. QED  BY <1>2, <2>2, <2>3
<1>. QED  BY <1>1, <1>2

\* A size of 64 is a 0.
LEMMA LongSizes ==
  ASSUME NEW n \in Nat, n > 0, n <= 64, NEW size \in Nat, size % 64 = n % 64
  PROVE  LongSize(size) = n
<1>1. n < 64 => n % 64 = n
  <2>1. n < 64 => n = 64 * 0 + n /\ n \in 0 .. 64 - 1
    OBVIOUS
  <2>. QED  BY <2>1, DivisionUnique
<1>2. n = 64 => n % 64 = 0
  <2>1. n = 64 => n = 64 * 1 + 0 /\ 0 \in 0 .. 64 - 1
    OBVIOUS
  <2>. QED  BY <2>1, DivisionUnique
<1>. QED  BY <1>1, <1>2 DEF LongSize

\* The helpers of property.c read id, size and next entry as the compiler wrote them, in
\* both forms.
LEMMA FormIs ==
  ASSUME IsStory, NEW o, NEW p, IsProperty(o, p), BeginOf(h_type, o, p) \in Structure(h_type)
  PROVE  SaysRight(BeginOf(h_type, o, p), PropertyPlace[h_type][o][p], BehindOf(h_type, o, p),
                   PropertySize[h_type][o][p], p)
<1>. DEFINE a == BeginOf(h_type, o, p)
            place == PropertyPlace[h_type][o][p]
            n == PropertySize[h_type][o][p]
            behind == BehindOf(h_type, o, p)
            id == Story[h_type][a]
            size == Story[h_type][place - 1]
<1>1. h_type \in {3, 5} /\ o \in Objects /\ p \in PropertiesOf(h_type, o)
  BY ListsAre DEF IsStory, IsProperty
<1>2. /\ p \in Nat /\ p > 0 /\ place \in Nat /\ n \in Nat /\ n > 0 /\ a \in Nat
      /\ HasItsForm(h_type, o, p) /\ behind \in Area /\ behind = place + n
  BY PropertyIs DEF IsStory
<1>3. datap[a] = id /\ datap[place - 1] = size
  BY <1>1, StructureHas DEF IsStory, Kept
<1>4. /\ a = place - (IF h_type > 3 /\ n > 2 THEN 2 ELSE 1)
      /\ IF h_type = 3 THEN p < 32 /\ n <= 8 /\ size = (n - 1) * 32 + p
         ELSE /\ p < 64
              /\ IF n <= 2 THEN size = (n - 1) * 64 + p
                 ELSE n <= 64 /\ id >= 128 /\ id % 64 = p /\ size >= 128 /\ size % 64 = n % 64
  BY <1>2 DEF BeginOf, TwoSizeBytes, HasItsForm
<1>5. id \in Nat /\ size \in Nat
  <2>1. a \in Area /\ place - 1 \in Area
    BY <1>2, <1>4, SizeIs
  <2>2. Story[h_type] \in Areas
    BY ListsAre, <1>1 DEF IsStory
  <2>3. id \in ByteValues /\ size \in ByteValues
    BY <2>1, <2>2 DEF Areas
  <2>. QED  BY <2>3, ByteIs
<1>. HIDE DEF a, place, n, behind, id, size
<1>6. CASE h_type = 3
  <2>1. /\ size % 32 = p /\ size \div 32 = n - 1
        /\ size < 32 <=> n = 1
    BY <1>2, <1>4, <1>6, ShortSizes
  <2>2. a = place - 1 /\ id = size
    BY <1>4, <1>6 DEF id, size
  <2>3. ~ LongForm(size)
    BY <1>6 DEF LongForm
  <2>4. get_byte(a) = size /\ get_byte(place - 1) = size
    BY <1>3, <2>2 DEF get_byte
  <2>5. property_mask = 31 /\ IdAt(a) = p
    BY <1>6, <2>1, <2>4 DEF property_mask, IdAt
  <2>6. get_next_property(a) = behind
    <3>1. get_next_property(a) = a + 2 + ShortSize(size)
      BY <2>3, <2>4 DEF get_next_property
    <3>. QED  BY <1>2, <1>6, <2>1, <2>2, <3>1 DEF ShortSize
  <2>7. PropertyLength(place) = n
    <3>1. PropertyLength(place) = ShortSize(size) + 1
      BY <2>3, <2>4 DEF PropertyLength
    <3>. QED  BY <1>2, <1>6, <2>1, <3>1 DEF ShortSize
  <2>8. ByteSized(size) <=> n = 1
    BY <1>6, <2>1 DEF ByteSized
  <2>9. place = a + 1
    BY <1>2, <2>2
  <2>. QED  BY <2>3, <2>4, <2>5, <2>6, <2>7, <2>8, <2>9 DEF SaysRight, a, n, place, behind
<1>7. CASE h_type = 5 /\ n <= 2
  <2>1. /\ size % 64 = p /\ size \div 64 = n - 1
        /\ size < 64 <=> n = 1
        /\ ~ (size >= 128)
    BY <1>2, <1>4, <1>7, ShortSizes
  <2>2. a = place - 1 /\ id = size
    BY <1>2, <1>4, <1>7 DEF id, size
  <2>3. ~ LongForm(size)
    BY <2>1 DEF LongForm
  <2>4. get_byte(a) = size /\ get_byte(place - 1) = size
    BY <1>3, <2>2 DEF get_byte
  <2>5. property_mask = 63 /\ IdAt(a) = p
    BY <1>7, <2>1, <2>4 DEF property_mask, IdAt
  <2>6. get_next_property(a) = behind
    <3>1. get_next_property(a) = a + 2 + ShortSize(size)
      BY <2>3, <2>4 DEF get_next_property
    <3>. QED  BY <1>2, <1>7, <2>1, <2>2, <3>1 DEF ShortSize
  <2>7. PropertyLength(place) = n
    <3>1. PropertyLength(place) = ShortSize(size) + 1
      BY <2>3, <2>4 DEF PropertyLength
    <3>. QED  BY <1>2, <1>7, <2>1, <3>1 DEF ShortSize
  <2>8. ByteSized(size) <=> n = 1
    BY <1>7, <2>1 DEF ByteSized
  <2>9. place = a + 1
    BY <1>2, <2>2
  <2>. QED  BY <2>3, <2>4, <2>5, <2>6, <2>7, <2>8, <2>9 DEF SaysRight, a, n, place, behind
<1>8. CASE h_type = 5 /\ ~ (n <= 2)
  <2>1. /\ n <= 64 /\ id >= 128 /\ id % 64 = p /\ size >= 128 /\ size % 64 = n % 64
        /\ a = place - 2
    BY <1>2, <1>4, <1>8
  <2>2. LongSize(size) = n
    BY <1>2, <1>5, <2>1, LongSizes
  <2>3. LongForm(id) /\ LongForm(size)
    BY <1>8, <2>1 DEF LongForm
  <2>4. a + 1 = place - 1 /\ place = a + 2
    BY <1>2, <2>1
  <2>5. get_byte(a) = id /\ get_byte(place - 1) = size /\ get_byte(a + 1) = size
    BY <1>3, <2>4 DEF get_byte
  <2>6. property_mask = 63 /\ IdAt(a) = p
    BY <1>8, <2>1, <2>5 DEF property_mask, IdAt
  <2>7. get_next_property(a) = behind
    <3>1. get_next_property(a) = a + 2 + LongSize(size)
      BY <2>3, <2>5 DEF get_next_property
    <3>. QED  BY <1>2, <2>2, <2>4, <3>1
  <2>8. PropertyLength(place) = n
    BY <2>2, <2>3, <2>5 DEF PropertyLength
  <2>9. ~ ByteSized(id) /\ n # 1
    BY <1>2, <1>5, <1>8, <2>1 DEF ByteSized
  <2>. QED  BY <1>8, <2>3, <2>4, <2>5, <2>6, <2>7, <2>8, <2>9 DEF SaysRight, a, n, place, behind
<1>. QED  BY <1>1, <1>6, <1>7, <1>8 DEF a, n, place, behind

-----------------------------------------------------------------------------
(* The walk ends *)

\* The walk goes forward inside the area.
LEMMA Advances ==
  ASSUME IsStory, NEW a \in Area, ~ LeavesArea(a)
  PROVE  get_next_property(a) \in Area /\ a < get_next_property(a)
<1>1. a \in Nat /\ a < data_size /\ data_size \in Nat /\ a + 1 # data_size
  BY SizeIs DEF LeavesArea
<1>2. a + 1 \in Area
  BY <1>1, SizeIs
<1>3. get_byte(a) \in ByteValues /\ get_byte(a + 1) \in ByteValues
  BY <1>2 DEF IsStory, Areas, get_byte
<1>. DEFINE m == get_byte(a)
            n == get_byte(a + 1)
<1>4. m \in Nat /\ n \in Nat
  BY <1>3, ByteIs
<1>. HIDE DEF m, n
<1>5. LongSize(n) \in Nat
  BY <1>4 DEF LongSize
<1>6. ShortSize(m) \in Nat
  BY <1>4 DEF ShortSize
<1>7. /\ LongForm(m) => get_next_property(a) = a + 2 + LongSize(n)
      /\ ~ LongForm(m) => get_next_property(a) = a + 2 + ShortSize(m)
  BY DEF get_next_property, m, n
<1>8. get_next_property(a) \in Nat /\ a < get_next_property(a)
  BY <1>1, <1>5, <1>6, <1>7
<1>9. ~ (get_next_property(a) >= data_size)
  BY DEF LeavesArea
<1>. QED  BY <1>1, <1>8, <1>9, SizeIs

\* The walk, as a function of the address it is at.
IsWalk(from, prop) ==
    /\ from \in [Area -> Area]
    /\ \A a \in Area : /\ IdAt(a) <= prop \/ LeavesArea(a) => from[a] = a
                       /\ ~ (IdAt(a) <= prop \/ LeavesArea(a)) => from[a] = from[get_next_property(a)]

\* So the walk of EntryFor ends for every list: there is a function of it.
LEMMA WalkIs ==
  ASSUME IsStory, NEW o \in Objects, NEW prop \in Nat
  PROVE  \E from : IsWalk(from, prop) /\ EntryFor(o, prop) = from[get_property_addr(o)]
<1>. DEFINE Ends(a) == IdAt(a) <= prop \/ LeavesArea(a)
            next == [a \in Area |-> IF Ends(a) THEN a ELSE get_next_property(a)]
            ends == [a \in Area |-> Ends(a)]
            rank == [a \in Area |-> data_size - a]
            step == [a \in Area |-> [f \in [Area -> Area] |-> IF Ends(a) THEN a ELSE f[get_next_property(a)]]]
<1>1. data_size \in Nat /\ Area # {}
  <2>1. PropertyPointer[o] \in Structure(h_type) /\ Structure(h_type) \subseteq DOMAIN Story[h_type]
    BY StructureHas DEF IsStory, Structure
  <2>2. DOMAIN Story[h_type] = Area
    BY ListsAre DEF IsStory, Areas
  <2>. QED  BY <2>1, <2>2, SizeIs
<1>2. \A a \in Area : rank[a] = data_size - a /\ a \in Nat /\ a < data_size
  BY SizeIs
<1>3. \A a \in Area : ~ Ends(a) => get_next_property(a) \in Area /\ a < get_next_property(a)
  BY Advances
<1>4. \A a \in Area, f \in [Area -> Area] : step[a][f] = IF Ends(a) THEN a ELSE f[get_next_property(a)]
  OBVIOUS
<1>5. step \in [Area -> [[Area -> Area] -> Area]]
  <2>. HIDE DEF Ends
  <2>. QED  BY <1>3
<1>. HIDE DEF Ends, step
<1>6. Descends(Area, Area, rank, data_size + 1, step)
  <2>1. rank \in [Area -> Nat] /\ data_size + 1 \in Nat
    BY <1>1, <1>2
  <2>2. \A a \in Area : rank[a] < data_size + 1
    BY <1>1, <1>2
  <2>3. ASSUME NEW a \in Area, NEW f \in [Area -> Area], NEW g \in [Area -> Area],
               \A b \in Area : rank[b] < rank[a] => f[b] = g[b]
        PROVE  step[a][f] = step[a][g]
    <3>1. CASE Ends(a)
      BY <1>4, <3>1
    <3>2. CASE ~ Ends(a)
      <4>. DEFINE b == get_next_property(a)
      <4>1. b \in Area /\ a < b
        BY <1>3, <3>2
      <4>. HIDE DEF b
      <4>2. rank[b] < rank[a]
        BY <1>1, <1>2, <4>1
      <4>3. f[b] = g[b]
        BY <2>3, <4>1, <4>2
      <4>. QED  BY <1>4, <3>2, <4>3 DEF b
    <3>. QED  BY <3>1, <3>2
  <2>. HIDE DEF rank
  <2>. QED  BY <1>1, <1>5, <2>1, <2>2, <2>3 DEF Descends
<1>7. PICK f \in [Area -> Area] : \A a \in Area : f[a] = step[a][f]
  <2>. HIDE DEF rank
  <2>. QED  BY <1>6, RecursiveFunction
<1>8. \A a \in Area : f[a] = IF Ends(a) THEN a ELSE f[get_next_property(a)]
  BY <1>4, <1>7
<1>. DEFINE from[a \in 0 .. data_size - 1] ==
              IF IdAt(a) <= prop \/ LeavesArea(a) THEN a ELSE from[get_next_property(a)]
<1>9. from = [a \in Area |-> IF Ends(a) THEN a ELSE from[get_next_property(a)]]
  <2>1. f = [a \in Area |-> IF Ends(a) THEN a ELSE f[get_next_property(a)]]
    BY <1>8
  <2>2. f = [a \in 0 .. data_size - 1 |->
              IF IdAt(a) <= prop \/ LeavesArea(a) THEN a ELSE f[get_next_property(a)]]
    BY <2>1, Zenon DEF Area, Ends
  <2>3. from = [a \in 0 .. data_size - 1 |->
              IF IdAt(a) <= prop \/ LeavesArea(a) THEN a ELSE from[get_next_property(a)]]
    BY <2>2
  <2>. HIDE DEF from
  <2>. QED  BY <2>3, Zenon DEF Area, Ends
<1>10. EntryFor(o, prop) = from[get_property_addr(o)]
  BY DEF EntryFor
<1>. HIDE DEF from
<1>11. \A a \in Area : from[a] = IF Ends(a) THEN a ELSE from[get_next_property(a)]
  BY <1>9
<1>12. \A a \in Area : from[a] \in Area
  <2>. DEFINE S == {i \in Nat : \A a \in Area : rank[a] = i => from[a] \in Area}
  <2>1. ASSUME NEW i \in Nat, 0 .. i - 1 \subseteq S  PROVE i \in S
    <3>. SUFFICES ASSUME NEW a \in Area, rank[a] = i  PROVE from[a] \in Area
      OBVIOUS
    <3>1. CASE Ends(a)
      BY <1>11, <3>1
    <3>2. CASE ~ Ends(a)
      <4>. DEFINE b == get_next_property(a)
      <4>1. b \in Area /\ a < b
        BY <1>3, <3>2
      <4>2. from[a] = from[b]
        BY <1>11, <3>2
      <4>. HIDE DEF b
      <4>3. rank[b] \in 0 .. i - 1
        BY <1>1, <1>2, <4>1
      <4>4. rank[b] \in S
        BY <2>1, <4>3
      <4>. QED  BY <4>1, <4>2, <4>4
    <3>. QED  BY <3>1, <3>2
  <2>2. Nat \subseteq S
    <3>. HIDE DEF S
    <3>. QED  BY <2>1, Ladder
  <2>3. \A a \in Area : rank[a] \in Nat
    BY <1>1, <1>2
  <2>. QED  BY <2>2, <2>3
<1>13. from \in [Area -> Area]
  BY <1>9, <1>12
<1>14. IsWalk(from, prop)
  BY <1>11, <1>13 DEF IsWalk, Ends
<1>. QED  BY <1>10, <1>14

-----------------------------------------------------------------------------
(* The walk finds *)

\* At a, the list of o goes on with the highest of the ids, or ends.
ListAt(o, a, ids) ==
    /\ a \in Structure(h_type) /\ a \in Area
    /\ \/ ids = {} /\ get_byte(a) = 0 /\ IdAt(a) = 0
       \/ \E p \in ids :
            /\ \A q \in ids : q <= p
            /\ IsProperty(o, p) /\ p > 0 /\ p \in Nat
            /\ SaysRight(a, PropertyPlace[h_type][o][p], BehindOf(h_type, o, p),
                         PropertySize[h_type][o][p], p)

\* The bytes of the structure say where the list goes on;
LEMMA ListIsAt ==
  ASSUME IsStory, NEW o \in Objects, NEW a \in Structure(h_type),
         NEW ids, ids \subseteq PropertiesOf(h_type, o), GoesOn(h_type, o, a, ids)
  PROVE  ListAt(o, a, ids)
<1>1. Story[h_type] \in Areas /\ datap[a] = Story[h_type][a] /\ h_type \in {3, 5}
  BY ListsAre DEF IsStory, Kept
<1>2. a \in Area
  BY <1>1 DEF GoesOn, Areas
<1>3. CASE ids = {} /\ Story[h_type][a] = 0
  <2>1. get_byte(a) = 0
    BY <1>1, <1>3 DEF get_byte
  <2>2. IdAt(a) = 0
    <3>1. property_mask = 31 \/ property_mask = 63
      BY DEF property_mask
    <3>. QED  BY <2>1, <3>1 DEF IdAt
  <2>. QED  BY <1>2, <1>3, <2>1, <2>2 DEF ListAt
<1>4. ASSUME NEW p \in ids, a = BeginOf(h_type, o, p), \A q \in ids : q <= p
      PROVE  ListAt(o, a, ids)
  <2>1. IsProperty(o, p)
    BY <1>4 DEF IsProperty
  <2>2. SaysRight(a, PropertyPlace[h_type][o][p], BehindOf(h_type, o, p), PropertySize[h_type][o][p], p)
    BY <1>4, <2>1, FormIs
  <2>3. p > 0 /\ p \in Nat
    BY <2>1, PropertyIs DEF IsStory
  <2>. QED  BY <1>2, <1>4, <2>1, <2>2, <2>3 DEF ListAt
<1>. QED  BY <1>3, <1>4 DEF GoesOn

\* The properties of an object that are not above, or below, an id.
NotAbove(o, prop) == {q \in PropertiesOf(h_type, o) : q <= prop}
Below(o, p) == {q \in PropertiesOf(h_type, o) : q < p}

\* behind a property with the properties of lower ids,
LEMMA ListBehind ==
  ASSUME IsStory, NEW o \in Objects, NEW p, IsProperty(o, p)
  PROVE  ListAt(o, BehindOf(h_type, o, p), Below(o, p))
<1>1. BehindOf(h_type, o, p) \in Structure(h_type)
  BY StructureHas DEF IsStory, IsProperty
<1>2. GoesOn(h_type, o, BehindOf(h_type, o, p), Below(o, p))
  BY PropertyIs DEF Below, IsStory
<1>. QED  BY <1>1, <1>2, ListIsAt DEF Below

\* and at its beginning with all.
LEMMA FirstIs ==
  ASSUME IsStory, NEW o \in Objects
  PROVE  ListAt(o, get_property_addr(o), PropertiesOf(h_type, o))
<1>1. /\ PropertyPointer[o] \in Structure(h_type) /\ PropertyPointer[o] + 1 \in Structure(h_type)
      /\ TableOf(h_type, o) \in Structure(h_type) /\ FirstOf(h_type, o) \in Structure(h_type)
  BY StructureHas DEF IsStory
<1>2. get_word(PropertyPointer[o]) = TableOf(h_type, o)
  BY <1>1 DEF IsStory, Kept, get_word, TableOf, StoryWord
<1>3. get_byte(TableOf(h_type, o)) = Story[h_type][TableOf(h_type, o)]
  BY <1>1 DEF IsStory, Kept, get_byte
<1>4. get_property_addr(o) = FirstOf(h_type, o)
  BY <1>2, <1>3 DEF get_property_addr, FirstOf
<1>5. GoesOn(h_type, o, FirstOf(h_type, o), PropertiesOf(h_type, o))
  BY ListsAre DEF IsStory, IsList
<1>. QED  BY <1>1, <1>4, <1>5, ListIsAt

\* From any entry the walk comes to the highest property not above prop, by induction on
\* the ids that are left.
LEMMA WalkEnds ==
  ASSUME IsStory, NEW o \in Objects, NEW prop \in Nat, NEW from, IsWalk(from, prop),
         NEW m \in Nat, NEW a, ListAt(o, a, Below(o, m))
  PROVE  ListAt(o, from[a], NotAbove(o, prop) \cap Below(o, m))
<1>. DEFINE S == {i \in Nat : \A b \in Area : ListAt(o, b, Below(o, i)) =>
                                ListAt(o, from[b], NotAbove(o, prop) \cap Below(o, i))}
<1>1. ASSUME NEW i \in Nat, 0 .. i - 1 \subseteq S  PROVE i \in S
  <2>. SUFFICES ASSUME NEW b \in Area, ListAt(o, b, Below(o, i))
                PROVE  ListAt(o, from[b], NotAbove(o, prop) \cap Below(o, i))
    OBVIOUS
  <2>. DEFINE ids == Below(o, i)
  <2>1. \A q \in PropertiesOf(h_type, o) : q \in Nat
    BY PropertyIs DEF IsStory, IsProperty
  <2>2. CASE ids = {} /\ get_byte(b) = 0 /\ IdAt(b) = 0
    <3>1. from[b] = b
      BY <2>2 DEF IsWalk
    <3>2. NotAbove(o, prop) \cap ids = ids
      BY <2>2
    <3>. QED  BY <3>1, <3>2
  <2>3. ASSUME NEW p \in ids, \A q \in ids : q <= p, IsProperty(o, p), p > 0, p \in Nat,
               SaysRight(b, PropertyPlace[h_type][o][p], BehindOf(h_type, o, p),
                         PropertySize[h_type][o][p], p)
        PROVE  ListAt(o, from[b], NotAbove(o, prop) \cap ids)
    <3>1. IdAt(b) = p /\ get_next_property(b) = BehindOf(h_type, o, p)
      BY <2>3 DEF SaysRight
    <3>2. CASE p <= prop
      <4>1. from[b] = b
        BY <3>1, <3>2 DEF IsWalk
      <4>2. \A q \in ids : q \in Nat /\ q <= prop
        BY <2>1, <2>3, <3>2 DEF Below
      <4>3. NotAbove(o, prop) \cap ids = ids
        BY <4>2 DEF NotAbove, Below
      <4>. QED  BY <4>1, <4>3
    <3>3. CASE ~ (p <= prop)
      <4>. DEFINE c == BehindOf(h_type, o, p)
      <4>1. c \in Area
        BY <2>3, PropertyIs DEF IsStory
      <4>2. b + 1 # data_size
        <5>1. /\ c = PropertyPlace[h_type][o][p] + PropertySize[h_type][o][p]
              /\ PropertySize[h_type][o][p] \in Nat /\ PropertySize[h_type][o][p] > 0
          BY <2>3, PropertyIs DEF IsStory
        <5>2. PropertyPlace[h_type][o][p] = b + 1 \/ PropertyPlace[h_type][o][p] = b + 2
          BY <2>3 DEF SaysRight
        <5>3. b \in Nat /\ c < data_size /\ data_size \in Nat
          BY <4>1, SizeIs
        <5>. QED  BY <5>1, <5>2, <5>3
      <4>3. ~ LeavesArea(b)
        BY <3>1, <4>1, <4>2, SizeIs DEF LeavesArea
      <4>4. from[b] = from[c]
        BY <3>1, <3>3, <4>3 DEF IsWalk
      <4>5. ListAt(o, c, Below(o, p))
        BY <2>3, ListBehind
      <4>6. p \in 0 .. i - 1
        BY <2>3 DEF Below
      <4>7. p \in S
        BY <1>1, <4>6
      <4>8. ListAt(o, from[c], NotAbove(o, prop) \cap Below(o, p))
        BY <4>1, <4>5, <4>7
      <4>9. NotAbove(o, prop) \cap Below(o, p) = NotAbove(o, prop) \cap ids
        <5>1. ASSUME NEW q \in PropertiesOf(h_type, o), q <= prop
              PROVE  q < p /\ q < i
          BY <2>1, <3>3, <4>6, <5>1
        <5>. QED  BY <5>1 DEF NotAbove, Below
      <4>. QED  BY <4>4, <4>8, <4>9
    <3>. QED  BY <3>2, <3>3
  <2>. QED  BY <2>2, <2>3 DEF ListAt
<1>2. Nat \subseteq S
  <2>. HIDE DEF S
  <2>. QED  BY <1>1, Ladder
<1>3. a \in Area
  BY DEF ListAt
<1>. QED  BY <1>2, <1>3

\* The walk stops at the highest property that is not above the one asked for.
LEMMA EntryIs ==
  ASSUME IsStory, NEW o \in Objects, NEW prop \in Nat
  PROVE  ListAt(o, EntryFor(o, prop), NotAbove(o, prop))
<1>1. PICK from : IsWalk(from, prop) /\ EntryFor(o, prop) = from[get_property_addr(o)]
  BY WalkIs
<1>2. \A q \in PropertiesOf(h_type, o) : q \in Nat /\ q < 64
  <2>1. ASSUME NEW q \in PropertiesOf(h_type, o)  PROVE q \in Nat /\ q < 64
    <3>1. q \in Nat /\ HasItsForm(h_type, o, q)
      BY PropertyIs DEF IsStory, IsProperty
    <3>. QED  BY <3>1 DEF HasItsForm
  <2>. QED  BY <2>1
<1>3. Below(o, 64) = PropertiesOf(h_type, o)
  BY <1>2 DEF Below
<1>4. ListAt(o, get_property_addr(o), Below(o, 64))
  BY <1>3, FirstIs
<1>5. ListAt(o, EntryFor(o, prop), NotAbove(o, prop) \cap Below(o, 64))
  BY <1>1, <1>4, WalkEnds
<1>6. NotAbove(o, prop) \cap Below(o, 64) = NotAbove(o, prop)
  BY <1>3 DEF NotAbove
<1>. QED  BY <1>5, <1>6

Has(o, p) == p \in PropertiesOf(h_type, o)

\* The walk finds a property exactly when the object has it.
LEMMA EntryFound ==
  ASSUME IsStory, NEW o \in Objects, NEW p \in Nat, p > 0
  PROVE  LET a == EntryFor(o, p) IN
         /\ a \in Area
         /\ IdAt(a) = p <=> Has(o, p)
         /\ Has(o, p) => SaysRight(a, PropertyPlace[h_type][o][p], BehindOf(h_type, o, p),
                                   PropertySize[h_type][o][p], p)
<1>. DEFINE a == EntryFor(o, p)
            ids == NotAbove(o, p)
<1>1. ListAt(o, a, ids)
  BY EntryIs
<1>2. \A q \in PropertiesOf(h_type, o) : q \in Nat
  BY PropertyIs DEF IsStory, IsProperty
<1>3. Has(o, p) => p \in ids
  BY DEF Has, NotAbove
<1>. HIDE DEF a
<1>4. CASE ids = {} /\ get_byte(a) = 0 /\ IdAt(a) = 0
  BY <1>1, <1>3, <1>4 DEF ListAt, a
<1>5. ASSUME NEW q \in ids, \A r \in ids : r <= q, IsProperty(o, q),
               SaysRight(a, PropertyPlace[h_type][o][q], BehindOf(h_type, o, q),
                         PropertySize[h_type][o][q], q)
      PROVE  /\ IdAt(a) = p <=> Has(o, p)
             /\ Has(o, p) => SaysRight(a, PropertyPlace[h_type][o][p], BehindOf(h_type, o, p),
                                   PropertySize[h_type][o][p], p)
  <2>1. IdAt(a) = q
    BY <1>5 DEF SaysRight
  <2>2. q \in Nat /\ q <= p /\ q \in PropertiesOf(h_type, o)
    BY <1>2 DEF NotAbove
  <2>3. Has(o, p) => q = p
    BY <1>3, <1>5, <2>2
  <2>. QED  BY <1>5, <2>1, <2>2, <2>3 DEF Has
<1>. QED  BY <1>1, <1>4, <1>5 DEF ListAt, a

-----------------------------------------------------------------------------
(* What the instructions read and write *)

\* An id is a byte.
LEMMA AskedIds ==
  ASSUME NEW p \in Ids
  PROVE  p \in Nat /\ p > 0 /\ p < 256 /\ zbyte_t(p) = p
<1>1. p \in Nat /\ p > 0 /\ p < 256
  <2>1. p \in 1 .. 255
    BY PropertiesAssumption
  <2>. QED  BY <2>1
<1>. QED  BY <1>1 DEF zbyte_t

Place(o, p) == PropertyPlace[h_type][o][p]
Size(o, p) == PropertySize[h_type][o][p]

\* The bytes of a property are in the area and apart from all else.
LEMMA BytesHavePlace ==
  ASSUME IsStory, NEW o \in Objects, NEW p, Has(o, p)
  PROVE  /\ Place(o, p) \in Nat /\ Place(o, p) > 0 /\ Size(o, p) \in Nat /\ Size(o, p) > 0
         /\ \A a \in Nat : Place(o, p) <= a /\ a < Place(o, p) + Size(o, p) =>
               a \in Area /\ a \notin Structure(h_type)
<1>1. IsProperty(o, p)
  BY DEF IsProperty, Has
<1>2. /\ Place(o, p) \in Nat /\ Size(o, p) \in Nat /\ Size(o, p) > 0
      /\ BeginOf(h_type, o, p) \in Nat /\ BehindOf(h_type, o, p) \in Area
      /\ BehindOf(h_type, o, p) = Place(o, p) + Size(o, p)
  BY <1>1, PropertyIs DEF Place, Size, IsStory
<1>3. Place(o, p) > 0
  BY <1>2 DEF BeginOf, Place
<1>4. BytesOf(h_type, o, p) \cap Structure(h_type) = {}
  BY <1>1, ListsAre DEF AreApart, IsProperty, IsStory
<1>5. ASSUME NEW a \in Nat, Place(o, p) <= a, a < Place(o, p) + Size(o, p)
      PROVE  a \in Area /\ a \notin Structure(h_type)
  <2>1. Place(o, p) + Size(o, p) < data_size /\ data_size \in Nat
    BY <1>2, SizeIs
  <2>2. a \in Area
    BY <1>2, <1>5, <2>1, SizeIs
  <2>3. a \in Place(o, p) .. (Place(o, p) + Size(o, p)) - 1
    BY <1>2, <1>5
  <2>4. a \in BytesOf(h_type, o, p)
    BY <1>2, <2>3 DEF BytesOf, Place
  <2>. QED  BY <1>4, <2>2, <2>4
<1>. QED  BY <1>2, <1>3, <1>5

\* What is read from the area is bytes and words.
LEMMA WordsAre ==
  ASSUME datap \in Areas, NEW a \in Area
  PROVE  /\ get_byte(a) \in AllWords /\ get_byte(a) \in ByteValues
         /\ a + 1 \in Area => get_word(a) \in AllWords
<1>1. get_byte(a) \in Nat /\ get_byte(a) < 256 /\ get_byte(a) \in ByteValues
  BY ByteIs DEF Areas, get_byte
<1>2. a + 1 \in Area => datap[a + 1] \in Nat /\ datap[a + 1] < 256
  BY ByteIs DEF Areas
<1>3. a + 1 \in Area => get_word(a) \in Nat /\ get_word(a) < 65536
  BY <1>1, <1>2 DEF get_byte, get_word
<1>. QED  BY <1>1, <1>3 DEF AllWords

\* The default properties are where get_prop reads them, and stay there.
LEMMA DefaultIs ==
  ASSUME IsStory, NEW p \in Ids
  PROVE  /\ get_word(DefaultAt(p)) = DefaultOf[p]
         /\ get_word(DefaultAt(p)) \in AllWords
<1>1. /\ p \in Nat /\ p > 0 /\ h_objects_offset \in Nat /\ h_type \in Versions
      /\ DefaultAt(p) + 1 < data_size /\ StoryWord(h_type, DefaultAt(p)) = DefaultOf[p]
  BY AskedIds, PropertiesAssumption DEF IsStory
<1>2. DefaultAt(p) \in Nat
  BY <1>1 DEF DefaultAt
<1>3. DefaultAt(p) \in Area /\ DefaultAt(p) + 1 \in Area
  BY <1>1, <1>2, SizeIs
<1>4. DOMAIN Story[h_type] = Area
  BY <1>1, PropertiesAssumption DEF Area
<1>5. DefaultAt(p) \in Structure(h_type) /\ DefaultAt(p) + 1 \in Structure(h_type)
  BY <1>3, <1>4 DEF Structure
<1>6. get_word(DefaultAt(p)) = StoryWord(h_type, DefaultAt(p))
  BY <1>5 DEF IsStory, Kept, get_word, StoryWord
<1>. QED  BY <1>1, <1>3, <1>6, WordsAre DEF IsStory

\* get_prop gives the byte or word of the property, or the default.
LEMMA ValueIs ==
  ASSUME IsStory, NEW o \in Objects, NEW p \in Ids, OneSizeByte(o, p)
  PROVE  /\ PropertyValue(o, p) \in AllWords
         /\ Has(o, p) => PropertyValue(o, p) =
              IF Size(o, p) = 1 THEN datap[Place(o, p)]
              ELSE datap[Place(o, p)] * 256 + datap[Place(o, p) + 1]
         /\ ~ Has(o, p) => PropertyValue(o, p) = DefaultOf[p]
<1>. DEFINE a == EntryFor(o, p)
<1>1. p \in Nat /\ p > 0 /\ zbyte_t(p) = p
  BY AskedIds
<1>2. /\ IdAt(a) = p <=> Has(o, p)
      /\ Has(o, p) => SaysRight(a, Place(o, p), BehindOf(h_type, o, p), Size(o, p), p)
  BY <1>1, EntryFound DEF Place, Size
<1>3. PropertyValue(o, p) =
        IF IdAt(a) # p THEN get_word(DefaultAt(p))
        ELSE IF ByteSized(get_byte(a)) THEN get_byte(a + 1) ELSE get_word(a + 1)
  BY <1>1 DEF PropertyValue, DefaultAt
<1>. HIDE DEF a
<1>4. CASE ~ Has(o, p)
  BY <1>2, <1>3, <1>4, DefaultIs
<1>5. CASE Has(o, p)
  <2>1. /\ Place(o, p) \in Nat /\ Size(o, p) \in Nat /\ Size(o, p) > 0
        /\ Place(o, p) \in Area
        /\ Size(o, p) # 1 => Place(o, p) + 1 \in Area
    BY <1>5, BytesHavePlace
  <2>2. h_type = 3 \/ Size(o, p) <= 2
    <3>1. o \in Nat \ {0} /\ h_type \in {3, 5}
      BY PropertiesAssumption DEF IsStory
    <3>2. p \in DOMAIN PropertySize[h_type][o]
      BY <1>5 DEF Has, PropertiesOf
    <3>. QED  BY <3>1, <3>2 DEF OneSizeByte, Size
  <2>3. Place(o, p) = a + 1 /\ (ByteSized(get_byte(a)) <=> Size(o, p) = 1)
    BY <1>2, <1>5, <2>2 DEF SaysRight
  <2>4. PropertyValue(o, p) = IF Size(o, p) = 1 THEN get_byte(Place(o, p)) ELSE get_word(Place(o, p))
    BY <1>2, <1>3, <1>5, <2>3
  <2>5. PropertyValue(o, p) \in AllWords
    BY <2>1, <2>4, WordsAre DEF IsStory
  <2>. QED  BY <1>5, <2>4, <2>5 DEF get_byte, get_word
<1>. QED  BY <1>4, <1>5

\* The bytes of a property after its value is put.
AfterPut(o, p, v) ==
    IF Size(o, p) = 1 THEN [datap EXCEPT ![Place(o, p)] = v % 256]
    ELSE [datap EXCEPT ![Place(o, p)] = v \div 256, ![Place(o, p) + 1] = v % 256]

\* put_prop stores into the bytes of the property, or stops.
LEMMA PutIs ==
  ASSUME IsStory, NEW o \in Objects, NEW p \in Ids, NEW v, OneSizeByte(o, p), z_put_prop(o, p, v)
  PROVE  /\ Has(o, p) => datap' = AfterPut(o, p, v) /\ status' = status
         /\ ~ Has(o, p) => datap' = datap /\ status' = "fatal"
         /\ result' = result /\ branch' = branch
<1>. DEFINE a == EntryFor(o, p)
<1>1. p \in Nat /\ p > 0
  BY AskedIds
<1>2. /\ IdAt(a) = p <=> Has(o, p)
      /\ Has(o, p) => SaysRight(a, Place(o, p), BehindOf(h_type, o, p), Size(o, p), p)
  BY <1>1, EntryFound DEF Place, Size
<1>3. o \in Nat \ {0} /\ h_type \in {3, 5}
  BY PropertiesAssumption DEF IsStory
<1>4. /\ IdAt(a) # p => datap' = datap /\ status' = "fatal"
      /\ IdAt(a) = p => /\ IF ByteSized(get_byte(a)) THEN set_byte(a + 1, v) ELSE set_word(a + 1, v)
                        /\ status' = status
      /\ result' = result /\ branch' = branch
  BY <1>3 DEF z_put_prop, NoObject
<1>. HIDE DEF a
<1>5. CASE Has(o, p)
  <2>1. Place(o, p) \in Nat /\ Size(o, p) \in Nat
    BY <1>5, BytesHavePlace
  <2>2. h_type = 3 \/ Size(o, p) <= 2
    <3>2. p \in DOMAIN PropertySize[h_type][o]
      BY <1>5 DEF Has, PropertiesOf
    <3>. QED  BY <1>3, <3>2 DEF OneSizeByte, Size
  <2>3. Place(o, p) = a + 1 /\ (ByteSized(get_byte(a)) <=> Size(o, p) = 1)
    BY <1>2, <1>5, <2>2 DEF SaysRight
  <2>4. IF Size(o, p) = 1 THEN set_byte(Place(o, p), v) ELSE set_word(Place(o, p), v)
    BY <1>2, <1>4, <1>5, <2>3
  <2>5. datap' = AfterPut(o, p, v)
    BY <2>4 DEF set_byte, set_word, AfterPut
  <2>. QED  BY <1>2, <1>4, <1>5, <2>5
<1>6. CASE ~ Has(o, p)
  BY <1>2, <1>4, <1>6
<1>. QED  BY <1>4, <1>5, <1>6

\* The highest of some ids, or 0.
Top(ids) == IF ids = {} THEN 0 ELSE CHOOSE q \in ids : \A r \in ids : r <= q

\* The id at the next entry is the highest of those left.
LEMMA TopIs ==
  ASSUME IsStory, NEW o \in Objects, NEW a, NEW ids, ids \subseteq PropertiesOf(h_type, o), ListAt(o, a, ids)
  PROVE  IdAt(a) = Top(ids) /\ IdAt(a) \in AllWords
<1>1. CASE ids = {} /\ IdAt(a) = 0
  BY <1>1 DEF Top, AllWords
<1>2. ASSUME NEW p \in ids, \A q \in ids : q <= p, IsProperty(o, p),
             SaysRight(a, PropertyPlace[h_type][o][p], BehindOf(h_type, o, p), PropertySize[h_type][o][p], p)
      PROVE  IdAt(a) = Top(ids) /\ IdAt(a) \in AllWords
  <2>1. \A q \in ids : q \in Nat
    BY PropertyIs DEF IsStory, IsProperty
  <2>2. \A q \in ids : (\A r \in ids : r <= q) => q = p
    BY <1>2, <2>1
  <2>3. Top(ids) = p
    BY <1>2, <2>2 DEF Top
  <2>4. IdAt(a) = p
    BY <1>2 DEF SaysRight
  <2>5. p < 64
    <3>1. HasItsForm(h_type, o, p)
      BY <1>2, PropertyIs DEF IsStory
    <3>. QED  BY <2>1, <3>1 DEF HasItsForm
  <2>. QED  BY <2>1, <2>3, <2>4, <2>5 DEF AllWords
<1>. QED  BY <1>1, <1>2 DEF ListAt

\* get_next_prop gives the first property or the one behind, or stops.
LEMMA NextIs ==
  ASSUME IsStory, NEW o \in Objects, NEW p \in Ids \cup {0}, z_get_next_prop(o, p)
  PROVE  /\ p = 0 => result' = Top(PropertiesOf(h_type, o)) /\ status' = status
         /\ Has(o, p) => result' = Top(Below(o, p)) /\ status' = status
         /\ p # 0 /\ ~ Has(o, p) => result' = result /\ status' = "fatal"
         /\ result' \in AllWords \/ result' = result
         /\ datap' = datap /\ branch' = branch
<1>1. o \in Nat \ {0}
  BY PropertiesAssumption
<1>2. CASE p = 0
  <2>1. /\ result' = IdAt(get_property_addr(o)) /\ status' = status
        /\ datap' = datap /\ branch' = branch
    BY <1>1, <1>2 DEF z_get_next_prop, NoObject, Stores
  <2>2. result' = Top(PropertiesOf(h_type, o)) /\ result' \in AllWords
    BY <2>1, FirstIs, TopIs
  <2>3. ~ Has(o, p)
    <3>1. ASSUME Has(o, p)  PROVE p > 0
      <4>1. IsProperty(o, p)
        BY <3>1 DEF IsProperty, Has
      <4>. QED  BY <4>1, PropertyIs DEF IsStory
    <3>. QED  BY <1>2, <3>1
  <2>. QED  BY <1>2, <2>1, <2>2, <2>3
<1>3. CASE p \in Ids
  <2>. DEFINE a == EntryFor(o, p)
  <2>1. p \in Nat /\ p > 0 /\ zbyte_t(p) = p
    BY <1>3, AskedIds
  <2>2. /\ IdAt(a) = p <=> Has(o, p)
        /\ Has(o, p) => SaysRight(a, Place(o, p), BehindOf(h_type, o, p), Size(o, p), p)
    BY <2>1, EntryFound DEF Place, Size
  <2>3. /\ IdAt(a) # p => status' = "fatal" /\ result' = result
        /\ IdAt(a) = p => result' = IdAt(get_next_property(a)) /\ status' = status
        /\ datap' = datap /\ branch' = branch
    BY <1>1, <2>1 DEF z_get_next_prop, NoObject, Stores
  <2>. HIDE DEF a
  <2>4. CASE Has(o, p)
    <3>1. result' = IdAt(BehindOf(h_type, o, p)) /\ status' = status
      BY <2>2, <2>3, <2>4 DEF SaysRight
    <3>2. ListAt(o, BehindOf(h_type, o, p), Below(o, p)) /\ Below(o, p) \subseteq PropertiesOf(h_type, o)
      BY <2>4, ListBehind DEF IsProperty, Has, Below
    <3>3. result' = Top(Below(o, p)) /\ result' \in AllWords
      BY <3>1, <3>2, TopIs
    <3>. QED  BY <2>1, <2>3, <2>4, <3>1, <3>3
  <2>5. CASE ~ Has(o, p)
    BY <2>1, <2>2, <2>3, <2>5
  <2>. QED  BY <2>4, <2>5
<1>. QED  BY <1>2, <1>3

\* get_prop_addr gives the place of the property, or 0,
LEMMA AddressIs ==
  ASSUME IsStory, NEW o \in Objects, NEW p \in Ids
  PROVE  /\ PropertyAddress(o, p) = IF Has(o, p) THEN Place(o, p) ELSE 0
         /\ PropertyAddress(o, p) \in AllWords
<1>. DEFINE a == EntryFor(o, p)
<1>1. p \in Nat /\ p > 0 /\ zbyte_t(p) = p
  BY AskedIds
<1>2. /\ IdAt(a) = p <=> Has(o, p)
      /\ Has(o, p) => SaysRight(a, Place(o, p), BehindOf(h_type, o, p), Size(o, p), p)
  BY <1>1, EntryFound DEF Place, Size
<1>3. PropertyAddress(o, p) = IF IdAt(a) # p THEN 0 ELSE IF LongForm(get_byte(a)) THEN a + 2 ELSE a + 1
  BY <1>1 DEF PropertyAddress
<1>. HIDE DEF a
<1>4. CASE Has(o, p)
  <2>1. PropertyAddress(o, p) = Place(o, p)
    BY <1>2, <1>3, <1>4 DEF SaysRight
  <2>2. Place(o, p) \in Area
    BY <1>4, BytesHavePlace
  <2>. QED  BY <1>4, <2>1, <2>2, SizeIs DEF AllWords
<1>5. CASE ~ Has(o, p)
  BY <1>2, <1>3, <1>5 DEF AllWords
<1>. QED  BY <1>4, <1>5

\* and get_prop_len its size there.
LEMMA LengthIs ==
  ASSUME IsStory, NEW o \in Objects, NEW p \in Ids, Has(o, p)
  PROVE  PropertyLength(Place(o, p)) = Size(o, p) /\ Size(o, p) \in AllWords
<1>1. PropertyLength(Place(o, p)) = Size(o, p)
  BY AskedIds, EntryFound DEF SaysRight, Place, Size
<1>2. IsProperty(o, p)
  BY DEF IsProperty, Has
<1>3. /\ Place(o, p) \in Nat /\ Size(o, p) \in Nat
      /\ BehindOf(h_type, o, p) \in Area
      /\ BehindOf(h_type, o, p) = Place(o, p) + Size(o, p)
  BY <1>2, PropertyIs DEF Place, Size, IsStory
<1>. QED  BY <1>1, <1>3, SizeIs DEF AllWords

-----------------------------------------------------------------------------
(* The property instructions keep the lists *)

\* The invariant of a story.
States == {"run", "fatal", "undefined"}
StoryInv == IsStory /\ result \in AllWords /\ branch \in BOOLEAN /\ status \in States

\* What a step leaves behind.
KeepsLists == datap' \in Areas /\ \A a \in Structure(h_type) : datap'[a] = datap[a]
Goes == KeepsLists /\ result' \in AllWords /\ branch' \in BOOLEAN /\ status' \in States

\* The two bytes of a word.
LEMMA BytesOfWord ==
  ASSUME NEW v \in AllWords
  PROVE  v % 256 \in ByteValues /\ v \div 256 \in ByteValues
<1>1. v \in Nat /\ v < 65536
  BY DEF AllWords
<1>2. v % 256 \in Nat /\ v % 256 < 256 /\ v \div 256 \in Nat /\ v \div 256 < 256
  BY <1>1
<1>. QED  BY <1>2, ByteIs

\* A store outside of the structure keeps the lists,
LEMMA OneStore ==
  ASSUME IsStory, NEW a \in Area, a \notin Structure(h_type), NEW b \in ByteValues,
         datap' = [datap EXCEPT ![a] = b]
  PROVE  KeepsLists
BY DEF IsStory, Areas, KeepsLists

\* and so do two,
LEMMA TwoStores ==
  ASSUME IsStory, NEW a \in Area, a \notin Structure(h_type), NEW b \in ByteValues,
         NEW c \in Area, c \notin Structure(h_type), NEW d \in ByteValues,
         datap' = [datap EXCEPT ![a] = b, ![c] = d]
  PROVE  KeepsLists
<1>. DEFINE mem == [datap EXCEPT ![a] = b]
<1>1. mem \in Areas /\ \A x \in Area : x # a => mem[x] = datap[x]
  BY DEF IsStory, Areas
<1>2. datap' = [mem EXCEPT ![c] = d]
  OBVIOUS
<1>. HIDE DEF mem
<1>3. datap' \in Areas /\ \A x \in Area : x # c => datap'[x] = mem[x]
  BY <1>1, <1>2 DEF Areas
<1>4. Structure(h_type) \subseteq Area
  BY ListsAre, PropertiesAssumption DEF IsStory, Structure, Area
<1>. QED  BY <1>1, <1>3, <1>4 DEF KeepsLists

\* and none.
LEMMA NoStore ==
  ASSUME IsStory, datap' = datap
  PROVE  KeepsLists
BY DEF IsStory, KeepsLists

\* put_prop keeps the lists.
LEMMA PutGoes ==
  ASSUME StoryInv, NEW o \in Objects, NEW p \in Ids, NEW v \in Values,
         OneSizeByte(o, p), z_put_prop(o, p, v)
  PROVE  Goes
<1>1. IsStory /\ v \in AllWords
  BY OperandsAreWords DEF StoryInv
<1>2. /\ Has(o, p) => datap' = AfterPut(o, p, v) /\ status' = status
      /\ ~ Has(o, p) => datap' = datap /\ status' = "fatal"
      /\ result' = result /\ branch' = branch
  BY <1>1, PutIs
<1>3. v % 256 \in ByteValues /\ v \div 256 \in ByteValues
  BY <1>1, BytesOfWord
<1>4. CASE Has(o, p)
  <2>1. /\ Place(o, p) \in Nat /\ Size(o, p) \in Nat /\ Size(o, p) > 0
        /\ Place(o, p) \in Area /\ Place(o, p) \notin Structure(h_type)
        /\ Size(o, p) # 1 => Place(o, p) + 1 \in Area /\ Place(o, p) + 1 \notin Structure(h_type)
    BY <1>1, <1>4, BytesHavePlace
  <2>2. CASE Size(o, p) = 1
    <3>1. datap' = [datap EXCEPT ![Place(o, p)] = v % 256]
      BY <1>2, <1>4, <2>2 DEF AfterPut
    <3>2. KeepsLists
      BY <1>1, <1>3, <2>1, <3>1, OneStore
    <3>. QED  BY <1>2, <1>4, <3>2 DEF Goes, StoryInv
  <2>3. CASE Size(o, p) # 1
    <3>1. datap' = [datap EXCEPT ![Place(o, p)] = v \div 256, ![Place(o, p) + 1] = v % 256]
      BY <1>2, <1>4, <2>3 DEF AfterPut
    <3>2. KeepsLists
      BY <1>1, <1>3, <2>1, <2>3, <3>1, TwoStores
    <3>. QED  BY <1>2, <1>4, <3>2 DEF Goes, StoryInv
  <2>. QED  BY <2>2, <2>3
<1>5. CASE ~ Has(o, p)
  BY <1>1, <1>2, <1>5, NoStore DEF Goes, StoryInv, States
<1>. QED  BY <1>4, <1>5

\* Object 0 has no property: nothing is read or stored.
LEMMA NullObject ==
  ASSUME StoryInv, NEW p,
         \/ z_get_prop(0, p) \/ z_get_next_prop(0, p) \/ z_get_prop_addr(0, p)
         \/ \E v : z_put_prop(0, p, v)
  PROVE  Goes /\ datap' = datap /\ status' = status /\ (asked'.opcode # "put_prop" => result' = 0)
<1>1. /\ datap' = datap /\ status' = status /\ branch' = branch
      /\ result' = 0 \/ result' = result
      /\ asked'.opcode # "put_prop" => result' = 0
  BY DEF z_get_prop, z_get_next_prop, z_get_prop_addr, z_put_prop, NoObject, Stores, Does
<1>2. 0 \in AllWords
  BY DEF AllWords
<1>. QED  BY <1>1, <1>2, NoStore DEF Goes, StoryInv

\* The address of a property, from get_prop_addr, for a store.
LEMMA PlaceStored ==
  ASSUME StoryInv, NEW o \in Objects, NEW p \in Ids, NEW v \in Values,
         PropertyAddress(o, p) # 0, z_storeb(PropertyAddress(o, p), 0, v)
  PROVE  /\ Has(o, p) /\ datap' = [datap EXCEPT ![Place(o, p)] = v % 256]
         /\ Goes
<1>1. IsStory /\ v \in AllWords
  BY OperandsAreWords DEF StoryInv
<1>2. Has(o, p) /\ PropertyAddress(o, p) = Place(o, p)
  BY <1>1, AddressIs
<1>3. /\ Place(o, p) \in Nat /\ Place(o, p) \in Area /\ Place(o, p) \notin Structure(h_type)
  BY <1>1, <1>2, BytesHavePlace
<1>4. Place(o, p) < data_size /\ data_size + 1 < 65536 /\ data_size \in Nat
  BY <1>3, SizeIs
<1>5. Place(o, p) + 0 = Place(o, p) /\ zword_t(Place(o, p)) = Place(o, p)
  BY <1>3, <1>4, ZwordOfWord
<1>6. ~ Refused(Place(o, p))
  BY <1>3, <1>4 DEF Refused
<1>7. /\ datap' = [datap EXCEPT ![Place(o, p)] = v % 256]
      /\ status' = status /\ result' = result /\ branch' = branch
  BY <1>2, <1>5, <1>6 DEF z_storeb, set_byte
<1>8. KeepsLists
  BY <1>1, <1>3, <1>7, BytesOfWord, OneStore
<1>. QED  BY <1>2, <1>7, <1>8 DEF Goes, StoryInv

\* The property instructions keep the lists.
LEMMA PropertiesGo ==
  ASSUME StoryInv, UsesProperties
  PROVE  Goes
<1>0. IsStory
  BY DEF StoryInv
<1>1. ASSUME NEW o \in Objects \cup {0}, NEW p \in Ids,
             OneSizeByte(o, p), z_get_prop(o, p)
      PROVE  Goes
  <2>1. CASE o = 0
    BY <1>1, <2>1, NullObject
  <2>2. CASE o \in Objects
    <3>1. o # 0
      BY <2>2, PropertiesAssumption
    <3>2. result' = PropertyValue(o, p) /\ datap' = datap /\ branch' = branch /\ status' = status
      BY <1>1, <3>1 DEF z_get_prop, NoObject, Stores
    <3>3. PropertyValue(o, p) \in AllWords
      BY <1>0, <1>1, <2>2, ValueIs
    <3>. QED  BY <1>0, <3>2, <3>3, NoStore DEF Goes, StoryInv
  <2>. QED  BY <2>1, <2>2
<1>2. ASSUME NEW o \in Objects \cup {0}, NEW p \in Ids \cup {0}, z_get_next_prop(o, p)
      PROVE  Goes
  <2>1. CASE o = 0
    BY <1>2, <2>1, NullObject
  <2>2. CASE o \in Objects
    <3>1. /\ result' \in AllWords \/ result' = result
          /\ status' = status \/ status' = "fatal"
          /\ datap' = datap /\ branch' = branch
      BY <1>0, <1>2, <2>2, NextIs
    <3>. QED  BY <1>0, <3>1, NoStore DEF Goes, StoryInv, States
  <2>. QED  BY <2>1, <2>2
<1>3. ASSUME NEW o \in Objects \cup {0}, NEW p \in Ids, z_get_prop_addr(o, p)
      PROVE  Goes
  <2>1. CASE o = 0
    BY <1>3, <2>1, NullObject
  <2>2. CASE o \in Objects
    <3>1. o # 0
      BY <2>2, PropertiesAssumption
    <3>2. result' = PropertyAddress(o, p) /\ datap' = datap /\ branch' = branch /\ status' = status
      BY <1>3, <3>1 DEF z_get_prop_addr, NoObject, Stores
    <3>. QED  BY <1>0, <2>2, <3>2, AddressIs, NoStore DEF Goes, StoryInv
  <2>. QED  BY <2>1, <2>2
<1>4. ASSUME NEW o \in Objects \cup {0}, NEW p \in Ids, NEW v \in Values,
             OneSizeByte(o, p), z_put_prop(o, p, v)
      PROVE  Goes
  <2>1. CASE o = 0
    BY <1>4, <2>1, NullObject
  <2>2. CASE o \in Objects
    BY <1>4, <2>2, PutGoes
  <2>. QED  BY <2>1, <2>2
<1>5. ASSUME NEW o \in Objects, NEW p \in Ids, z_get_prop_len(PropertyAddress(o, p))
      PROVE  Goes
  <2>1. /\ result' = IF PropertyAddress(o, p) = 0 THEN 0 ELSE PropertyLength(PropertyAddress(o, p))
        /\ datap' = datap /\ branch' = branch /\ status' = status
    BY <1>5 DEF z_get_prop_len, Stores
  <2>2. result' \in AllWords
    <3>1. 0 \in AllWords
      BY DEF AllWords
    <3>2. CASE PropertyAddress(o, p) # 0
      BY <1>0, <2>1, <3>2, AddressIs, LengthIs
    <3>. QED  BY <2>1, <3>1, <3>2
  <2>. QED  BY <1>0, <2>1, <2>2, NoStore DEF Goes, StoryInv
<1>6. ASSUME NEW o \in Objects, NEW p \in Ids, NEW v \in Values,
             PropertyAddress(o, p) # 0, z_storeb(PropertyAddress(o, p), 0, v)
      PROVE  Goes
  BY <1>6, PlaceStored
<1>. QED  BY <1>1, <1>2, <1>3, <1>4, <1>5, <1>6 DEF UsesProperties

-----------------------------------------------------------------------------
(* The table instructions keep the lists *)

\* What is read from the story file is bytes and words.
LEMMA ReadsAre ==
  ASSUME IsStory, NEW a \in Nat, InFile(a)
  PROVE  /\ read_data_byte(a) \in AllWords /\ read_data_byte(a) \in ByteValues
         /\ InFile(a + 1) => read_data_word(a) \in AllWords
<1>1. ASSUME NEW b \in Nat, InFile(b)  PROVE read_data_byte(b) \in ByteValues
  <2>1. b # Zero
    BY DEF Zero
  <2>2. Source(datap, b) \in ByteValues
    BY <1>1, SourceIsByte DEF IsSource, IsStory
  <2>. QED  BY <2>1, <2>2 DEF Source, read_data_byte
<1>2. read_data_byte(a) \in Nat /\ read_data_byte(a) < 256
  BY <1>1, ByteIs
<1>3. ASSUME InFile(a + 1)  PROVE read_data_word(a) \in AllWords
  <2>1. a + 1 \in Nat
    OBVIOUS
  <2>2. read_data_byte(a + 1) \in Nat /\ read_data_byte(a + 1) < 256
    BY <1>1, <1>3, <2>1, ByteIs
  <2>3. read_data_word(a) \in Nat /\ read_data_word(a) < 65536
    BY <1>2, <2>2 DEF read_data_word
  <2>. QED  BY <2>3 DEF AllWords
<1>. QED  BY <1>1, <1>2, <1>3 DEF AllWords

\* The structure is in the area.
LEMMA StructureInArea ==
  ASSUME IsStory
  PROVE  Structure(h_type) \subseteq Area
BY PropertiesAssumption DEF IsStory, Structure, Area

\* A table of the story is behind the structure.
LEMMA TableIs ==
  ASSUME IsStory, NEW a \in Places, NEW i \in Nat, i <= 3
  PROVE  /\ a + i \in Nat /\ zword_t(a + i) = a + i
         /\ a + i \notin Structure(h_type)
<1>1. a \in Nat /\ a + 3 < 65536
  BY TablesAreBehind DEF WORD
<1>2. a + i \in Nat /\ a + i < 65536
  BY <1>1
<1>3. \A b \in Structure(h_type) : b < a
  BY TablesAreBehind DEF IsStory
<1>4. \A b \in Structure(h_type) : b \in Nat
  BY StructureInArea, SizeIs
<1>5. a + i \notin Structure(h_type)
  BY <1>1, <1>3, <1>4
<1>. QED  BY <1>2, <1>5, ZwordOfWord

\* storew and storeb keep the lists,
LEMMA StoresGo ==
  ASSUME StoryInv, NEW a \in Places, NEW i \in 0 .. 1, NEW v \in Values,
         z_storew(a, i, v) \/ z_storeb(a, i, v)
  PROVE  Goes
<1>1. IsStory /\ v \in AllWords
  BY OperandsAreWords DEF StoryInv
<1>2. v % 256 \in ByteValues /\ v \div 256 \in ByteValues
  BY <1>1, BytesOfWord
<1>3. ASSUME NEW b, Refused(b)  PROVE status' \in States
  BY <1>3 DEF Refused, States
<1>4. CASE z_storew(a, i, v)
  <2>. DEFINE b == a + i * 2
  <2>1. b \in Nat /\ zword_t(b) = b /\ b \notin Structure(h_type)
        /\ b + 1 \in Nat /\ b + 1 \notin Structure(h_type)
    <3>1. i * 2 \in Nat /\ i * 2 <= 3 /\ i * 2 + 1 \in Nat /\ i * 2 + 1 <= 3
      OBVIOUS
    <3>2. a \in Nat
      BY TablesAreBehind
    <3>3. a + (i * 2 + 1) = b + 1
      BY <3>1, <3>2
    <3>4. b \in Nat /\ zword_t(b) = b /\ b \notin Structure(h_type)
      BY <1>1, <3>1, TableIs
    <3>5. a + (i * 2 + 1) \in Nat /\ a + (i * 2 + 1) \notin Structure(h_type)
      BY <1>1, <3>1, TableIs
    <3>. QED  BY <3>3, <3>4, <3>5
  <2>2. /\ \/ b + 1 < data_size /\ set_word(b, v) /\ status' = status
           \/ b + 1 = data_size /\ status' = "undefined" /\ datap' = datap
           \/ Refused(b) /\ datap' = datap
        /\ result' = result /\ branch' = branch
    BY <1>4, <2>1 DEF z_storew
  <2>. HIDE DEF b
  <2>3. CASE b + 1 < data_size /\ set_word(b, v) /\ status' = status
    <3>1. b \in Area /\ b + 1 \in Area
      BY <2>1, <2>3, SizeIs
    <3>2. KeepsLists
      BY <1>1, <1>2, <2>1, <2>3, <3>1, TwoStores DEF set_word
    <3>. QED  BY <2>2, <2>3, <3>2 DEF Goes, StoryInv
  <2>4. CASE b + 1 = data_size /\ status' = "undefined" /\ datap' = datap
    BY <1>1, <2>2, <2>4, NoStore DEF Goes, StoryInv, States
  <2>5. CASE Refused(b) /\ datap' = datap
    BY <1>1, <1>3, <2>2, <2>5, NoStore DEF Goes, StoryInv
  <2>. QED  BY <2>2, <2>3, <2>4, <2>5
<1>5. CASE z_storeb(a, i, v)
  <2>. DEFINE b == a + i
  <2>1. b \in Nat /\ zword_t(b) = b /\ b \notin Structure(h_type)
    <3>1. i \in Nat /\ i <= 3
      OBVIOUS
    <3>. QED  BY <1>1, <3>1, TableIs
  <2>2. /\ \/ b < data_size /\ set_byte(b, v) /\ status' = status
           \/ Refused(b) /\ datap' = datap
        /\ result' = result /\ branch' = branch
    BY <1>5, <2>1 DEF z_storeb
  <2>. HIDE DEF b
  <2>3. CASE b < data_size /\ set_byte(b, v) /\ status' = status
    <3>1. b \in Area
      BY <2>1, <2>3, SizeIs
    <3>2. KeepsLists
      BY <1>1, <1>2, <2>1, <2>3, <3>1, OneStore DEF set_byte
    <3>. QED  BY <2>2, <2>3, <3>2 DEF Goes, StoryInv
  <2>4. CASE Refused(b) /\ datap' = datap
    BY <1>1, <1>3, <2>2, <2>4, NoStore DEF Goes, StoryInv
  <2>. QED  BY <2>2, <2>3, <2>4
<1>. QED  BY <1>4, <1>5

\* scan_table stores nothing,
LEMMA ScanGoes ==
  ASSUME StoryInv, NEW target, NEW a \in Nat, NEW n \in Nat, NEW form \in {1, 130},
         z_scan_table(target, a, n, form)
  PROVE  Goes
<1>. DEFINE found == Matches(target, a, n, form)
<1>1. /\ IF found = {} THEN Stores(0) /\ Jumps(FALSE)
         ELSE /\ Stores(zword_t(a + ScanStep(form) * (CHOOSE i \in found : \A j \in found : i <= j)))
              /\ Jumps(TRUE)
      /\ datap' = datap /\ status' = status
  BY DEF z_scan_table
<1>2. ScanStep(form) \in Nat
  BY DEF ScanStep
<1>3. found \subseteq Nat
  BY DEF Matches
<1>. HIDE DEF found
<1>4. CASE found = {}
  <2>1. 0 \in AllWords
    BY DEF AllWords
  <2>. QED  BY <1>1, <1>4, <2>1, NoStore DEF Goes, StoryInv, Stores, Jumps
<1>5. CASE found # {}
  <2>. DEFINE c == CHOOSE i \in found : \A j \in found : i <= j
  <2>1. c \in Nat
    <3>1. PICK m \in found : \A j \in found : ~ (j < m)
      BY <1>3, <1>5, LeastElement
    <3>2. \A j \in found : m <= j
      BY <1>3, <3>1
    <3>. QED  BY <1>3, <3>2
  <2>2. result' = zword_t(a + ScanStep(form) * c) /\ branch' = TRUE
    BY <1>1, <1>5 DEF Stores, Jumps
  <2>. HIDE DEF c
  <2>3. a + ScanStep(form) * c \in Int
    BY <1>2, <2>1
  <2>4. result' \in AllWords
    BY <2>2, <2>3, ZwordIs
  <2>. QED  BY <1>1, <2>2, <2>4, NoStore DEF Goes, StoryInv
<1>. QED  BY <1>4, <1>5

\* copy_table keeps them,
LEMMA CopyGoes ==
  ASSUME StoryInv, status = "run", NEW src \in Places, NEW dst \in Places \cup {0}, NEW m \in Counts,
         z_copy_table(src, dst, zword_t(m))
  PROVE  Goes
<1>1. IsStory /\ datap \in Areas
  BY DEF StoryInv, IsStory
<1>2. PICK low \in Places : Touches(low, 65536)
  <2>1. \/ Touches(src, 65536)
        \/ dst # 0 /\ Touches(dst, 65536)
    BY <1>1, CopyTableIs
  <2>. QED  BY <2>1
<1>3. ASSUME NEW a \in Structure(h_type)  PROVE datap'[a] = datap[a]
  <2>1. Structure(h_type) \subseteq Area
    BY <1>1, StructureInArea
  <2>2. a \in Nat /\ a < low /\ low \in Nat
    BY <1>1, <2>1, SizeIs, TablesAreBehind DEF IsStory
  <2>3. ~ (low <= a /\ a < 65536)
    BY <2>2
  <2>. QED  BY <1>2, <2>1, <2>3 DEF Touches
<1>4. result' = result /\ branch' = branch
  BY DEF z_copy_table
<1>. QED  BY <1>2, <1>3, <1>4 DEF Goes, KeepsLists, Touches, States, StoryInv

\* and so all table instructions.
LEMMA TablesGo ==
  ASSUME StoryInv, status = "run", UsesTables
  PROVE  Goes
<1>0. IsStory
  BY DEF StoryInv
<1>1. PICK a \in Places :
       \/ \E i \in 0 .. 1 : z_loadw(a, i) \/ z_loadb(a, i)
       \/ \E i \in 0 .. 1, v \in Values : z_storew(a, i, v) \/ z_storeb(a, i, v)
       \/ \E v \in Values, n \in {m \in Counts : m >= 0} :
            \/ z_scan_table(v, a, n, DefaultForm)
            \/ z_scan_table(v, a, n, 1)
       \/ \E b \in Places \cup {0}, n \in Counts : z_copy_table(a, b, zword_t(n))
  BY DEF UsesTables
<1>2. a \in Nat
  BY TablesAreBehind
<1>3. ASSUME NEW i \in 0 .. 1, z_loadw(a, i) \/ z_loadb(a, i)
      PROVE  Goes
  <2>1. a + i * 2 \in Nat /\ a + i \in Nat
    BY <1>2
  <2>2. CASE z_loadw(a, i)
    BY <1>0, <2>1, <2>2, ReadsAre, NoStore DEF z_loadw, Stores, Goes, StoryInv
  <2>3. CASE z_loadb(a, i)
    BY <1>0, <2>1, <2>3, ReadsAre, NoStore DEF z_loadb, Stores, Goes, StoryInv
  <2>. QED  BY <1>3, <2>2, <2>3
<1>4. ASSUME NEW i \in 0 .. 1, NEW v \in Values, z_storew(a, i, v) \/ z_storeb(a, i, v)
      PROVE  Goes
  BY <1>4, StoresGo
<1>5. ASSUME NEW v \in Values, NEW n \in {m \in Counts : m >= 0},
             z_scan_table(v, a, n, DefaultForm) \/ z_scan_table(v, a, n, 1)
      PROVE  Goes
  <2>1. n \in Nat
    BY TablesAre
  <2>. QED  BY <1>2, <1>5, <2>1, ScanGoes DEF DefaultForm
<1>6. ASSUME NEW b \in Places \cup {0}, NEW n \in Counts, z_copy_table(a, b, zword_t(n))
      PROVE  Goes
  BY <1>6, CopyGoes
<1>. QED  BY <1>1, <1>3, <1>4, <1>5, <1>6

-----------------------------------------------------------------------------
(* Calculations; the invariant *)

\* Quotients and remainders are numbers,
LEMMA QuotientsAre ==
  ASSUME NEW x \in Int, NEW y \in Int, y # 0
  PROVE  /\ Quotient(x, y) \in Int /\ -Quotient(x, y) \in Int
         /\ Remainder(x, y) \in Int /\ -Remainder(x, y) \in Int
<1>1. Quotient(x, y) \in Int /\ Remainder(x, y) \in Int
  BY Opposites
<1>. QED  BY <1>1

\* and a divisor that is turned is not 0.
LEMMA Turned ==
  ASSUME NEW b \in AllWords
  PROVE  /\ ZINT16(b) \in Int /\ ZINT16(-ZINT16(b)) \in Int
         /\ b # 0 => ZINT16(b) # 0
         /\ ZINT16(b) # 0 => ZINT16(-ZINT16(b)) # 0
<1>. DEFINE z == ZINT16(b)
<1>1. z \in Int /\ z >= -32768 /\ z < 32768 /\ z = IF b >= 32768 THEN b - 65536 ELSE b
  BY ZintIs DEF Short
<1>2. b \in Nat /\ b < 65536
  BY DEF AllWords
<1>. HIDE DEF z
<1>3. -z \in Int /\ (Short(-z) \/ -z = 32768)
  BY <1>1 DEF Short
<1>4. CASE Short(-z)
  BY <1>1, <1>2, <1>3, <1>4, ZintIs DEF z
<1>5. CASE -z = 32768
  <2>1. -z \in AllWords
    BY <1>5 DEF AllWords
  <2>2. ZINT16(-z) = -z - 65536
    BY <1>5, <2>1, ZintIs
  <2>3. ZINT16(-z) = -32768
    BY <1>5, <2>2
  <2>. QED  BY <1>1, <1>2, <1>5, <2>3 DEF z
<1>. QED  BY <1>3, <1>4, <1>5

\* The result of a division is a word,
LEMMA QuotientIsWord ==
  ASSUME NEW a \in AllWords, NEW b \in AllWords
  PROVE  z_div(a, b) \in AllWords /\ (b # 0 => z_mod(a, b) \in AllWords)
<1>1. ASSUME NEW x \in Int, NEW y \in Int, y # 0
      PROVE  /\ zword_t(IF x >= 0 THEN Quotient(x, y) ELSE -Quotient(-x, y)) \in AllWords
             /\ zword_t(IF x >= 0 THEN Remainder(x, y) ELSE -Remainder(-x, y)) \in AllWords
  <2>1. -x \in Int
    BY <1>1
  <2>2. /\ Quotient(x, y) \in Int /\ -Quotient(-x, y) \in Int
        /\ Remainder(x, y) \in Int /\ -Remainder(-x, y) \in Int
    BY <1>1, <2>1, QuotientsAre
  <2>. QED  BY <2>2, ZwordIs
<1>. DEFINE sa == IF ZINT16(b) < 0 THEN ZINT16(-ZINT16(a)) ELSE ZINT16(a)
            sb == IF ZINT16(b) < 0 THEN ZINT16(-ZINT16(b)) ELSE ZINT16(b)
            ta == ZINT16(a)
<1>2. sa \in Int /\ sb \in Int /\ ta \in Int /\ (b # 0 => sb # 0)
  BY Turned
<1>3. z_div(a, b) = IF sb = 0 THEN 32767
                    ELSE zword_t(IF sa >= 0 THEN Quotient(sa, sb) ELSE -Quotient(-sa, sb))
  BY DEF z_div
<1>4. z_mod(a, b) = zword_t(IF ta >= 0 THEN Remainder(ta, sb) ELSE -Remainder(-ta, sb))
  BY DEF z_mod
<1>. HIDE DEF sa, sb, ta
<1>5. 32767 \in AllWords
  BY DEF AllWords
<1>. QED  BY <1>1, <1>2, <1>3, <1>4, <1>5

\* of a shift,
LEMMA ShiftedIsWord ==
  ASSUME NEW a \in AllWords, NEW b, ZINT16(b) \in Int, -15 <= ZINT16(b), ZINT16(b) <= 15
  PROVE  z_log_shift(a, b) \in AllWords /\ z_art_shift(a, b) \in AllWords
<1>. DEFINE k == ZINT16(b)
            z == ZINT16(a)
<1>1. a \in Int /\ z \in Int
  BY Turned DEF AllWords
<1>2. /\ z_log_shift(a, b) = IF k > 0 THEN zword_t(a * 2 ^ k) ELSE a \div 2 ^ (-k)
      /\ z_art_shift(a, b) = IF k > 0 THEN zword_t(z * 2 ^ k) ELSE zword_t(z \div 2 ^ (-k))
  BY DEF z_log_shift, z_art_shift
<1>3. k \in Int /\ -15 <= k /\ k <= 15
  OBVIOUS
<1>. HIDE DEF k, z
<1>4. CASE k > 0
  <2>1. k \in BitPlaces
    BY <1>3, <1>4, BitPlaceIs
  <2>2. 2 ^ k \in Nat
    BY <2>1, Powers
  <2>3. a * 2 ^ k \in Int /\ z * 2 ^ k \in Int
    BY <1>1, <2>2
  <2>. QED  BY <1>2, <1>4, <2>3, ZwordIs
<1>5. CASE ~ (k > 0)
  <2>. DEFINE d == 2 ^ (-k)
              q == a \div d
  <2>1. -k \in BitPlaces
    BY <1>3, <1>5, BitPlaceIs
  <2>2. d \in Nat /\ d > 0
    BY <2>1, Powers
  <2>. HIDE DEF d
  <2>3. q \in Int /\ a % d \in 0 .. d - 1 /\ a = d * q + (a % d)
    BY <1>1, <2>2, DivisionIs
  <2>4. z \div d \in Int
    BY <1>1, <2>2, DivisionIs
  <2>5. q \in AllWords
    <3>. DEFINE r == a % d
    <3>1. r \in Nat /\ r < d /\ a = d * q + r /\ q \in Int /\ a \in Nat /\ a < 65536
      BY <2>2, <2>3 DEF AllWords
    <3>. HIDE DEF r, q
    <3>2. q >= 0
      <4>1. CASE q <= -1
        <5>1. d * (q + 1) <= 0
          BY <2>2, <3>1, <4>1
        <5>2. d * (q + 1) = d * q + d
          BY <2>2, <3>1
        <5>. QED  BY <2>2, <3>1, <5>1, <5>2
      <4>. QED  BY <3>1, <4>1
    <3>3. q <= a
      <4>1. (d - 1) * q >= 0
        BY <2>2, <3>1, <3>2
      <4>2. (d - 1) * q = d * q - q
        BY <2>2, <3>1
      <4>. QED  BY <2>2, <3>1, <4>1, <4>2
    <3>. QED  BY <3>1, <3>2, <3>3 DEF AllWords
  <2>. QED  BY <1>2, <1>5, <2>4, <2>5, ZwordIs DEF d, q
<1>. QED  BY <1>3, <1>4, <1>5

\* of bits,
LEMMA MaskIsWord ==
  ASSUME NEW bits \in [BitPlaces -> {0, 1}]
  PROVE  FromBits(bits) \in AllWords
<1>. DEFINE rest == [i \in BitPlaces |-> 1 - bits[i]]
<1>1. \A i \in BitPlaces : bits[i] = 0 \/ bits[i] = 1
  OBVIOUS
<1>2. bits \in [BitPlaces -> Nat] /\ rest \in [BitPlaces -> Nat]
  BY <1>1
<1>3. \A i \in BitPlaces : rest[i] = 1 - bits[i]
  OBVIOUS
<1>. HIDE DEF rest
<1>4. PICK ones \in AllWords : ones = 65535
  BY DEF AllWords
<1>5. PICK none \in AllWords : none = 0
  BY DEF AllWords
<1>6. ones = 65535 - none
  BY <1>4, <1>5
<1>7. \A i \in BitPlaces : bits[i] + rest[i] = Bits(ones)[i] + Bits(none)[i]
  <2>. SUFFICES ASSUME NEW i \in BitPlaces  PROVE bits[i] + rest[i] = Bits(ones)[i] + Bits(none)[i]
    OBVIOUS
  <2>1. Bits(ones)[i] = Bit(ones, i) /\ Bits(none)[i] = Bit(none, i)
    BY DEF Bits
  <2>2. Bit(none, i) \in {0, 1} /\ Bit(65535 - none, i) = 1 - Bit(none, i)
    BY BitOf
  <2>. QED  BY <1>1, <1>3, <1>6, <2>1, <2>2
<1>8. /\ Bits(ones) \in [BitPlaces -> Nat] /\ Bits(none) \in [BitPlaces -> Nat]
      /\ FromBits(Bits(ones)) = ones /\ FromBits(Bits(none)) = none
  BY SumOfBits
<1>9. SameBits(bits, rest, Bits(ones), Bits(none))
  BY <1>2, <1>7, <1>8 DEF SameBits
<1>10. FromBits(bits) + FromBits(rest) = 65535
  BY <1>4, <1>5, <1>8, <1>9, SumsAdd
<1>11. FromBits(bits) \in Nat /\ FromBits(rest) \in Nat
  BY <1>2, SumOf
<1>. QED  BY <1>10, <1>11 DEF AllWords

\* of a mask,
LEMMA MasksAreWords ==
  ASSUME NEW a, NEW b
  PROVE  z_and(a, b) \in AllWords /\ z_or(a, b) \in AllWords
BY MaskIsWord DEF z_and, z_or, BitPlaces

\* and of every calculation.
LEMMA ComputedIsWord ==
  ASSUME NEW opcode, NEW a \in AllWords, NEW b \in AllWords,
         opcode \in {"add", "sub", "mul", "div", "or", "and", "not"}
  PROVE  Computed(opcode, a, b) \in AllWords
<1>1. a \in Int /\ b \in Int /\ ZINT16(a) \in Int /\ ZINT16(b) \in Int
  BY Turned DEF AllWords
<1>2. a + b \in Int /\ a - b \in Int /\ ZINT16(a) * ZINT16(b) \in Int /\ -a - 1 \in Int
  BY <1>1
<1>3. /\ z_add(a, b) \in AllWords /\ z_sub(a, b) \in AllWords /\ z_mul(a, b) \in AllWords
      /\ z_not(a) \in AllWords
  BY <1>2, ZwordIs DEF z_add, z_sub, z_mul, z_not
<1>. QED  BY <1>3, QuotientIsWord, MasksAreWords DEF Computed

\* A condition is true or false.
LEMMA ConditionsAre ==
  ASSUME NEW opcode \in {"test", "jz", "je", "jl", "jg"}, NEW a, NEW b
  PROVE  Condition(opcode, a, b) \in BOOLEAN
<1>1. z_test(a, b) \in BOOLEAN /\ z_jz(a) \in BOOLEAN /\ z_jl(a, b) \in BOOLEAN
  BY DEF z_test, z_jz, z_jl
<1>2. z_je(<<a, b>>) \in BOOLEAN
  BY Zenon DEF z_je
<1>3. z_jg(a, b) \in BOOLEAN
  BY DEF z_jg
<1>. QED  BY <1>1, <1>2, <1>3 DEF Condition

\* A calculation gives a word or a truth value and stores nothing.
LEMMA CalculatesGo ==
  ASSUME StoryInv, status = "run", Calculates
  PROVE  Goes
<1>0. IsStory
  BY DEF StoryInv
<1>1. ASSUME NEW a \in Words, NEW b \in Words,
             NEW opcode \in {"add", "sub", "mul", "div", "or", "and"}, Computes(opcode, a, b)
      PROVE  Goes
  <2>1. Computed(opcode, a, b) \in AllWords
    BY OperandsAreWords, ComputedIsWord
  <2>. QED  BY <1>0, <1>1, <2>1, NoStore DEF Computes, Stores, Goes, StoryInv
<1>2. ASSUME NEW a \in Words, NEW n \in Shifts, NEW opcode \in {"log_shift", "art_shift"},
             Computes(opcode, a, zword_t(n))
      PROVE  Goes
  <2>. DEFINE b == zword_t(n)
  <2>1. a \in AllWords /\ ZINT16(b) \in -15 .. 15
    BY <1>2, OperandsAreWords DEF Computes, Shift
  <2>2. ZINT16(b) \in Int /\ -15 <= ZINT16(b) /\ ZINT16(b) <= 15
    BY <2>1
  <2>. HIDE DEF b
  <2>3. z_log_shift(a, b) \in AllWords /\ z_art_shift(a, b) \in AllWords
    BY <2>1, <2>2, ShiftedIsWord
  <2>4. Computed(opcode, a, b) \in AllWords
    BY <2>3 DEF Computed
  <2>. QED  BY <1>0, <1>2, <2>4, NoStore DEF Computes, Stores, Goes, StoryInv, b
<1>3. ASSUME NEW a \in Words, Computes("not", a, 0)
      PROVE  Goes
  <2>1. 0 \in AllWords
    BY DEF AllWords
  <2>2. Computed("not", a, 0) \in AllWords
    BY <2>1, OperandsAreWords, ComputedIsWord
  <2>. QED  BY <1>0, <1>3, <2>2, NoStore DEF Computes, Stores, Goes, StoryInv
<1>4. ASSUME NEW a \in Chances, Random(a)
      PROVE  Goes
  <2>1. a \in AllWords
    BY OperandsAreWords
  <2>2. \A v \in z_random(a) : v \in AllWords
    BY <2>1 DEF z_random, AllWords
  <2>. QED  BY <1>0, <1>4, <2>2, NoStore DEF Random, Stores, Goes, StoryInv
<1>5. ASSUME NEW a \in Words, NEW b \in Words, Mod(a, b)
      PROVE  Goes
  <2>1. b # 0 => z_mod(a, b) \in AllWords
    BY OperandsAreWords, QuotientIsWord
  <2>. QED  BY <1>0, <1>5, <2>1, NoStore DEF Mod, Stores, Goes, StoryInv, States
<1>6. ASSUME NEW a \in Words, NEW b \in Words, NEW opcode \in {"test", "jz", "je", "jl", "jg"},
             Compares(opcode, a, b)
      PROVE  Goes
  <2>1. Condition(opcode, a, b) \in BOOLEAN
    BY ConditionsAre
  <2>. QED  BY <1>0, <1>6, <2>1, NoStore DEF Compares, Jumps, Goes, StoryInv
<1>. QED  BY <1>1, <1>2, <1>3, <1>4, <1>5, <1>6 DEF Calculates

\* The invariant holds at the start,
LEMMA StoryBegins == Init => StoryInv
<1>. SUFFICES ASSUME Init  PROVE StoryInv
  OBVIOUS
<1>1. h_type \in Versions /\ datap = Story[h_type] /\ datap \in Areas
  BY PropertiesAssumption DEF Init, Areas, Area, ByteValues
<1>2. 0 \in AllWords
  BY DEF AllWords
<1>. QED  BY <1>1, <1>2 DEF Init, StoryInv, IsStory, Kept, States

\* is kept by every instruction,
LEMMA StoryGoesOn == StoryInv /\ [Next]_vars => StoryInv'
<1>. SUFFICES ASSUME StoryInv, [Next]_vars  PROVE StoryInv'
  OBVIOUS
<1>1. CASE Next
  <2>1. Goes /\ h_type' = h_type
    BY <1>1, PropertiesGo, TablesGo, CalculatesGo DEF Next
  <2>2. Kept'
    BY <2>1 DEF Goes, KeepsLists, StoryInv, IsStory, Kept
  <2>. QED  BY <2>1, <2>2 DEF Goes, KeepsLists, StoryInv, IsStory
<1>2. CASE UNCHANGED vars
  BY <1>2 DEF vars, StoryInv, IsStory, Kept
<1>. QED  BY <1>1, <1>2

\* and so holds for every story of the assumed form.
LEMMA StoryHolds == Spec => []StoryInv
BY StoryBegins, StoryGoesOn, PTL DEF Spec

\* The area stays bytes, and every result of the property, table and computing instructions
\* is a word.
THEOREM TypeCorrect == Spec => []TypeOK
<1>1. StoryInv => TypeOK
  <2>. SUFFICES ASSUME StoryInv  PROVE TypeOK
    OBVIOUS
  <2>1. datap \in [0 .. data_size - 1 -> 0 .. 255]
    BY DEF StoryInv, IsStory, Areas, Area, ByteValues
  <2>2. result \in 0 .. WORD - 1
    BY WordIs DEF StoryInv
  <2>. QED  BY <2>1, <2>2 DEF StoryInv, IsStory, TypeOK, States
<1>. QED  BY <1>1, StoryHolds, PTL

-----------------------------------------------------------------------------
(* Copies are as they are asked for *)

\* A copy that is asked for is a copy_table,
LEMMA CopyAsked ==
  ASSUME Next, asked'.opcode = "copy_table"
  PROVE  \E src \in Places, dst \in Places \cup {0}, m \in Counts : z_copy_table(src, dst, zword_t(m))
<1>1. ~ UsesProperties
  BY PropertiesAsk
<1>2. ASSUME Calculates  PROVE FALSE
  <2>1. asked'.opcode \in Calculation
    BY <1>2, CalculatesWith DEF Calculation
  <2>. QED  BY <2>1 DEF Calculation
<1>3. UsesTables
  BY <1>1, <1>2 DEF Next
<1>4. \A a, i, v : ~ z_storew(a, i, v) /\ ~ z_storeb(a, i, v)
  BY DEF z_storew, z_storeb, Does
<1>5. \A v, a, n, form : ~ z_scan_table(v, a, n, form)
  <2>1. \A v, a, n, form : z_scan_table(v, a, n, form) => asked'.opcode = "scan_table"
    BY DEF z_scan_table, Does
  <2>. QED  BY <2>1
<1>6. \A a, i : ~ z_loadw(a, i) /\ ~ z_loadb(a, i)
  BY DEF z_loadw, z_loadb, Does
<1>. QED  BY <1>3, <1>4, <1>5, <1>6 DEF UsesTables

\* which obeys the law of copies.
LEMMA CopyLawHolds ==
  ASSUME StoryInv, Next
  PROVE  CopyLaw
<1>0. ASSUME asked'.opcode = "copy_table", status' = "run", asked'.args[2] # 0
      PROVE  CopyOf(asked'.args[1], asked'.args[2],
                    CopyCount(asked'.args[1], asked'.args[2], ZINT16(asked'.args[3])),
                    ZINT16(asked'.args[3]) < 0)
  <2>1. PICK src \in Places, dst \in Places \cup {0}, m \in Counts : z_copy_table(src, dst, zword_t(m))
    BY <1>0, CopyAsked
  <2>2. asked'.args[1] = src /\ asked'.args[2] = dst /\ asked'.args[3] = zword_t(m)
    BY <2>1 DEF z_copy_table, Does
  <2>3. Short(m)
    BY TablesAre
  <2>4. ZINT16(asked'.args[3]) = m
    BY <2>2, <2>3, CountIs
  <2>5. datap \in Areas /\ status = "run"
    BY DEF StoryInv, IsStory, Next
  <2>6. CopyOf(src, dst, CopyCount(src, dst, m), m < 0)
    BY <1>0, <2>1, <2>2, <2>5, CopyTableIs
  <2>. QED  BY <1>0, <2>2, <2>4, <2>6
<1>. QED  BY <1>0, Zenon DEF CopyLaw, CopyOf, CopyCount

\* For all tables and counts copy_table changes the second table only and copies, or repeats,
\* the bytes in the direction it was asked for.
THEOREM CopiesAreAsAsked == Spec => CopyIsAsAsked
<1>1. StoryInv /\ [Next]_vars => [CopyLaw]_vars
  BY CopyLawHolds
<1>. QED  BY <1>1, StoryHolds, PTL DEF Spec, CopyIsAsAsked

-----------------------------------------------------------------------------
(* What the abstract lists promise *)

\* What an object has, to a reader of the lists.
ListsOf == [o \in Objects |-> [p \in DOMAIN PropertyPlace[h_type][o] |-> PropertyBytes(o, p)]]

\* The bytes of each property, as the abstract lists have them.
LEMMA ListsHave ==
  ASSUME IsStory
  PROVE  /\ DOMAIN ListsOf = Objects
         /\ \A o \in Objects : DOMAIN ListsOf[o] = PropertiesOf(h_type, o)
         /\ \A o \in Objects : \A p : Has(o, p) =>
              /\ ListsOf[o][p] = [i \in 1 .. Size(o, p) |-> datap[Place(o, p) + i - 1]]
              /\ Len(ListsOf[o][p]) = Size(o, p)
<1>1. ASSUME NEW o \in Objects  PROVE DOMAIN PropertyPlace[h_type][o] = PropertiesOf(h_type, o)
  BY ListsAre DEF IsStory, IsList
<1>2. ASSUME NEW o \in Objects, NEW p, Has(o, p)
      PROVE  /\ ListsOf[o][p] = [i \in 1 .. Size(o, p) |-> datap[Place(o, p) + i - 1]]
             /\ Len(ListsOf[o][p]) = Size(o, p)
  <2>1. ListsOf[o][p] = [i \in 1 .. Size(o, p) |-> datap[Place(o, p) + i - 1]]
    BY <1>1, <1>2 DEF ListsOf, Has, PropertyBytes, Size, Place
  <2>2. Size(o, p) \in Nat
    BY <1>2, BytesHavePlace
  <2>. HIDE DEF ListsOf
  <2>. QED  BY <2>1, <2>2
<1>. QED  BY <1>1, <1>2 DEF ListsOf

\* The lists are the same while the area is.
LEMMA ListsStay ==
  ASSUME h_type' = h_type, datap' = datap
  PROVE  ListsOf' = ListsOf
BY DEF ListsOf, PropertyBytes

\* An instruction that gives a result and changes no property.
Gives(v) == result' = v /\ UNCHANGED <<ListsOf, status>>

\* The operators of the abstract lists, on these lists.
LEMMA AsPromised ==
  /\ Lists!Objects = DOMAIN ListsOf
  /\ \A o, p : Lists!Has(o, p) <=> o \in DOMAIN ListsOf /\ p \in DOMAIN ListsOf[o]
  /\ \A v : Lists!Gives(v) <=> Gives(v)
  /\ Lists!Stops <=> status' = "fatal" /\ UNCHANGED ListsOf
  /\ \A o, p : Lists!Behind(o, p) = {q \in DOMAIN ListsOf[o] : p = 0 \/ q < p}
  /\ \A ids : Lists!Highest(ids) = Top(ids)
BY DEF Lists!Objects, Lists!Has, Lists!Gives, Lists!Stops, Lists!Behind, Lists!Highest, ListsOf, Gives, Top

Here(o, p) == o \in Objects /\ Has(o, p)

\* An object has a property there exactly when its list has.
LEMMA HasIs ==
  ASSUME IsStory
  PROVE  \A o, p : Lists!Has(o, p) <=> Here(o, p)
BY ListsHave, AsPromised DEF Has, Here

\* Object 0 is none.
LEMMA NumbersOf ==
  ASSUME NEW o \in Objects \cup {0}
  PROVE  o = 0 <=> o \notin Objects
BY PropertiesAssumption

\* get_prop,
LEMMA GetPromised ==
  ASSUME StoryInv, h_type' = h_type, NEW o \in Objects \cup {0}, NEW p \in Ids, OneSizeByte(o, p), z_get_prop(o, p)
  PROVE  Lists!Get(o, p)
<1>0. IsStory
  BY DEF StoryInv
<1>1. datap' = datap /\ status' = status /\ ListsOf' = ListsOf
  BY ListsStay DEF z_get_prop
<1>2. CASE o = 0
  <2>1. result' = 0
    BY <1>2 DEF z_get_prop, NoObject, Stores
  <2>2. ~ Lists!Has(o, p)
    BY <1>0, <1>2, HasIs, NumbersOf DEF Here
  <2>. QED  BY <1>1, <1>2, <2>1, <2>2, AsPromised DEF Lists!Get, Gives
<1>3. CASE o \in Objects
  <2>1. o # 0
    BY <1>3, NumbersOf
  <2>2. result' = PropertyValue(o, p)
    BY <2>1 DEF z_get_prop, NoObject, Stores
  <2>3. CASE Has(o, p)
    <3>1. PropertyValue(o, p) = IF Size(o, p) = 1 THEN datap[Place(o, p)]
                                ELSE datap[Place(o, p)] * 256 + datap[Place(o, p) + 1]
      BY <1>0, <1>3, <2>3, ValueIs
    <3>. DEFINE bytes == ListsOf[o][p]
    <3>2. /\ bytes = [i \in 1 .. Size(o, p) |-> datap[Place(o, p) + i - 1]]
          /\ Len(bytes) = Size(o, p) /\ Place(o, p) \in Nat /\ Size(o, p) \in Nat /\ Size(o, p) > 0
      BY <1>0, <1>3, <2>3, ListsHave, BytesHavePlace
    <3>. HIDE DEF bytes
    <3>3. /\ bytes[1] = datap[Place(o, p)]
          /\ Size(o, p) # 1 => bytes[2] = datap[Place(o, p) + 1]
      <4>1. Place(o, p) + 1 - 1 = Place(o, p) /\ Place(o, p) + 2 - 1 = Place(o, p) + 1
        BY <3>2
      <4>2. 1 \in 1 .. Size(o, p) /\ (Size(o, p) # 1 => 2 \in 1 .. Size(o, p))
        BY <3>2
      <4>. QED  BY <3>2, <4>1, <4>2
    <3>4. Lists!Value(bytes) = PropertyValue(o, p)
      BY <3>1, <3>2, <3>3 DEF Lists!Value
    <3>5. Lists!Get(o, p) <=> Lists!Gives(Lists!Value(bytes))
      BY <1>0, <1>3, <2>3, HasIs DEF Lists!Get, Here, bytes, ListsOf
    <3>. QED  BY <1>1, <2>2, <3>4, <3>5, AsPromised DEF Gives
  <2>4. CASE ~ Has(o, p)
    <3>1. PropertyValue(o, p) = DefaultOf[p]
      BY <1>0, <1>3, <2>4, ValueIs
    <3>2. ~ Lists!Has(o, p)
      BY <1>0, <2>4, HasIs DEF Here
    <3>3. Lists!Gives(DefaultOf[p])
      BY <1>1, <2>2, <3>1, AsPromised DEF Gives
    <3>. QED  BY <2>1, <3>2, <3>3 DEF Lists!Get
  <2>. QED  BY <2>3, <2>4
<1>. QED  BY <1>2, <1>3

\* get_next_prop,
LEMMA NextPromised ==
  ASSUME StoryInv, h_type' = h_type, NEW o \in Objects \cup {0}, NEW p \in Ids \cup {0}, z_get_next_prop(o, p)
  PROVE  Lists!GetNext(o, p)
<1>0. IsStory
  BY DEF StoryInv
<1>1. datap' = datap /\ ListsOf' = ListsOf
  BY ListsStay DEF z_get_next_prop
<1>2. CASE o = 0
  <2>1. result' = 0 /\ status' = status
    BY <1>2 DEF z_get_next_prop, NoObject, Stores
  <2>. QED  BY <1>1, <1>2, <2>1, AsPromised DEF Lists!GetNext, Gives
<1>3. CASE o \in Objects
  <2>1. /\ p = 0 => result' = Top(PropertiesOf(h_type, o)) /\ status' = status
        /\ Has(o, p) => result' = Top(Below(o, p)) /\ status' = status
        /\ p # 0 /\ ~ Has(o, p) => result' = result /\ status' = "fatal"
    BY <1>0, <1>3, NextIs
  <2>2. o # 0 /\ DOMAIN ListsOf = Objects /\ DOMAIN ListsOf[o] = PropertiesOf(h_type, o)
    BY <1>0, <1>3, NumbersOf, ListsHave
  <2>3. Lists!Has(o, p) <=> Has(o, p)
    BY <1>0, <1>3, HasIs DEF Here
  <2>4. p = 0 => Lists!Behind(o, p) = PropertiesOf(h_type, o)
    BY <2>2, AsPromised
  <2>5. Has(o, p) => p # 0 /\ Lists!Behind(o, p) = Below(o, p)
    <3>1. ASSUME Has(o, p)  PROVE p # 0
      <4>1. IsProperty(o, p)
        BY <1>3, <3>1 DEF Has, IsProperty
      <4>2. p \in Nat /\ p > 0
        BY <1>0, <4>1, PropertyIs DEF IsStory
      <4>. QED  BY <4>2
    <3>. QED  BY <2>2, <3>1, AsPromised DEF Below
  <2>6. CASE p = 0 \/ Has(o, p)
    <3>1. result' = Lists!Highest(Lists!Behind(o, p)) /\ status' = status
      BY <2>1, <2>4, <2>5, <2>6, AsPromised
    <3>2. Lists!Gives(Lists!Highest(Lists!Behind(o, p)))
      BY <1>1, <3>1, AsPromised DEF Gives
    <3>. QED  BY <2>2, <2>3, <2>6, <3>2 DEF Lists!GetNext
  <2>7. CASE p # 0 /\ ~ Has(o, p)
    <3>1. Lists!Stops
      BY <1>1, <2>1, <2>7, AsPromised
    <3>. QED  BY <2>2, <2>3, <2>7, <3>1 DEF Lists!GetNext
  <2>. QED  BY <2>6, <2>7
<1>. QED  BY <1>2, <1>3

\* get_prop_addr
LEMMA AddressPromised ==
  ASSUME StoryInv, h_type' = h_type, NEW o \in Objects \cup {0}, NEW p \in Ids, z_get_prop_addr(o, p)
  PROVE  Lists!GetAddress(o, p)
<1>0. IsStory
  BY DEF StoryInv
<1>1. datap' = datap /\ status' = status /\ ListsOf' = ListsOf
  BY ListsStay DEF z_get_prop_addr
<1>2. result' = IF Here(o, p) THEN Place(o, p) ELSE 0
  <2>1. CASE o = 0
    BY <2>1, NumbersOf DEF z_get_prop_addr, NoObject, Stores, Here
  <2>2. CASE o \in Objects
    <3>1. o # 0
      BY <2>2, NumbersOf
    <3>2. result' = PropertyAddress(o, p)
      BY <3>1 DEF z_get_prop_addr, NoObject, Stores
    <3>. QED  BY <1>0, <2>2, <3>2, AddressIs DEF Here
  <2>. QED  BY <2>1, <2>2
<1>3. Lists!Gives(IF Lists!Has(o, p) THEN Place(o, p) ELSE 0)
  BY <1>0, <1>1, <1>2, HasIs, AsPromised DEF Gives
<1>. QED  BY <1>3 DEF Lists!GetAddress, Place

\* and get_prop_len give what the abstract lists promise.
LEMMA LengthPromised ==
  ASSUME StoryInv, h_type' = h_type, NEW o \in Objects, NEW p \in Ids, z_get_prop_len(PropertyAddress(o, p))
  PROVE  Lists!GetLength(PropertyAddress(o, p))
<1>. DEFINE at == PropertyAddress(o, p)
<1>0. IsStory
  BY DEF StoryInv
<1>1. datap' = datap /\ status' = status /\ ListsOf' = ListsOf
  BY ListsStay DEF z_get_prop_len
<1>2. result' = IF at = 0 THEN 0 ELSE PropertyLength(at)
  BY DEF z_get_prop_len, Stores
<1>3. at = IF Has(o, p) THEN Place(o, p) ELSE 0
  BY <1>0, AddressIs
<1>. HIDE DEF at
<1>4. CASE at = 0
  <2>1. Lists!Gives(0)
    BY <1>1, <1>2, <1>4, AsPromised DEF Gives
  <2>. QED  BY <1>4, <2>1 DEF Lists!GetLength, at
<1>5. CASE at # 0
  <2>1. Has(o, p) /\ at = Place(o, p)
    BY <1>3, <1>5
  <2>2. result' = Size(o, p) /\ Len(ListsOf[o][p]) = Size(o, p)
    BY <1>0, <1>2, <1>5, <2>1, LengthIs, ListsHave
  <2>3. Lists!Has(o, p)
    BY <1>0, <2>1, HasIs DEF Here
  <2>4. Lists!Gives(Len(ListsOf[o][p]))
    BY <1>1, <2>2, AsPromised DEF Gives
  <2>5. o \in Lists!Objects /\ p \in Lists!Known
    <3>1. DOMAIN ListsOf = Objects /\ p \in DOMAIN ListsOf[o]
      BY <1>0, <2>1, ListsHave DEF Has
    <3>2. Lists!Known = UNION {DOMAIN ListsOf[x] : x \in DOMAIN ListsOf}
      BY Zenon DEF Lists!Known, Lists!Objects, ListsOf
    <3>. HIDE DEF ListsOf
    <3>3. DOMAIN ListsOf[o] \in {DOMAIN ListsOf[x] : x \in DOMAIN ListsOf}
      BY <3>1
    <3>4. p \in UNION {DOMAIN ListsOf[x] : x \in DOMAIN ListsOf}
      BY <3>1, <3>3
    <3>. QED  BY <3>1, <3>2, <3>4, AsPromised
  <2>. QED  BY <2>1, <2>3, <2>4, <2>5, Zenon DEF Lists!GetLength, Place, ListsOf, at
<1>. QED  BY <1>4, <1>5

-----------------------------------------------------------------------------
(* A put changes one property *)

\* The bytes of a property are in the area,
LEMMA BytesAre ==
  ASSUME IsStory, NEW o \in Objects, NEW p, Has(o, p), NEW i \in 1 .. Size(o, p)
  PROVE  /\ Place(o, p) + i - 1 \in BytesOf(h_type, o, p)
         /\ Place(o, p) + i - 1 \in Area
<1>1. Place(o, p) \in Nat /\ Size(o, p) \in Nat
  BY BytesHavePlace
<1>2. Place(o, p) + i - 1 \in Place(o, p) .. (Place(o, p) + Size(o, p)) - 1
  BY <1>1
<1>3. Place(o, p) + i - 1 \in Nat /\ Place(o, p) <= Place(o, p) + i - 1
      /\ Place(o, p) + i - 1 < Place(o, p) + Size(o, p)
  BY <1>1
<1>. QED  BY <1>2, <1>3, BytesHavePlace DEF BytesOf, BehindOf, Place, Size

\* apart from those of every other.
LEMMA ApartAre ==
  ASSUME IsStory, NEW o \in Objects, NEW p, Has(o, p), NEW i \in 1 .. Size(o, p),
         NEW o2 \in Objects, NEW p2, Has(o2, p2), NEW j \in 1 .. Size(o2, p2),
         <<o, p>> # <<o2, p2>>
  PROVE  Place(o, p) + i - 1 # Place(o2, p2) + j - 1
<1>1. BytesOf(h_type, o, p) \cap BytesOf(h_type, o2, p2) = {}
  BY ListsAre DEF IsStory, AreApart, Has
<1>2. /\ Place(o, p) + i - 1 \in BytesOf(h_type, o, p)
      /\ Place(o2, p2) + j - 1 \in BytesOf(h_type, o2, p2)
  BY BytesAre
<1>. QED  BY <1>1, <1>2

\* A put changes the property's first bytes,
LEMMA PutChanges ==
  ASSUME IsStory, NEW o \in Objects, NEW p, Has(o, p), NEW v, h_type' = h_type, datap' = AfterPut(o, p, v)
  PROVE  PropertyBytes(o, p)' = Lists!Changed(ListsOf[o][p], v)
<1>. DEFINE bytes == ListsOf[o][p]
            n == Size(o, p)
            place == Place(o, p)
            after == PropertyBytes(o, p)'
<1>1. /\ bytes = [i \in 1 .. n |-> datap[place + i - 1]] /\ Len(bytes) = n
      /\ place \in Nat /\ n \in Nat /\ n > 0
  BY ListsHave, BytesHavePlace
<1>2. after = [i \in 1 .. n |-> datap'[place + i - 1]]
  BY DEF PropertyBytes, Size, Place
<1>3. /\ datap' = IF n = 1 THEN [datap EXCEPT ![place] = v % 256]
                  ELSE [datap EXCEPT ![place] = v \div 256, ![place + 1] = v % 256]
      /\ place \in Area /\ (n # 1 => place + 1 \in Area) /\ DOMAIN datap = Area
  BY <1>1, BytesHavePlace DEF AfterPut, IsStory, Areas
<1>. HIDE DEF bytes, n, place, after
<1>4. CASE n = 1
  <2>1. after = <<datap'[place]>>
    <3>1. 1 .. n = {1} /\ place + 1 - 1 = place
      BY <1>1, <1>4
    <3>2. after = [i \in {1} |-> datap'[place + i - 1]]
      BY <1>2, <3>1
    <3>3. after[1] = datap'[place] /\ after = [i \in {1} |-> after[i]]
      BY <3>1, <3>2
    <3>. QED  BY <3>2, <3>3
  <2>2. datap'[place] = v % 256
    BY <1>3, <1>4
  <2>. QED  BY <1>1, <1>4, <2>1, <2>2 DEF Lists!Changed, bytes, after
<1>5. CASE n # 1
  <2>. DEFINE new == [bytes EXCEPT ![1] = v \div 256, ![2] = v % 256]
  <2>1. 1 \in 1 .. n /\ 2 \in 1 .. n
    BY <1>1, <1>5
  <2>2. new = [i \in 1 .. n |-> IF i = 2 THEN v % 256 ELSE IF i = 1 THEN v \div 256 ELSE datap[place + i - 1]]
    BY <1>1, <2>1
  <2>3. ASSUME NEW i \in 1 .. n
        PROVE  datap'[place + i - 1] =
                 IF i = 2 THEN v % 256 ELSE IF i = 1 THEN v \div 256 ELSE datap[place + i - 1]
    <3>1. place + i - 1 \in Area
      BY BytesAre DEF n, place
    <3>2. (place + i - 1 = place <=> i = 1) /\ (place + i - 1 = place + 1 <=> i = 2)
      BY <1>1
    <3>. QED  BY <1>3, <1>5, <3>1, <3>2
  <2>. HIDE DEF new
  <2>4. after = new
    <3>1. \A i \in 1 .. n : after[i] = new[i]
      <4>. SUFFICES ASSUME NEW i \in 1 .. n  PROVE after[i] = new[i]
        OBVIOUS
      <4>1. after[i] = datap'[place + i - 1]
        BY <1>2
      <4>2. new[i] = IF i = 2 THEN v % 256 ELSE IF i = 1 THEN v \div 256 ELSE datap[place + i - 1]
        BY <2>2
      <4>. QED  BY <2>3, <4>1, <4>2
    <3>2. after = [i \in 1 .. n |-> after[i]] /\ new = [i \in 1 .. n |-> new[i]]
      BY <1>2, <2>2
    <3>. QED  BY <3>1, <3>2
  <2>. QED  BY <1>1, <1>5, <2>4 DEF Lists!Changed, bytes, after, new
<1>. QED  BY <1>4, <1>5

\* and no other property.
LEMMA PutLeaves ==
  ASSUME IsStory, NEW o \in Objects, NEW p, Has(o, p), NEW v, h_type' = h_type, datap' = AfterPut(o, p, v),
         NEW o2 \in Objects, NEW p2, Has(o2, p2), <<o, p>> # <<o2, p2>>
  PROVE  PropertyBytes(o2, p2)' = PropertyBytes(o2, p2)
<1>1. /\ Place(o, p) \in Nat /\ Size(o, p) \in Nat /\ Size(o, p) > 0
  BY BytesHavePlace
<1>2. ASSUME NEW j \in 1 .. Size(o2, p2)
      PROVE  datap'[Place(o2, p2) + j - 1] = datap[Place(o2, p2) + j - 1]
  <2>. DEFINE b == Place(o2, p2) + j - 1
  <2>1. b \in Area
    BY BytesAre
  <2>2. b # Place(o, p)
    <3>1. 1 \in 1 .. Size(o, p)
      BY <1>1
    <3>2. Place(o, p) + 1 - 1 # b
      BY <3>1, ApartAre
    <3>. QED  BY <1>1, <3>2
  <2>3. Size(o, p) # 1 => b # Place(o, p) + 1
    <3>1. Size(o, p) # 1 => 2 \in 1 .. Size(o, p)
      BY <1>1
    <3>2. Size(o, p) # 1 => Place(o, p) + 2 - 1 # b
      BY <3>1, ApartAre
    <3>3. Place(o, p) + 2 - 1 = Place(o, p) + 1
      BY <1>1
    <3>. QED  BY <3>2, <3>3
  <2>. HIDE DEF b
  <2>4. datap'[b] = datap[b]
    BY <2>1, <2>2, <2>3 DEF AfterPut, IsStory, Areas
  <2>. QED  BY <2>4 DEF b
<1>3. PropertyBytes(o2, p2)' = [j \in 1 .. Size(o2, p2) |-> datap'[Place(o2, p2) + j - 1]]
  BY DEF PropertyBytes, Size, Place
<1>4. PropertyBytes(o2, p2) = [j \in 1 .. Size(o2, p2) |-> datap[Place(o2, p2) + j - 1]]
  BY DEF PropertyBytes, Size, Place
<1>. QED  BY <1>2, <1>3, <1>4

\* So put_prop changes one property of one object, as promised.
LEMMA PutPromised ==
  ASSUME StoryInv, h_type' = h_type, NEW o \in Objects \cup {0}, NEW p \in Ids, NEW v,
         OneSizeByte(o, p), z_put_prop(o, p, v)
  PROVE  Lists!Put(o, p, v)
<1>0. IsStory
  BY DEF StoryInv
<1>1. CASE o = 0
  <2>1. datap' = datap /\ status' = status
    BY <1>1 DEF z_put_prop, NoObject
  <2>2. ListsOf' = ListsOf
    BY <2>1, ListsStay
  <2>. QED  BY <1>1, <2>1, <2>2 DEF Lists!Put, ListsOf
<1>2. CASE o \in Objects /\ ~ Has(o, p)
  <2>1. datap' = datap /\ status' = "fatal" /\ o # 0
    BY <1>0, <1>2, PutIs, NumbersOf
  <2>2. Lists!Stops
    BY <2>1, ListsStay, AsPromised
  <2>3. ~ Lists!Has(o, p)
    BY <1>0, <1>2, HasIs DEF Here
  <2>. QED  BY <2>1, <2>2, <2>3 DEF Lists!Put
<1>3. CASE o \in Objects /\ Has(o, p)
  <2>1. datap' = AfterPut(o, p, v) /\ status' = status
    BY <1>0, <1>3, PutIs
  <2>2. PropertyBytes(o, p)' = Lists!Changed(ListsOf[o][p], v)
    BY <1>0, <1>3, <2>1, PutChanges
  <2>3. ASSUME NEW o2 \in Objects, NEW p2, Has(o2, p2), <<o, p>> # <<o2, p2>>
        PROVE  PropertyBytes(o2, p2)' = PropertyBytes(o2, p2)
    BY <1>0, <1>3, <2>1, <2>3, PutLeaves
  <2>. DEFINE c == Lists!Changed(ListsOf[o][p], v)
              P(x) == DOMAIN PropertyPlace[h_type][x]
              new == [ListsOf EXCEPT ![o] = [ListsOf[o] EXCEPT ![p] = c]]
  <2>. HIDE DEF c
  <2>4. ListsOf' = [x \in Objects |-> [q \in P(x) |-> PropertyBytes(x, q)']]
    BY DEF ListsOf
  <2>5. ListsOf = [x \in Objects |-> [q \in P(x) |-> PropertyBytes(x, q)]]
    BY DEF ListsOf
  <2>6. \A x \in Objects : P(x) = PropertiesOf(h_type, x)
    BY <1>0, ListsAre DEF IsStory, IsList
  <2>. HIDE DEF P
  <2>7. ListsOf[o] = [q \in P(o) |-> PropertyBytes(o, q)] /\ p \in P(o)
    BY <1>3, <2>5, <2>6 DEF Has
  <2>8. [ListsOf[o] EXCEPT ![p] = c] = [q \in P(o) |-> PropertyBytes(o, q)']
    <3>1. \A q \in P(o) : q # p => PropertyBytes(o, q)' = PropertyBytes(o, q)
      BY <1>3, <2>3, <2>6 DEF Has
    <3>2. PropertyBytes(o, p)' = c
      BY <2>2 DEF c
    <3>. QED  BY <2>7, <3>1, <3>2
  <2>9. \A x \in Objects : x # o => [q \in P(x) |-> PropertyBytes(x, q)'] = [q \in P(x) |-> PropertyBytes(x, q)]
    <3>. SUFFICES ASSUME NEW x \in Objects, x # o
                  PROVE  [q \in P(x) |-> PropertyBytes(x, q)'] = [q \in P(x) |-> PropertyBytes(x, q)]
      OBVIOUS
    <3>1. \A q \in P(x) : PropertyBytes(x, q)' = PropertyBytes(x, q)
      BY <1>3, <2>3, <2>6 DEF Has
    <3>. QED  BY <3>1
  <2>10. new = ListsOf'
    BY <1>3, <2>4, <2>5, <2>8, <2>9
  <2>11. Lists!Has(o, p)
    BY <1>0, <1>3, HasIs DEF Here
  <2>12. ListsOf' = [ListsOf EXCEPT ![o][p] = Lists!Changed(@, v)]
    BY <2>10 DEF c
  <2>. QED  BY <2>1, <2>11, <2>12, Zenon DEF Lists!Put, ListsOf
<1>. QED  BY <1>1, <1>2, <1>3

-----------------------------------------------------------------------------
(* Every step keeps the promises *)

\* A step whose instruction promises nothing about properties.
LEMMA OtherPromised ==
  ASSUME h_type' = h_type,
         asked'.opcode \notin {"get_prop", "put_prop", "get_next_prop", "get_prop_addr", "get_prop_len", "mod"},
         \/ asked'.opcode \in {"storeb", "storew", "copy_table"}
         \/ datap' = datap /\ status' = status
  PROVE  Lists!Promised
<1>1. datap' = datap => ListsOf' = ListsOf
  BY ListsStay
<1>2. Lists!Elsewhere
  BY <1>1, Zenon DEF Lists!Elsewhere, ListsOf
<1>. QED  BY <1>2 DEF Lists!Promised

\* Calculations and
LEMMA CalculationPromised ==
  ASSUME h_type' = h_type, Calculates
  PROVE  Lists!Promised
<1>1. CASE \E a, b \in Words : Mod(a, b)
  <2>1. asked'.opcode = "mod" /\ datap' = datap
    BY <1>1 DEF Mod, Does
  <2>2. ListsOf' = ListsOf
    BY <2>1, ListsStay
  <2>. QED  BY <2>1, <2>2 DEF Lists!Promised, ListsOf
<1>2. CASE ~ (\E a, b \in Words : Mod(a, b))
  <2>1. /\ asked'.opcode \in {"add", "sub", "mul", "div", "or", "and", "log_shift", "art_shift", "not",
                              "random", "test", "jz", "je", "jl", "jg"}
        /\ datap' = datap /\ status' = status
    BY <1>2 DEF Calculates, Computes, Random, Compares, Does
  <2>. QED  BY <2>1, OtherPromised
<1>. QED  BY <1>1, <1>2

\* tables promise nothing,
LEMMA TablesPromised ==
  ASSUME h_type' = h_type, UsesTables
  PROVE  Lists!Promised
<1>1. \A src, dst, n : z_copy_table(src, dst, n) => asked'.opcode = "copy_table"
  BY DEF z_copy_table, Does
<1>2. \A a, i, v : z_storew(a, i, v) => asked'.opcode = "storew"
  BY DEF z_storew, Does
<1>3. \A a, i, v : z_storeb(a, i, v) => asked'.opcode = "storeb"
  BY DEF z_storeb, Does
<1>4. \A v, a, n, form : z_scan_table(v, a, n, form) =>
         asked'.opcode = "scan_table" /\ datap' = datap /\ status' = status
  BY DEF z_scan_table, Does
<1>5. \A a, i : z_loadw(a, i) => asked'.opcode = "loadw" /\ datap' = datap /\ status' = status
  BY DEF z_loadw, Does
<1>6. \A a, i : z_loadb(a, i) => asked'.opcode = "loadb" /\ datap' = datap /\ status' = status
  BY DEF z_loadb, Does
<1>7. \/ asked'.opcode \in {"storew", "storeb", "copy_table"}
      \/ asked'.opcode \in {"loadw", "loadb", "scan_table"} /\ datap' = datap /\ status' = status
  BY <1>1, <1>2, <1>3, <1>4, <1>5, <1>6 DEF UsesTables
<1>. QED  BY <1>7, OtherPromised

\* the property instructions keep what they promise,
LEMMA PropertiesPromised ==
  ASSUME StoryInv, h_type' = h_type, UsesProperties
  PROVE  Lists!Promised
<1>0. PropertyPlace[h_type]' = PropertyPlace[h_type]
  OBVIOUS
<1>1. ASSUME NEW o \in Objects \cup {0}, NEW p \in Ids, OneSizeByte(o, p), z_get_prop(o, p)
      PROVE  Lists!Promised
  <2>1. asked'.opcode = "get_prop" /\ asked'.args[1] = o /\ asked'.args[2] = p
    BY <1>1 DEF z_get_prop, Does
  <2>2. Lists!Get(o, p)
    BY <1>1, GetPromised
  <2>. QED  BY <1>0, <2>1, <2>2 DEF Lists!Promised
<1>2. ASSUME NEW o \in Objects \cup {0}, NEW p \in Ids \cup {0}, z_get_next_prop(o, p)
      PROVE  Lists!Promised
  <2>1. asked'.opcode = "get_next_prop" /\ asked'.args[1] = o /\ asked'.args[2] = p
    BY <1>2 DEF z_get_next_prop, Does
  <2>2. Lists!GetNext(o, p)
    BY <1>2, NextPromised
  <2>. QED  BY <1>0, <2>1, <2>2 DEF Lists!Promised
<1>3. ASSUME NEW o \in Objects \cup {0}, NEW p \in Ids, z_get_prop_addr(o, p)
      PROVE  Lists!Promised
  <2>1. asked'.opcode = "get_prop_addr" /\ asked'.args[1] = o /\ asked'.args[2] = p
    BY <1>3 DEF z_get_prop_addr, Does
  <2>2. Lists!GetAddress(o, p)
    BY <1>3, AddressPromised
  <2>. QED  BY <1>0, <2>1, <2>2 DEF Lists!Promised
<1>4. ASSUME NEW o \in Objects \cup {0}, NEW p \in Ids, NEW v \in Values,
             OneSizeByte(o, p), z_put_prop(o, p, v)
      PROVE  Lists!Promised
  <2>1. asked'.opcode = "put_prop" /\ asked'.args[1] = o /\ asked'.args[2] = p /\ asked'.args[3] = v
    BY <1>4 DEF z_put_prop, Does
  <2>2. Lists!Put(o, p, v)
    BY <1>4, PutPromised
  <2>3. LET arg == asked'.args IN Lists!Put(arg[1], arg[2], arg[3])
    BY <2>1, <2>2, Zenon DEF Lists!Put
  <2>. QED  BY <1>0, <2>1, <2>3 DEF Lists!Promised
<1>5. ASSUME NEW o \in Objects, NEW p \in Ids, z_get_prop_len(PropertyAddress(o, p))
      PROVE  Lists!Promised
  <2>1. asked'.opcode = "get_prop_len" /\ asked'.args[1] = PropertyAddress(o, p)
    BY <1>5 DEF z_get_prop_len, Does
  <2>2. Lists!GetLength(PropertyAddress(o, p))
    BY <1>5, LengthPromised
  <2>. QED  BY <1>0, <2>1, <2>2 DEF Lists!Promised
<1>6. ASSUME NEW a, NEW v, z_storeb(a, 0, v)
      PROVE  Lists!Promised
  <2>1. asked'.opcode = "storeb"
    BY <1>6 DEF z_storeb, Does
  <2>. QED  BY <2>1, OtherPromised
<1>. QED  BY <1>1, <1>2, <1>3, <1>4, <1>5, <1>6 DEF UsesProperties

\* and so does every step.
LEMMA StepPromised ==
  ASSUME StoryInv, [Next]_vars
  PROVE  [Lists!Promised]_(Lists!promised_vars)
<1>1. CASE Next
  <2>1. h_type' = h_type /\ (UsesProperties \/ UsesTables \/ Calculates)
    BY <1>1 DEF Next
  <2>. QED  BY <2>1, PropertiesPromised, TablesPromised, CalculationPromised
<1>2. CASE UNCHANGED vars
  <2>1. ListsOf' = ListsOf
    BY <1>2, ListsStay DEF vars
  <2>. QED  BY <1>2, <2>1 DEF vars, Lists!promised_vars, ListsOf
<1>. QED  BY <1>1, <1>2

\* For every story with legal lists, and every sequence of instructions, the walk along the
\* bytes implements the lists of numbered properties: it finds what the object has, in both
\* forms and with all sizes, and a put changes that one property.
THEOREM ImplementsLists == Spec => ImplementsPropertyLists
BY StepPromised, StoryHolds, PTL DEF Spec, ImplementsPropertyLists, Lists!PromisedSpec
==============================================================================
