----------------------------- MODULE Arithmetic -----------------------------
(***************************************************************************)
(* The instructions of math.c on words of 16 bits, with the conversions    *)
(* the C code makes: zword_t is a word, ZINT16 its two's complement value, *)
(* and what lies between is an int.                                        *)
(***************************************************************************)
EXTENDS Integers, Sequences

WORD == 65536

zword_t(n) == n % WORD
ZINT16(n) == IF n % WORD >= 32768 THEN (n % WORD) - WORD ELSE n % WORD

\* int division truncates.
Magnitude(n) == IF n < 0 THEN -n ELSE n
Quotient(x, y) ==
    LET q == Magnitude(x) \div Magnitude(y) IN IF (x < 0) = (y < 0) THEN q ELSE -q
Remainder(x, y) == x - y * Quotient(x, y)

z_add(a, b) == zword_t(a + b)
z_sub(a, b) == zword_t(a - b)
z_mul(a, b) == zword_t(ZINT16(a) * ZINT16(b))

\* Both signs are turned when the divisor is negative; turned, the smallest
\* number stays as it is.
z_div(a, b) ==
    LET turn == ZINT16(b) < 0
        sa   == IF turn THEN ZINT16(-ZINT16(a)) ELSE ZINT16(a)
        sb   == IF turn THEN ZINT16(-ZINT16(b)) ELSE ZINT16(b)
    IN IF sb = 0 THEN 32767
       ELSE zword_t(IF sa >= 0 THEN Quotient(sa, sb) ELSE -Quotient(-sa, sb))

\* Mutant: the remainder of the turned operands, as in z_div.
z_mod_turned(a, b) ==
    LET turn == ZINT16(b) < 0
        sa   == IF turn THEN ZINT16(-ZINT16(a)) ELSE ZINT16(a)
        sb   == IF turn THEN ZINT16(-ZINT16(b)) ELSE ZINT16(b)
    IN zword_t(IF sa >= 0 THEN Remainder(sa, sb) ELSE -Remainder(-sa, sb))
\* Only the divisor is turned.  For b = 0 the C code divides by zero.
z_mod(a, b) ==
    LET sa == ZINT16(a)
        sb == IF ZINT16(b) < 0 THEN ZINT16(-ZINT16(b)) ELSE ZINT16(b)
    IN zword_t(IF sa >= 0 THEN Remainder(sa, sb) ELSE -Remainder(-sa, sb))

z_log_shift(a, b) ==
    IF ZINT16(b) > 0 THEN zword_t(a * 2 ^ ZINT16(b)) ELSE a \div 2 ^ (-ZINT16(b))
z_art_shift(a, b) ==
    IF ZINT16(b) > 0 THEN zword_t(ZINT16(a) * 2 ^ ZINT16(b))
    ELSE zword_t(ZINT16(a) \div 2 ^ (-ZINT16(b)))

Bit(w, i) == (w \div 2 ^ i) % 2
FromBits(bits) ==
    LET sum[i \in 0 .. 16] == IF i = 0 THEN 0 ELSE sum[i - 1] + bits[i - 1] * 2 ^ (i - 1)
    IN sum[16]

z_or(a, b) ==
    FromBits([i \in 0 .. 15 |-> IF Bit(a, i) = 1 \/ Bit(b, i) = 1 THEN 1 ELSE 0])
z_and(a, b) ==
    FromBits([i \in 0 .. 15 |-> IF Bit(a, i) = 1 /\ Bit(b, i) = 1 THEN 1 ELSE 0])
z_not(a) == zword_t(-a - 1)

\* The results of z_random: a negative operand sets the seed.
z_random(a) == IF ZINT16(a) > 0 THEN 1 .. a ELSE {0}

\* The conditions of the jumps; the operands of je are a sequence.
z_test(a, b) == z_and(z_not(a), b) = 0
z_jz(a) == a = 0
z_je(operand) == \E i \in 2 .. Len(operand) : operand[i] = operand[1]
z_jl(a, b) == ZINT16(a) < ZINT16(b)
z_jg(a, b) == ZINT16(a) > ZINT16(b)

-----------------------------------------------------------------------------
(* Laws that do not follow the code *)

\* "The magic rule is: be consistent with divide", and round towards zero: the
\* quotient times the divisor and the remainder make the dividend, the remainder
\* is smaller than the divisor and has the sign of the dividend.  The smallest
\* number over a negative one is what the code does not divide so: it has no
\* negative in 16 bits, and -32768 / -3 becomes -10922.
DivisionLaw(a, b) ==
    b # 0 /\ ~(ZINT16(a) = -32768 /\ ZINT16(b) < 0) =>
        LET r == ZINT16(z_mod(a, b)) IN
        /\ zword_t(ZINT16(z_div(a, b)) * ZINT16(b) + r) = a
        /\ Magnitude(r) < Magnitude(ZINT16(b))
        /\ r # 0 => (r < 0) = (ZINT16(a) < 0)

\* Shifted up and down again, a word has lost its high bits, or its sign fills
\* them; shifted down arithmetically, it is the largest number whose double (and
\* so on) is not above it.
ShiftLaw(a, n) ==
    n \in 0 .. 15 =>
        LET down == zword_t(-n) IN
        /\ z_log_shift(z_log_shift(a, n), down) = a % (2 ^ (16 - n))
        /\ zword_t(z_art_shift(z_log_shift(a, down), n) + (a % (2 ^ n))) = a
        /\ ZINT16(z_art_shift(a, down)) * 2 ^ n <= ZINT16(a)
        /\ ZINT16(a) < (ZINT16(z_art_shift(a, down)) + 1) * 2 ^ n

\* and, or and not count the same bits, and test is a mask with all of its bits set.
BitsLaw(a, b) ==
    /\ z_and(a, b) + z_or(a, b) = a + b
    /\ z_or(z_not(a), z_not(b)) = z_not(z_and(a, b))
    /\ z_test(a, b) = (z_and(a, b) = b)

\* Exactly one of less, equal and greater holds, as the sign of the difference says
\* where that does not overflow.
OrderLaw(a, b) ==
    /\ z_jl(a, b) = z_jg(b, a)
    /\ ~(z_jl(a, b) /\ z_jg(a, b))
    /\ z_je(<<a, b>>) = (~z_jl(a, b) /\ ~z_jg(a, b))
    /\ ((ZINT16(a) >= 0) = (ZINT16(b) >= 0)) => z_jl(a, b) = (ZINT16(z_sub(a, b)) < 0)
=============================================================================
