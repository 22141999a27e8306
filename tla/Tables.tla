------------------------------- MODULE Tables -------------------------------
(***************************************************************************)
(* The instructions that load, store, search and copy tables, from         *)
(* property.c, and those that compute, from math.c, over the data area.    *)
(* Bytes above the data area are read from the story file.                 *)
(***************************************************************************)
EXTENDS Arithmetic

CONSTANTS
    data_size,        \* the size of the data area
    StaticBytes       \* the bytes of the story file above it, by address

ASSUME TablesAssumption ==
    /\ data_size \in Nat
    /\ \A a \in DOMAIN StaticBytes : a >= data_size /\ StaticBytes[a] \in 0 .. 255

VARIABLES
    datap,            \* the data area
    result,           \* the word the last instruction stored
    branch,           \* the condition of its jump
    asked,            \* the instruction, its opcode and operands
    status            \* "run", "fatal", or "undefined" once the C code is

outcome == <<result, branch, asked>>

Does(opcode, args) == asked' = [opcode |-> opcode, args |-> args]
Stores(v) == result' = v
Jumps(condition) == branch' = condition

-----------------------------------------------------------------------------
(* Bytes and words of a data area mem *)

InFile(a) == a < data_size \/ a \in DOMAIN StaticBytes
ByteIn(mem, a) == IF a < data_size THEN mem[a] ELSE StaticBytes[a]
read_data_byte(a) == ByteIn(datap, a)
read_data_word(a) == read_data_byte(a) * 256 + read_data_byte(a + 1)

get_byte(a) == datap[a]
get_word(a) == datap[a] * 256 + datap[a + 1]

\* A store to the area; what is behind it is refused, but the check lets the
\* first byte behind pass.
Refused(a) ==
    /\ a >= data_size
    /\ status' = IF a > data_size THEN "fatal" ELSE "undefined"

\* Mutant: the value is not cut to a byte.
set_byte_word(a, v) == datap' = [datap EXCEPT ![a] = v]
set_byte(a, v) == datap' = [datap EXCEPT ![a] = v % 256]
set_word(a, v) == datap' = [datap EXCEPT ![a] = v \div 256, ![a + 1] = v % 256]

-----------------------------------------------------------------------------
(* Loads and stores: an index wraps where a store uses it, and not in a load *)

z_loadw(addr, offset) ==
    /\ InFile(addr + offset * 2) /\ InFile(addr + offset * 2 + 1)
    /\ Does("loadw", <<addr, offset>>)
    /\ Stores(read_data_word(addr + offset * 2))
    /\ UNCHANGED <<datap, status, branch>>

z_loadb(addr, offset) ==
    /\ InFile(addr + offset)
    /\ Does("loadb", <<addr, offset>>)
    /\ Stores(read_data_byte(addr + offset))
    /\ UNCHANGED <<datap, status, branch>>

\* The second byte of a word is behind the area where the first is the last in it.
z_storew(addr, offset, value) ==
    LET a == zword_t(addr + offset * 2) IN
    /\ Does("storew", <<addr, offset, value>>)
    /\ \/ a + 1 < data_size /\ set_word(a, value) /\ UNCHANGED status
       \/ a + 1 = data_size /\ status' = "undefined" /\ UNCHANGED datap
       \/ Refused(a) /\ UNCHANGED datap
    /\ UNCHANGED <<result, branch>>

z_storeb(addr, offset, value) ==
    LET a == zword_t(addr + offset) IN
    /\ Does("storeb", <<addr, offset, value>>)
    /\ \/ a < data_size /\ set_byte(a, value) /\ UNCHANGED status
       \/ Refused(a) /\ UNCHANGED datap
    /\ UNCHANGED <<result, branch>>

-----------------------------------------------------------------------------
(* scan_table *)

DefaultForm == 130    \* words, one behind the other
ScansWords(form) == form >= 128
ScanStep(form) == form % 128

\* The first of count elements from address on that is the target, or none.
Matches(target, address, count, form) ==
    {i \in 0 .. count - 1 :
        LET a == address + i * ScanStep(form)
        IN target = IF ScansWords(form) THEN read_data_word(a) ELSE read_data_byte(a)}

z_scan_table(target, address, count, form) ==
    /\ \A i \in 0 .. count - 1 : InFile(address + i * ScanStep(form) + 1)
    /\ Does("scan_table", <<target, address, count, form>>)
    /\ LET found == Matches(target, address, count, form) IN
       IF found = {} THEN Stores(0) /\ Jumps(FALSE)
       ELSE /\ Stores(zword_t(address + ScanStep(form) *
                                (CHOOSE i \in found : \A j \in found : i <= j)))
            /\ Jumps(TRUE)
    /\ UNCHANGED <<datap, status>>

-----------------------------------------------------------------------------
(* copy_table *)

Zero == -1            \* is no address

\* n times z_storeb, to address to[k] the kth time: a byte 0, or the one the stores
\* before it left at from[k].  The first store that is refused ends it.
Bytes(n, to, from) ==
    LET refused == {k \in 1 .. n : to[k] >= data_size}
        last    == IF refused = {} THEN n ELSE (CHOOSE k \in refused : \A j \in refused : k <= j) - 1
        after[k \in 0 .. last] ==
            IF k = 0 THEN datap
            ELSE LET mem == after[k - 1]
                 IN [mem EXCEPT ![to[k]] = IF from[k] = Zero THEN 0 ELSE ByteIn(mem, from[k])]
    IN /\ datap' = after[last]
       /\ IF last = n THEN UNCHANGED status ELSE Refused(to[last + 1])

\* A negative count is a large one here, and ends outside of the data area.
ZeroFilled(src, count) ==
    LET most == IF src > data_size THEN 1 ELSE data_size + 2 - src
        n    == IF count > most THEN most ELSE count
    IN Bytes(n, [k \in 1 .. n |-> zword_t(src + k - 1)], [k \in 1 .. n |-> Zero])

CopiedUp(src, dst, n) ==
    Bytes(n, [k \in 1 .. n |-> zword_t(dst + k - 1)], [k \in 1 .. n |-> src + k - 1])

\* Mutant: the last byte is left.
CopiedDown_short(src, dst, n) ==
    Bytes(n - 1, [k \in 1 .. n - 1 |-> zword_t(dst + n - 1 - k)],
                 [k \in 1 .. n - 1 |-> src + n - 1 - k])

CopiedDown(src, dst, n) ==
    Bytes(n, [k \in 1 .. n |-> zword_t(dst + n - k)], [k \in 1 .. n |-> src + n - k])

\* A negative count asks for a copy from the first byte to the last.
z_copy_table(src, dst, count) ==
    /\ dst # 0 => \A i \in 0 .. Magnitude(ZINT16(count)) - 1 : InFile(src + i)
    /\ Does("copy_table", <<src, dst, count>>)
    /\ IF src = dst \/ count = 0 THEN UNCHANGED <<datap, status>>
       ELSE IF dst = 0 THEN ZeroFilled(src, count)
       ELSE IF ZINT16(count) < 0 THEN CopiedUp(src, dst, -ZINT16(count))
       ELSE CopiedDown(src, dst, count)
    /\ UNCHANGED <<result, branch>>

-----------------------------------------------------------------------------
(* math.c *)

Computed(opcode, a, b) ==
    CASE opcode = "add" -> z_add(a, b)
      [] opcode = "sub" -> z_sub(a, b)
      [] opcode = "mul" -> z_mul(a, b)
      [] opcode = "div" -> z_div(a, b)
      [] opcode = "log_shift" -> z_log_shift(a, b)
      [] opcode = "art_shift" -> z_art_shift(a, b)
      [] opcode = "or" -> z_or(a, b)
      [] opcode = "and" -> z_and(a, b)
      [] opcode = "not" -> z_not(a)

Shift(opcode) == opcode \in {"log_shift", "art_shift"}

\* A story shifts by no more than 15.
Computes(opcode, a, b) ==
    /\ Shift(opcode) => ZINT16(b) \in -15 .. 15
    /\ Does(opcode, <<a, b>>)
    /\ Stores(Computed(opcode, a, b))
    /\ UNCHANGED <<datap, status, branch>>

Mod(a, b) ==
    /\ Does("mod", <<a, b>>)
    /\ IF b = 0 THEN status' = "undefined" /\ UNCHANGED result
       ELSE Stores(z_mod(a, b)) /\ UNCHANGED status
    /\ UNCHANGED <<datap, branch>>

Random(a) ==
    /\ Does("random", <<a>>)
    /\ \E v \in z_random(a) : Stores(v)
    /\ UNCHANGED <<datap, status, branch>>

Condition(opcode, a, b) ==
    CASE opcode = "test" -> z_test(a, b)
      [] opcode = "jz" -> z_jz(a)
      [] opcode = "je" -> z_je(<<a, b>>)
      [] opcode = "jl" -> z_jl(a, b)
      [] opcode = "jg" -> z_jg(a, b)

Compares(opcode, a, b) ==
    /\ Does(opcode, <<a, b>>)
    /\ Jumps(Condition(opcode, a, b))
    /\ UNCHANGED <<datap, status, result>>
=============================================================================
