----------------------------- MODULE Properties -----------------------------
(***************************************************************************)
(* The property instructions of property.c, over the data area of Tables.  *)
(* A list has the highest id first and ends with a byte 0; each entry has  *)
(* an id and a size, in one byte or two, and the bytes of the property.    *)
(***************************************************************************)
EXTENDS Tables

CONSTANTS
    Versions,          \* some of 3 and 5: the lists have one form up to V3
    Story,             \* by version, the data area at the start
    h_objects_offset,  \* where the default properties are
    PropertyPointer,   \* by object, where its entry has the address of its table
    PropertyPlace,     \* where a compiler put each property, by version, object and id
    PropertySize,      \* and how many bytes it has
    DefaultOf,         \* the default of each property
    Ids, Values,       \* operands of the property instructions
    Places, Counts,    \* addresses and counts of the table instructions
    Words, Shifts,     \* operands of the computing instructions
    Chances            \* operands of random

Objects == DOMAIN PropertyPointer

-----------------------------------------------------------------------------
(* The lists of a story, as a compiler writes them *)

PropertiesOf(v, o) == DOMAIN PropertySize[v][o]

StoryWord(v, a) == Story[v][a] * 256 + Story[v][a + 1]
TableOf(v, o) == StoryWord(v, PropertyPointer[o])
FirstOf(v, o) == TableOf(v, o) + Story[v][TableOf(v, o)] * 2 + 1
BehindOf(v, o, p) == PropertyPlace[v][o][p] + PropertySize[v][o][p]

\* From V4 on a property of more than two bytes has two bytes before it.
TwoSizeBytes(v, o, p) == v > 3 /\ PropertySize[v][o][p] > 2
BeginOf(v, o, p) == PropertyPlace[v][o][p] - (IF TwoSizeBytes(v, o, p) THEN 2 ELSE 1)

HasItsForm(v, o, p) ==
    LET n    == PropertySize[v][o][p]
        size == Story[v][PropertyPlace[v][o][p] - 1]
        id   == Story[v][BeginOf(v, o, p)]
    IN IF v = 3 THEN p < 32 /\ n <= 8 /\ size = (n - 1) * 32 + p
       ELSE /\ p < 64
            /\ IF n <= 2 THEN size = (n - 1) * 64 + p
               ELSE n <= 64 /\ id >= 128 /\ id % 64 = p /\ size >= 128 /\ size % 64 = n % 64

\* At a the list goes on with the highest of some ids, or it ends.
GoesOn(v, o, a, ids) ==
    /\ a \in DOMAIN Story[v]
    /\ \/ ids = {} /\ Story[v][a] = 0
       \/ \E p \in ids : a = BeginOf(v, o, p) /\ \A q \in ids : q <= p

IsList(v, o) ==
    /\ PropertyPlace[v][o] \in [PropertiesOf(v, o) -> Nat]
    /\ PropertySize[v][o] \in [PropertiesOf(v, o) -> Nat \ {0}]
    /\ PropertiesOf(v, o) \subseteq Nat \ {0}
    /\ PropertyPointer[o] \in Nat /\ PropertyPointer[o] + 1 < data_size
    /\ TableOf(v, o) < data_size
    /\ GoesOn(v, o, FirstOf(v, o), PropertiesOf(v, o))
    /\ \A p \in PropertiesOf(v, o) :
         /\ BeginOf(v, o, p) >= 0 /\ HasItsForm(v, o, p)
         /\ GoesOn(v, o, BehindOf(v, o, p), {q \in PropertiesOf(v, o) : q < p})

DefaultAt(p) == h_objects_offset + (p - 1) * 2

\* What is no property and no table of the story's own.
Structure(v) ==
    {a \in DOMAIN Story[v] :
        \/ \E p \in Ids : a = DefaultAt(p) \/ a = DefaultAt(p) + 1
        \/ \E o \in Objects :
             \/ a = PropertyPointer[o] \/ a = PropertyPointer[o] + 1
             \/ a = TableOf(v, o) \/ a = FirstOf(v, o)
             \/ \E p \in PropertiesOf(v, o) :
                  a = PropertyPlace[v][o][p] - 1 \/ a = BehindOf(v, o, p)}

BytesOf(v, o, p) == PropertyPlace[v][o][p] .. BehindOf(v, o, p) - 1

AreApart(v) ==
    \A o \in Objects : \A p \in PropertiesOf(v, o) :
        /\ BytesOf(v, o, p) \cap Structure(v) = {}
        /\ \A o2 \in Objects : \A p2 \in PropertiesOf(v, o2) :
             <<o, p>> # <<o2, p2>> => BytesOf(v, o, p) \cap BytesOf(v, o2, p2) = {}

ASSUME PropertiesAssumption ==
    /\ Versions \subseteq {3, 5}
    /\ data_size + 1 < WORD
    /\ Objects \subseteq Nat \ {0} /\ Ids \subseteq 1 .. 255
    /\ h_objects_offset \in Nat
    /\ \A v \in Versions :
         /\ Story[v] \in [0 .. data_size - 1 -> 0 .. 255]
         /\ \A o \in Objects : IsList(v, o)
         /\ AreApart(v)
         /\ \A p \in Ids : DefaultAt(p) + 1 < data_size /\ StoryWord(v, DefaultAt(p)) = DefaultOf[p]
    /\ \A a \in Values \cup Words \cup Chances : a \in Nat /\ a < WORD
    /\ Shifts \subseteq -15 .. 15

\* The story keeps tables of its own, behind the lists.
ASSUME TablesAreBehind ==
    \A a \in Places :
        /\ a \in Nat /\ a + 3 < WORD
        /\ \A v \in Versions : \A b \in Structure(v) : b < a
        /\ \A n \in Counts :
              n \in Int /\ -32768 <= n /\ n < 32768 /\ a + n < WORD /\ a - n < WORD

VARIABLE h_type

vars == <<h_type, datap, result, branch, asked, status>>

Init ==
    /\ h_type \in Versions
    /\ datap = Story[h_type]
    /\ result = 0
    /\ branch = FALSE
    /\ asked = [opcode |-> "nop", args |-> <<>>]
    /\ status = "run"

zbyte_t(n) == n % 256
property_mask == IF h_type <= 3 THEN 31 ELSE 63

-----------------------------------------------------------------------------
(* The walk along a list *)

\* The table has the length of the short name, in words, and the name before the list.
get_property_addr(obj) ==
    LET prop_addr == get_word(PropertyPointer[obj])
    IN prop_addr + get_byte(prop_addr) * 2 + 1

LongForm(value) == h_type >= 4 /\ value >= 128

\* Mutant: a size of 0 is not 64.
LongSize_zero(value) == value % 64
\* property_size_mask; the second byte has no size for 64.
LongSize(value) == IF value % 64 = 0 THEN 64 ELSE value % 64
ShortSize(value) == IF h_type <= 3 THEN value \div 32 ELSE value \div 64

get_next_property(prop_addr) ==
    prop_addr + 2 +
      (IF LongForm(get_byte(prop_addr)) THEN LongSize(get_byte(prop_addr + 1))
       ELSE ShortSize(get_byte(prop_addr)))

IdAt(prop_addr) == LET value == get_byte(prop_addr) IN value % (property_mask + 1)

\* The first entry of the list whose id is not above prop.  No list leaves the area.
LeavesArea(prop_addr) == prop_addr + 1 = data_size \/ get_next_property(prop_addr) >= data_size
EntryFor(obj, prop) ==
    LET from[a \in 0 .. data_size - 1] ==
          IF IdAt(a) <= prop \/ LeavesArea(a) THEN a ELSE from[get_next_property(a)]
    IN from[get_property_addr(obj)]

\* A byte that is neither a word nor longer has no bit of the size set.
ByteSized(value) == IF h_type <= 3 THEN value < 32 ELSE value < 64

NoObject(obj) == obj = 0

-----------------------------------------------------------------------------
(* The instructions *)

PropertyValue(obj, prop) ==
    LET a == EntryFor(obj, zbyte_t(prop)) IN
    IF IdAt(a) # zbyte_t(prop) THEN get_word(h_objects_offset + (prop - 1) * 2)
    ELSE IF ByteSized(get_byte(a)) THEN get_byte(a + 1)
    ELSE get_word(a + 1)

z_get_prop(obj, prop) ==
    /\ Does("get_prop", <<obj, prop>>)
    /\ Stores(IF NoObject(obj) THEN 0 ELSE PropertyValue(obj, prop))
    /\ UNCHANGED <<datap, branch, status>>

\* The id is compared as a word here.
z_put_prop(obj, prop, setvalue) ==
    /\ Does("put_prop", <<obj, prop, setvalue>>)
    /\ IF NoObject(obj) THEN UNCHANGED <<datap, status>>
       ELSE LET a == EntryFor(obj, prop) IN
            IF IdAt(a) # prop THEN status' = "fatal" /\ UNCHANGED datap
            ELSE /\ IF ByteSized(get_byte(a)) THEN set_byte(a + 1, setvalue)
                    ELSE set_word(a + 1, setvalue)
                 /\ UNCHANGED status
    /\ UNCHANGED <<result, branch>>

\* The entry behind the first whose id is not above prop, which has to be prop's.
z_get_next_prop(obj, prop) ==
    /\ Does("get_next_prop", <<obj, prop>>)
    /\ IF NoObject(obj) THEN Stores(0) /\ UNCHANGED status
       ELSE IF prop = 0 THEN Stores(IdAt(get_property_addr(obj))) /\ UNCHANGED status
       ELSE LET a == EntryFor(obj, zbyte_t(prop)) IN
            IF IdAt(a) # zbyte_t(prop) THEN status' = "fatal" /\ UNCHANGED result
            ELSE Stores(IdAt(get_next_property(a))) /\ UNCHANGED status
    /\ UNCHANGED <<datap, branch>>

PropertyAddress(obj, prop) ==
    LET a == EntryFor(obj, zbyte_t(prop)) IN
    IF IdAt(a) # zbyte_t(prop) THEN 0
    ELSE IF LongForm(get_byte(a)) THEN a + 2 ELSE a + 1

z_get_prop_addr(obj, prop) ==
    /\ Does("get_prop_addr", <<obj, prop>>)
    /\ Stores(IF NoObject(obj) THEN 0 ELSE PropertyAddress(obj, prop))
    /\ UNCHANGED <<datap, branch, status>>

\* The byte before the property has its size, in the long form, too.
PropertyLength(prop_addr) ==
    LET value == get_byte(prop_addr - 1) IN
    IF LongForm(value) THEN LongSize(value) ELSE ShortSize(value) + 1

z_get_prop_len(prop_addr) ==
    /\ Does("get_prop_len", <<prop_addr>>)
    /\ Stores(IF prop_addr = 0 THEN 0 ELSE PropertyLength(prop_addr))
    /\ UNCHANGED <<datap, branch, status>>

-----------------------------------------------------------------------------
(* A story *)

\* get_prop and put_prop skip one size byte where the long form has two: what they
\* read and write of a longer property is no value a story can use.
OneSizeByte(o, p) ==
    o # 0 /\ h_type > 3 /\ p \in DOMAIN PropertySize[h_type][o] => PropertySize[h_type][o][p] <= 2

UsesProperties ==
    \/ \E o \in Objects \cup {0}, p \in Ids :
         \/ OneSizeByte(o, p) /\ z_get_prop(o, p)
         \/ z_get_next_prop(o, p)
         \/ z_get_prop_addr(o, p)
         \/ \E v \in Values : OneSizeByte(o, p) /\ z_put_prop(o, p, v)
    \/ \E o \in Objects \cup {0} : z_get_next_prop(o, 0)
    \/ \E o \in Objects, p \in Ids :
         \/ z_get_prop_len(PropertyAddress(o, p))
         \/ \E v \in Values :
              PropertyAddress(o, p) # 0 /\ z_storeb(PropertyAddress(o, p), 0, v)

UsesTables ==
    \E a \in Places :
       \/ \E i \in 0 .. 1 : z_loadw(a, i) \/ z_loadb(a, i)
       \/ \E i \in 0 .. 1, v \in Values : z_storew(a, i, v) \/ z_storeb(a, i, v)
       \/ \E v \in Values, n \in {m \in Counts : m >= 0} :
            \/ z_scan_table(v, a, n, DefaultForm)
            \/ z_scan_table(v, a, n, 1)
       \/ \E b \in Places \cup {0}, n \in Counts : z_copy_table(a, b, zword_t(n))

Calculates ==
    \/ \E a \in Words, b \in Words, opcode \in {"add", "sub", "mul", "div", "or", "and"} :
         Computes(opcode, a, b)
    \/ \E a \in Words, n \in Shifts, opcode \in {"log_shift", "art_shift"} :
         Computes(opcode, a, zword_t(n))
    \/ \E a \in Words : Computes("not", a, 0)
    \/ \E a \in Chances : Random(a)
    \/ \E a, b \in Words : Mod(a, b)
    \/ \E a, b \in Words, opcode \in {"test", "jz", "je", "jl", "jg"} : Compares(opcode, a, b)

\* The data area is no operand of a calculation: one content is enough.
Fresh == datap = Story[h_type]

Next ==
    /\ status = "run"
    /\ \/ UsesProperties
       \/ UsesTables
       \/ Fresh /\ Calculates
    /\ UNCHANGED h_type

Spec == Init /\ [][Next]_vars

-----------------------------------------------------------------------------
(* Properties *)

\* The data area is bytes, and a result is a word, whatever the conversions between
\* zbyte_t, zword_t, ZINT16 and int make of the operands.
TypeOK ==
    /\ h_type \in Versions
    /\ datap \in [0 .. data_size - 1 -> 0 .. 255]
    /\ result \in 0 .. WORD - 1
    /\ branch \in BOOLEAN
    /\ status \in {"run", "fatal", "undefined"}

PropertyBytes(o, p) ==
    [i \in 1 .. PropertySize[h_type][o][p] |-> datap[PropertyPlace[h_type][o][p] + i - 1]]

Lists == INSTANCE PropertyLists WITH
    Default <- DefaultOf,
    address <- PropertyPlace[h_type],
    lists   <- [o \in Objects |-> [p \in DOMAIN PropertyPlace[h_type][o] |-> PropertyBytes(o, p)]]

\* The walk finds exactly the properties an object has, in both forms and with all
\* sizes, and a put, or a store to the address get_prop_addr gave, changes that one
\* property and the result of no other instruction.
ImplementsPropertyLists == Lists!PromisedSpec

\* The laws of division, shifts, masks and order hold for what math.c computes, at
\* the limits of 16 bits as well.
ArithmeticLaws ==
    [][LET arg == asked'.args IN
       /\ asked'.opcode \in {"div", "mod"} => DivisionLaw(arg[1], arg[2])
       /\ asked'.opcode \in {"log_shift", "art_shift"} => ShiftLaw(arg[1], ZINT16(arg[2]))
       /\ asked'.opcode \in {"and", "or", "test"} => BitsLaw(arg[1], arg[2])
       /\ asked'.opcode \in {"jl", "je", "jg"} => OrderLaw(arg[1], arg[2])]_vars

Byte(a) == ByteIn(datap, a)

CopyLaw ==
    asked'.opcode = "copy_table" /\ status' = "run" /\ asked'.args[2] # 0 =>
      LET src  == asked'.args[1]
          dst  == asked'.args[2]
          n    == IF src = dst THEN 0 ELSE Magnitude(ZINT16(asked'.args[3]))
          up   == ZINT16(asked'.args[3]) < 0
          gap  == Magnitude(dst - src)
          from(i) ==
              IF (up /\ dst < src) \/ (~up /\ src < dst) THEN i
              ELSE IF up THEN i % gap ELSE n - 1 - ((n - 1 - i) % gap)
      IN /\ \A i \in 0 .. n - 1 : datap'[dst + i] = Byte(src + from(i))
         /\ \A a \in DOMAIN datap \ (dst .. dst + n - 1) : datap'[a] = datap[a]

\* A copy of n bytes leaves every other byte.  It is a move of the n bytes where the
\* tables do not overlap or the direction asked for is the one for the overlap;
\* against it, the bytes in front repeat, which a story may ask for.
CopyIsAsAsked == [][CopyLaw]_vars
=============================================================================
