--------------------------- MODULE PropertyLists ----------------------------
(***************************************************************************)
(* What the property instructions promise a story: every object has        *)
(* properties, each an id and some bytes.  The walk along the list in the  *)
(* data area, and the form of its size bytes, do not show.                 *)
(***************************************************************************)
EXTENDS Integers, Sequences

CONSTANT
    Default           \* by id, the word of a property an object does not have

VARIABLES
    address,          \* by object and id, where the bytes of a property are
    lists,            \* by object and id, the bytes
    result,           \* the word the last instruction stored
    asked,            \* the instruction, its opcode and operands
    status            \* "fatal" once the interpreter has stopped

promised_vars == <<address, lists, result, asked, status>>

Objects == DOMAIN lists
Known == UNION {DOMAIN lists[o] : o \in Objects}
Has(o, p) == o \in Objects /\ p \in DOMAIN lists[o]

\* One byte is a number, and of more the first two.
Value(bytes) == IF Len(bytes) = 1 THEN bytes[1] ELSE bytes[1] * 256 + bytes[2]
Changed(bytes, v) ==
    IF Len(bytes) = 1 THEN <<v % 256>>
    ELSE [bytes EXCEPT ![1] = v \div 256, ![2] = v % 256]

\* The highest id is first.  The first of a list is the one behind 0.
Behind(o, p) == {q \in DOMAIN lists[o] : p = 0 \/ q < p}
Highest(ids) == IF ids = {} THEN 0 ELSE CHOOSE q \in ids : \A r \in ids : r <= q

Gives(v) == result' = v /\ UNCHANGED <<lists, status>>
Stops == status' = "fatal" /\ UNCHANGED lists

\* Object 0 has no properties, and nothing happens to it.
Get(o, p) ==
    Gives(IF Has(o, p) THEN Value(lists[o][p]) ELSE IF o = 0 THEN 0 ELSE Default[p])

Put(o, p, v) ==
    \/ o = 0 /\ UNCHANGED <<lists, status>>
    \/ Has(o, p) /\ lists' = [lists EXCEPT ![o][p] = Changed(@, v)] /\ UNCHANGED status
    \/ o # 0 /\ ~Has(o, p) /\ Stops

GetNext(o, p) ==
    \/ o = 0 /\ Gives(0)
    \/ o # 0 /\ (p = 0 \/ Has(o, p)) /\ Gives(Highest(Behind(o, p)))
    \/ o # 0 /\ p # 0 /\ ~Has(o, p) /\ Stops

GetAddress(o, p) == Gives(IF Has(o, p) THEN address[o][p] ELSE 0)

GetLength(at) ==
    \/ at = 0 /\ Gives(0)
    \/ \E o \in Objects, p \in Known :
          Has(o, p) /\ at = address[o][p] /\ Gives(Len(lists[o][p]))

\* A story that has the address may store there; no other instruction changes a property.
Elsewhere == asked'.opcode \notin {"storeb", "storew", "copy_table"} => UNCHANGED <<lists, status>>

Promised ==
    LET arg == asked'.args IN
    /\ UNCHANGED address
    /\ CASE asked'.opcode = "get_prop" -> Get(arg[1], arg[2])
         [] asked'.opcode = "put_prop" -> Put(arg[1], arg[2], arg[3])
         [] asked'.opcode = "get_next_prop" -> GetNext(arg[1], arg[2])
         [] asked'.opcode = "get_prop_addr" -> GetAddress(arg[1], arg[2])
         [] asked'.opcode = "get_prop_len" -> GetLength(arg[1])
         [] asked'.opcode = "mod" -> UNCHANGED lists
         [] OTHER -> Elsewhere

PromisedSpec == [][Promised]_promised_vars
=============================================================================
