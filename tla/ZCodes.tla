------------------------------- MODULE ZCodes -------------------------------
(***************************************************************************)
(* The 5-bit codes of text.c: encode_text, which packs a typed word as the *)
(* dictionary has it, and decode_text, which prints a text of the story    *)
(* code by code, with an activation for each abbreviation it is in.        *)
(*                                                                         *)
(* Characters are their ZSCII numbers.  A text is the sequence of its      *)
(* codes, three to a word, up to the word that ends it.                    *)
(***************************************************************************)
EXTENDS Integers, Sequences

CONSTANTS
    Columns,          \* the columns of lookup_table, from 0
    V1Table,          \* the table of V1 and the one of the other versions:
    V3Table,          \* the character in each of three rows and each column
    Synonyms,         \* the texts of the abbreviations, by their number from 0
    Versions          \* the versions of the stories that are run

ASSUME ZCodesAssumption ==
    /\ Columns \subseteq 0 .. 25
    /\ Versions \subseteq 1 .. 8
    /\ V1Table \in [0 .. 2 -> [Columns -> 0 .. 255]]
    /\ V3Table \in [0 .. 2 -> [Columns -> 0 .. 255]]

VARIABLES
    h_type,           \* the version of the story
    printing,         \* the activations of decode_text, the outermost first
    output            \* the characters given to write_zchar

ztext == <<printing, output>>

SPACE == 32
NEWLINE == 10

lookup_table == IF h_type = 1 THEN V1Table ELSE V3Table

-----------------------------------------------------------------------------
(* encode_text *)

\* The places of a character; the loops keep the last one they see.
PlacesOf(c) == {p \in (0 .. 2) \X Columns : lookup_table[p[1]][p[2]] = c}
LastOf(places) ==
    CHOOSE p \in places : \A q \in places : q[1] < p[1] \/ (q[1] = p[1] /\ q[2] <= p[2])
\* A character without a place is written with code 0 of table 2.
PlaceOf(c) == IF PlacesOf(c) = {} THEN <<2, 0>> ELSE LastOf(PlacesOf(c))
TableOf(c) == PlaceOf(c)[1]

\* The key of V1 and V2: 2 and 3 shift one character, 4 and 5 lock.
ShiftKey(prev, table, next) ==
    1 + ((table + prev * 2) % 3) + (IF next = table THEN 2 ELSE 0)

Shifts(prev, table, next) ==
    CASE h_type < 3 /\ table # prev -> <<ShiftKey(prev, table, next)>>
      [] h_type >= 3 /\ table # 0   -> <<table + 3>>
      [] OTHER                      -> <<>>

Literal(c) == IF PlaceOf(c) = <<2, 0>> THEN <<(c \div 32) % 8, c % 32>> ELSE <<>>

NextTable(s, k) == IF k = Len(s) THEN 0 ELSE TableOf(s[k + 1])

\* Mutant: a lock is not remembered.
PrevTables_forgotten(start, s) == [k \in 0 .. Len(s) |-> IF k = 0 THEN start ELSE 0]
\* The table prev_table names after k characters, when it begins as start.
PrevTables(start, s) ==
    LET prev[k \in 0 .. Len(s)] ==
          IF k = 0 THEN start
          ELSE IF TableOf(s[k]) \in {prev[k - 1], NextTable(s, k)} THEN TableOf(s[k])
          ELSE 0
    IN prev

\* All codes of s, of which encode_text keeps the first nine.
EncodedFrom(start, s) ==
    LET prev == PrevTables(start, s)
        codes[k \in 0 .. Len(s)] ==
          IF k = 0 THEN <<>>
          ELSE codes[k - 1] \o Shifts(prev[k - 1], TableOf(s[k]), NextTable(s, k))
                 \o <<PlaceOf(s[k])[2] + 6>> \o Literal(s[k])
    IN codes[Len(s)]

Pads == <<5, 5, 5, 5, 5, 5, 5, 5, 5>>

Codes(s) == SubSeq(EncodedFrom(0, s) \o Pads, 1, 9)

\* The words of an entry that count: two in V1 to V3, then three.
LastWord == IF h_type < 4 THEN 2 ELSE 3

\* As signed words: the top bit ends the text.
encode_text(s) ==
    LET codes == Codes(s)
        word(i) == codes[3 * i - 2] * 1024 + codes[3 * i - 1] * 32 + codes[3 * i]
    IN [i \in 1 .. 3 |-> IF i = LastWord THEN word(i) - 32768 ELSE word(i)]

\* The codes in the words of an entry.
CodesIn(word) ==
    LET bits(i) == IF word[i] < 0 THEN word[i] + 32768 ELSE word[i]
        code(i, k) == (bits(i) \div (32 ^ (3 - k))) % 32
    IN [n \in 1 .. 3 * LastWord |-> code(((n - 1) \div 3) + 1, ((n - 1) % 3) + 1)]

-----------------------------------------------------------------------------
(* decode_text *)

Activation(codes) ==
    [codes |-> codes, shift_state |-> 0, shift_lock |-> 0,
     synonym |-> 0,     \* 0 when synonym_flag is
     zscii_flag |-> 0, zscii |-> 0]

PrintText(codes) ==
    /\ printing' = <<Activation(codes)>>
    /\ output' = <<>>

Decoding == printing # <<>>
Top == printing[Len(printing)]
Below == SubSeq(printing, 1, Len(printing) - 1)
Code == Head(Top.codes)

\* The activation goes on behind this code as a.
Becomes(a) == printing' = Append(Below, [a EXCEPT !.codes = Tail(@)])
Writes(c) == output' = Append(output, c)

\* A shift counts for one character.
Released(a) == [a EXCEPT !.shift_state = a.shift_lock]

\* The text of the abbreviation is decoded by a call of decode_text.
Synonym ==
    /\ Top.synonym # 0
    /\ LET outer == [Released(Top) EXCEPT !.synonym = 0, !.codes = Tail(@)]
       IN printing' = Below \o <<outer, Activation(Synonyms[(Top.synonym - 1) * 32 + Code])>>
    /\ UNCHANGED output

Zscii ==
    /\ Top.synonym = 0
    /\ \/ /\ Top.zscii_flag = 1
          /\ Becomes([Top EXCEPT !.zscii_flag = 2, !.zscii = Code * 32])
          /\ UNCHANGED output
       \/ /\ Top.zscii_flag = 2
          /\ Becomes([Top EXCEPT !.zscii_flag = 0])
          /\ Writes((Top.zscii + Code) % 256)

Plain == Top.synonym = 0 /\ Top.zscii_flag = 0

Character ==
    /\ Plain /\ Code > 5
    /\ IF Top.shift_state = 2 /\ Code = 6
       THEN Becomes([Released(Top) EXCEPT !.zscii_flag = 1]) /\ UNCHANGED output
       ELSE /\ Becomes(Released(Top))
            /\ IF Top.shift_state = 2 /\ Code = 7 /\ h_type > 1
               THEN Writes(NEWLINE)
               ELSE Writes(lookup_table[Top.shift_state][Code - 6])

Blank ==
    /\ Plain /\ Code = 0
    /\ Becomes(Top)
    /\ Writes(SPACE)

StartsSynonym == (Code = 1 /\ h_type = 2) \/ (Code \in 1 .. 3 /\ h_type > 2)

Shifted(a, code) ==
    IF code < 4
    THEN [a EXCEPT !.shift_state = (a.shift_lock + code + 2) % 3]
    ELSE [a EXCEPT !.shift_state = (a.shift_lock + code) % 3,
                   !.shift_lock = (a.shift_lock + code) % 3]

Special ==
    /\ Plain /\ Code \in 1 .. 5
    /\ \/ /\ StartsSynonym
          /\ Becomes([Top EXCEPT !.synonym = Code])
          /\ UNCHANGED output
       \/ Code = 1 /\ h_type = 1 /\ Becomes(Top) /\ Writes(NEWLINE)
       \/ /\ Code > 1 /\ h_type < 3
          /\ Becomes(Shifted(Top, Code))
          /\ UNCHANGED output
       \/ /\ Code > 3 /\ h_type >= 3
          /\ Becomes([Top EXCEPT !.shift_lock = 0, !.shift_state = Code - 3])
          /\ UNCHANGED output

EndOfText ==
    /\ printing' = Below
    /\ UNCHANGED output

decode_text ==
    /\ Decoding
    /\ IF Top.codes = <<>> THEN EndOfText
       ELSE Synonym \/ Zscii \/ Character \/ Blank \/ Special
=============================================================================
