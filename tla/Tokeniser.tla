----------------------------- MODULE Tokeniser -----------------------------
(***************************************************************************)
(* tokenise_line of input.c: a typed line is cut into words, and each of   *)
(* them is looked up in a dictionary by its codes.  The binary chop of     *)
(* find_word is taken step by step.  The story prints a dictionary entry   *)
(* by its address, or any other of its texts.                              *)
(*                                                                         *)
(* The text buffer is the sequence of characters typed; the token buffer   *)
(* has slots from 0, the first slot behind its room included.  An entry of *)
(* the dictionary is its number from 1, where the code has its address.    *)
(***************************************************************************)
EXTENDS ZCodes, FiniteSets

CONSTANTS
    Separators,       \* the static separators of input.c
    Inputs            \* what a story has: its line, room, dictionaries, texts;
                      \* bound: the times it has the line tokenised

ASSUME TokeniserAssumption ==
    \A i \in Inputs :
        /\ i.version \in Versions
        /\ i.line \in Seq(0 .. 255)
        /\ i.room \in Nat /\ i.calls \in Nat
        /\ i.dictionaries \subseteq [base : Nat, entries : Seq(Seq(0 .. 255)),
                                    sorted : BOOLEAN, separators : SUBSET (0 .. 255)]

VARIABLES
    input,            \* the story's line, room, dictionaries and texts
    tbuf,             \* the slots of the token buffer
    words,            \* the words counted, tbuf[1] at the end
    dictionary, flag, \* the arguments of tokenise
    cp,               \* next_token goes on here
    token,            \* the token at hand: its start and length
    word,             \* its encoding
    word_index, chop, \* the binary chop
    phase,            \* where tokenise_line is
    calls,            \* the calls of tokenise so far
    before,           \* tbuf before this call
    plain             \* what the text being printed says

arguments == <<input, dictionary, flag, calls, before, h_type>>
search == <<word, word_index, chop>>
vars == <<arguments, tbuf, words, cp, token, search, phase, plain, ztext>>

cbuf == input.line
room == input.room
Slots == 0 .. room

NoDictionary == [base |-> 0, entries |-> <<>>, sorted |-> TRUE, separators |-> {}]

Init ==
    /\ input \in Inputs
    /\ h_type = input.version
    /\ tbuf = [k \in Slots |-> [entry |-> 0, length |-> 0, start |-> 0]]
    /\ words = 0
    /\ dictionary = NoDictionary /\ flag = 0
    /\ cp = 1 /\ token = [start |-> 1, length |-> 0]
    /\ word = <<0, 0, 0>> /\ word_index = 0 /\ chop = 0
    /\ phase = "idle" /\ calls = 0 /\ before = tbuf
    /\ printing = <<>> /\ output = <<>> /\ plain = [says |-> <<>>, all |-> TRUE]

-----------------------------------------------------------------------------
(* tokenise_line *)

Size == Len(dictionary.entries)

\* A negative size says that the entries are in no order.
dictionary_size == IF dictionary.sorted THEN Size ELSE -Size

\* Doubled once, and once more for each halving of half the size.
StartChop(n) ==
    LET doubled[half \in 0 .. n] ==
          IF half \div 2 = 0 THEN 2 ELSE 2 * doubled[half \div 2]
    IN IF n > 0 THEN doubled[n \div 2] ELSE 0

\* The entries hold words as encode_text packs them.
Entries(d) == [i \in DOMAIN d.entries |-> encode_text(d.entries[i])]

z_tokenise ==
    /\ phase = "idle" /\ ~Decoding
    /\ calls < input.calls
    /\ calls' = calls + 1
    /\ \E d \in input.dictionaries : dictionary' = [d EXCEPT !.entries = Entries(d)]
    /\ flag' \in {0, 1}
    /\ before' = tbuf
    /\ words' = 0 /\ cp' = 1
    /\ phase' = "scan"
    /\ UNCHANGED <<input, tbuf, token, search, plain, ztext, h_type>>

\* The game's separators are looked for first: they are words themselves.
Punctuation(c) == c \in dictionary.separators
Separates(c) == c \in Separators /\ ~Punctuation(c)
Letter(c) == ~Punctuation(c) /\ ~Separates(c)

End == Len(cbuf) + 1
\* The first place from p on where Test holds, or the end of the line.
First(p, Test(_)) ==
    LET found == {q \in p .. Len(cbuf) : Test(cbuf[q])}
    IN IF found = {} THEN End ELSE CHOOSE q \in found : \A r \in found : q <= r

NotSeparates(c) == ~Separates(c)
NotLetter(c) == ~Letter(c)

\* Mutant: the separator that ends a word is skipped, the game's ones, too.
Behind_skips(p) == IF p < End THEN p + 1 ELSE p
\* A word ends before a separator of the game and behind a static one.
Behind(p) == IF p < End /\ Separates(cbuf[p]) THEN p + 1 ELSE p

next_token ==
    LET s == First(cp, NotSeparates)
        e == IF s < End /\ Punctuation(cbuf[s]) THEN s + 1 ELSE First(s, NotLetter)
    IN /\ token' = [start |-> s, length |-> e - s]
       /\ cp' = IF s < End /\ Punctuation(cbuf[s]) THEN e ELSE Behind(e)

\* Mutant: a slot more.
HasSpace_more == words <= room + 1
HasSpace == words <= room

Typed(t) == SubSeq(cbuf, t.start, t.start + t.length - 1)

\* The next token, and the start of its look-up.
NextToken ==
    /\ phase = "scan"
    /\ next_token
    /\ IF token'.length = 0 THEN phase' = "idle" /\ UNCHANGED search
       ELSE IF ~HasSpace THEN phase' = "scan" /\ UNCHANGED search
       ELSE /\ phase' = "search"
            /\ word' = encode_text(Typed(token'))
            /\ chop' = StartChop(dictionary_size)
            /\ word_index' = IF dictionary.sorted THEN chop' - 1 ELSE 0
    /\ UNCHANGED <<arguments, tbuf, words, plain, ztext>>

-----------------------------------------------------------------------------
(* find_word *)

\* The first difference of the words that count.
Status(w, e) ==
    CASE w[1] # e[1] -> w[1] - e[1]
      [] w[1] = e[1] /\ w[2] # e[2] -> w[2] - e[2]
      [] OTHER -> IF h_type < 4 THEN 0 ELSE w[3] - e[3]

\* Step to the next token position.
Store(entry) ==
    /\ tbuf' = [tbuf EXCEPT ![words] =
                  [entry  |-> IF entry # 0 \/ flag = 0 THEN entry ELSE @.entry,
                   length |-> token.length,
                   start  |-> token.start]]
    /\ words' = words + 1
    /\ phase' = "scan"

NotThere == Store(0) /\ UNCHANGED search

AtMost(i) == IF i > Size - 1 THEN Size - 1 ELSE i
\* Mutant: no step down.
Next_same(i, status, half) == IF status > 0 THEN AtMost(i + half) ELSE i
NextIndex(i, status, half) ==
    IF status > 0 THEN AtMost(i + half)
    ELSE IF i - half < 0 THEN 0 ELSE i - half

\* Mutant: the chop is never used up.
Halved_up(n) == (n + 1) \div 2
Halved(n) == n \div 2

Chop ==
    /\ dictionary.sorted /\ Size > 0
    /\ IF chop = 0 THEN NotThere
       ELSE LET at     == AtMost(word_index)
                status == Status(word, dictionary.entries[at + 1])
            IN IF status = 0 THEN Store(dictionary.base + at + 1) /\ UNCHANGED search
               ELSE /\ chop' = Halved(chop)
                    /\ word_index' = NextIndex(at, status, Halved(chop))
                    /\ UNCHANGED <<word, tbuf, words, phase>>

Linear ==
    /\ ~dictionary.sorted /\ Size > 0
    /\ IF word_index = Size THEN NotThere
       ELSE IF Status(word, dictionary.entries[word_index + 1]) = 0
       THEN Store(dictionary.base + word_index + 1) /\ UNCHANGED search
       ELSE word_index' = word_index + 1 /\ UNCHANGED <<word, chop, tbuf, words, phase>>

find_word ==
    /\ phase = "search"
    /\ \/ Size = 0 /\ NotThere
       \/ Chop
       \/ Linear
    /\ UNCHANGED <<arguments, cp, token, plain, ztext>>

-----------------------------------------------------------------------------
(* Printing a text: the entry of a token, or a text of the story *)

Idle == phase = "idle" /\ ~Decoding

\* The entry at an address, in whichever dictionary it is.
EntryAt(address) ==
    LET d == CHOOSE d \in input.dictionaries : address - d.base \in DOMAIN d.entries
    IN encode_text(d.entries[address - d.base])

\* An entry has room for the first codes of a word only.
z_print_addr(k) ==
    /\ Idle /\ k < words /\ tbuf[k].entry # 0
    /\ PrintText(CodesIn(EntryAt(tbuf[k].entry)))
    /\ plain' = [says |-> Typed(tbuf[k]),
                 all  |-> Len(EncodedFrom(0, Typed(tbuf[k]))) <= 3 * LastWord]

\* A text of the story may have an abbreviation in it.
TextCodes(text) ==
    LET table == PrevTables(0, text.start)[Len(text.start)]
    IN EncodedFrom(0, text.start) \o text.key \o EncodedFrom(table, text.rest)

z_print_paddr(text) ==
    /\ Idle
    /\ PrintText(TextCodes(text))
    /\ plain' = [says |-> text.start \o text.means \o text.rest, all |-> TRUE]

PrintNext ==
    /\ \/ \E k \in Slots : z_print_addr(k)
       \/ \E text \in input.texts : z_print_paddr(text)
       \/ decode_text /\ UNCHANGED plain
    /\ UNCHANGED <<arguments, tbuf, words, cp, token, search, phase>>

TokeniseLine == NextToken \/ find_word

Next == z_tokenise \/ TokeniseLine \/ PrintNext

Spec == Init /\ [][Next]_vars /\ WF_vars(TokeniseLine)
-----------------------------------------------------------------------------
(* Properties *)

\* The bytes of the buffers, the counters of the loops and the variables that
\* describe a text have their types.
TypeOK ==
    /\ h_type \in Versions
    /\ tbuf \in [Slots -> [entry : Nat, length : 0 .. Len(cbuf), start : 0 .. End]]
    /\ words \in 0 .. room + 1
    /\ cp \in 1 .. End
    /\ phase = "search" => word_index \in -1 .. Size /\ chop \in 0 .. 2 * Size
    /\ phase \in {"idle", "scan", "search"}
    /\ \A i \in DOMAIN printing :
         printing[i].shift_state \in 0 .. 2 /\ printing[i].shift_lock \in 0 .. 2
    /\ dictionary.sorted =>
         \A i \in 1 .. Size - 1 : Status(dictionary.entries[i], dictionary.entries[i + 1]) < 0

\* The tokens of the line by what they are: a separator of the game, or a run of
\* letters that could not be longer, each with its start and length.
IsToken(s, e) ==
    \/ s = e /\ Punctuation(cbuf[s])
    \/ /\ \A p \in s .. e : Letter(cbuf[p])
       /\ s > 1 => ~Letter(cbuf[s - 1])
       /\ e < Len(cbuf) => ~Letter(cbuf[e + 1])
Tokens ==
    {t \in [start : 1 .. Len(cbuf), length : 1 .. Len(cbuf)] :
        t.start + t.length <= End /\ IsToken(t.start, t.start + t.length - 1)}
Ahead(t) == {u \in Tokens : u.start < t.start}

Tokenised == phase = "idle" /\ calls > 0

\* Every word of the line is in the token buffer once, in its order, and none is
\* broken or joined (tokenise_line, next_token); what does not fit is left out.
\* The buffer takes one word more than its room.
WordsInOrder ==
    Tokenised =>
        /\ words = IF Cardinality(Tokens) > room + 1 THEN room + 1 ELSE Cardinality(Tokens)
        /\ \A t \in Tokens :
             LET k == Cardinality(Ahead(t)) IN
             k < words => tbuf[k].start = t.start /\ tbuf[k].length = t.length

Equal(s, e) == \A i \in 1 .. LastWord : encode_text(s)[i] = e[i]

\* A word has the address of its entry iff the dictionary has one, for every size
\* of a sorted dictionary and for one in any order (find_word); a word that has
\* none gets 0, or with flag what its slot had before.
FoundIffThere ==
    Tokenised =>
        \A k \in 0 .. words - 1 :
            LET there == {i \in 1 .. Size : Equal(Typed(tbuf[k]), dictionary.entries[i])}
            IN IF there = {}
               THEN tbuf[k].entry = IF flag = 0 THEN 0 ELSE before[k].entry
               ELSE \E i \in there : /\ \A j \in there : i <= j
                                     /\ tbuf[k].entry = dictionary.base + i

\* What the story prints by the address of a word is the word as it was typed, as
\* far as its entry goes, and a text with abbreviations in it is printed with
\* theirs: encode_text, find_word and decode_text agree on the codes.
PrintedAsTyped ==
    ~Decoding =>
        /\ Len(output) <= Len(plain.says)
        /\ output = SubSeq(plain.says, 1, Len(output))
        /\ plain.all => output = plain.says

\* Every call of tokenise ends.
TokenisingEnds == phase # "idle" ~> phase = "idle"
=============================================================================
