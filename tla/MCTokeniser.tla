---------------------------- MODULE MCTokeniser ----------------------------
(***************************************************************************)
(* Small stories for Tokeniser: every short line over a letter and the     *)
(* separators, a sorted dictionary of every size up to 17 with words that  *)
(* are in it and words that are between its entries, words longer than an  *)
(* entry, and words with characters of all three tables.                   *)
(***************************************************************************)
EXTENDS Tokeniser

MCColumns == 0 .. 3
Row(chars) == [j \in MCColumns |-> chars[j + 1]]
Table(first) ==
    [i \in 0 .. 2 |-> CASE i = 0 -> Row(<<97, 98, 99, 100>>)
                        [] i = 1 -> Row(<<65, 66, 67, 68>>)
                        [] i = 2 -> Row(first)]
MCV1Table == Table(<<32, 48, 49, 46>>)
MCV3Table == Table(<<32, 10, 48, 49>>)

\* "ab " and, with a shift or a lock of the same code, "A".
MCSynonyms == [k \in {0, 33} |-> IF k = 0 THEN <<6, 7, 0>> ELSE <<4, 6, 5>>]

MCSeparators == {32, 46, 44}

SequencesOver(S, n) == UNION {[1 .. k -> S] : k \in 0 .. n}

Story(version, line, slots, n, dictionaries, texts) ==
    [version |-> version, line |-> line, room |-> slots, calls |-> n,
     dictionaries |-> dictionaries, texts |-> texts]

Dictionary(base, entries, sorted) ==
    [base |-> base, entries |-> entries, sorted |-> sorted, separators |-> {44}]

\* Lines of a letter, the comma, which is a separator of the game, the full stop
\* and the space; a dictionary of the game and one of the story's own.
Lines ==
    {Story(5, line, slots, IF Len(line) = 4 THEN 1 ELSE 2,
           {Dictionary(100, <<<<97>>>>, TRUE), Dictionary(200, <<<<44>>, <<97, 97>>>>, FALSE)},
           {}) :
        line \in SequencesOver({97, 44, 46, 32}, 4), slots \in 0 .. 1}

\* The nth word of three letters.
Word(n) == <<97 + n \div 16, 97 + ((n \div 4) % 4), 97 + (n % 4)>>
\* Every other word is in the dictionary.
Sorted(n) == Dictionary(100, [i \in 1 .. n |-> Word(2 * i - 1)], TRUE)
LookUps ==
    UNION {{Story(5, Word(w), 0, 1, {Sorted(n)}, {}) : w \in 0 .. 2 * n} : n \in 0 .. 17}

\* Words that an entry cuts, or not, in one version or both.
Alphabetical == <<97, 98, 99, 100, 97, 98, 99, 100, 97, 98>>
Cut ==
    {Story(version, SubSeq(Alphabetical, 1, n), 0, 1,
           {Dictionary(100, <<SubSeq(Alphabetical, 1, 6), SubSeq(Alphabetical, 1, 9)>>, FALSE)},
           {}) : version \in 3 .. 5, n \in 5 .. 10}

\* Words over all tables and a character in none, each its own dictionary.
AllTables == SequencesOver({97, 65, 48, 37}, 3)
\* In V1 and V2 a word has no single shift behind a lock and before the end: the
\* encoder forgets the lock there.
KeepsLocks(w) ==
    \A k \in 2 .. Len(w) - 1 : w[k - 1] # w[k] => w[k] # w[k + 1]
MCTexts ==
    {[start |-> s, key |-> k[1], rest |-> r, means |-> k[2]] :
        s \in {<<>>, <<65, 65>>, <<48>>}, r \in {<<97>>, <<65>>},
        k \in {<<<<1, 0>>, <<97, 98, 32>>>>}}
\* The second table of abbreviations is not in V2.
MoreTexts ==
    {[start |-> s, key |-> <<2, 1>>, rest |-> <<97, 37>>, means |-> <<65>>] :
        s \in {<<>>, <<65, 48>>}}
Mixed ==
    {Story(version, w, 0, 1, {Dictionary(100, <<w>>, FALSE)},
           CASE version = 1 -> {} [] version = 2 -> MCTexts [] OTHER -> MCTexts \cup MoreTexts) :
        version \in {1, 2, 3, 5}, w \in {v \in AllTables : KeepsLocks(v)}}

MCInputs == Lines \cup LookUps \cup Cut \cup Mixed
=============================================================================
