------------------------- MODULE TextOutput_proofs --------------------------
(***************************************************************************)
(* Proofs about TextOutput: for every width, alphabet and set of tables,   *)
(* text stays in the line buffer and in the room of its table, however     *)
(* tables are nested and restarts come between, and no line that begins at *)
(* the left of the screen passes the right margin.  For a story that       *)
(* switches the screen at a line's start and restarts in the text window,  *)
(* TextOutput implements TextStreams, and the transcript is as shown.      *)
(***************************************************************************)
EXTENDS TextOutput, TLAPS, Recursion, SequenceTheorems

-----------------------------------------------------------------------------
(* The inductive invariant *)

Text == Letters \cup {SP}

\* A buffer between two characters: its line is no longer than a line of the screen.
Buffered(b) ==
    /\ b = [line |-> b.line, count |-> b.count, sent |-> b.sent]
    /\ b.line \in Seq(Text) /\ Len(b.line) <= Width
    /\ b.count \in Int /\ b.count <= Width

BufferInv ==
    /\ line \in Seq(Text) /\ Len(line) <= Width
    /\ char_count \in Int /\ char_count <= Width

ModesInv ==
    /\ formatting \in BOOLEAN /\ saved_formatting \in BOOLEAN
    /\ outputting \in BOOLEAN /\ scripting_disable \in BOOLEAN
    /\ screen_window \in Windows

\* A table, the place behind its text, and the length of its text.
IsTable(t, pos, count) == t \in Tables /\ count \in 0 .. TableRoom /\ pos = t + 2 + count

Entry == [pos : Int, buffer : Int, count : Int]

\* The table selected and, below it, one stash entry for each outer one are tables.
StashInv ==
    /\ redirect_depth \in Nat
    /\ stash \in Seq(Entry) /\ redirect_depth <= Len(stash) + 1
    /\ story_buffer \in Int /\ story_pos \in Int /\ story_count \in Int
    /\ redirect_depth > 0 => IsTable(story_buffer, story_pos, story_count)
    /\ \A i \in 1 .. redirect_depth - 1 : IsTable(stash[i].buffer, stash[i].pos, stash[i].count)

Contents(mem) ==
    /\ DOMAIN mem = Cells /\ mem = [a \in Cells |-> mem[a]]
    /\ \A a \in Cells : IF a \in Tables THEN mem[a] \in 0 .. TableRoom ELSE mem[a] \in Chars

Inv == BufferInv /\ ModesInv /\ StashInv /\ Contents(memory)

-----------------------------------------------------------------------------
(* The line buffer *)

LEMMA LastSpaceInLine ==
  ASSUME NEW s \in Seq(Text)
  PROVE  /\ LastSpace(s) \in 0 .. Len(s)
         /\ LastSpace(s) # 0 => s[LastSpace(s)] = SP
         /\ LastSpace(s) = 0 => \A i \in 1 .. Len(s) : s[i] # SP
<1>. DEFINE I == {i \in 1 .. Len(s) : s[i] = SP}
            T == {Len(s) - i : i \in I}
<1>1. Len(s) \in Nat
  BY LenProperties
<1>2. LastSpace(s) = IF I # {} THEN Max(I) ELSE 0
  BY DEF LastSpace, SelectLastInSeq
<1>3. ASSUME I # {}  PROVE Max(I) \in I
  <2>1. T \subseteq Nat /\ T # {}
    BY <1>1, <1>3
  <2>2. PICK m \in T : \A y \in T : ~ (y < m)
    BY <2>1, LeastElement
  <2>3. PICK i \in I : m = Len(s) - i
    BY <2>2
  <2>4. ASSUME NEW j \in I  PROVE i >= j
    <3>1. Len(s) - j \in T
      OBVIOUS
    <3>2. ~ (Len(s) - j < Len(s) - i)
      BY <2>2, <2>3, <3>1
    <3>3. i \in Int /\ j \in Int /\ Len(s) \in Int
      BY <1>1, <2>3
    <3>. HIDE DEF I, T
    <3>. QED  BY <3>2, <3>3
  <2>5. \E x \in I : \A y \in I : x >= y
    BY <2>3, <2>4
  <2>. HIDE DEF I
  <2>. QED  BY <2>5 DEF Max
<1>4. ASSUME I = {}  PROVE \A i \in 1 .. Len(s) : s[i] # SP
  BY <1>4
<1>5. \A i \in I : i \in 1 .. Len(s) /\ s[i] = SP
  OBVIOUS
<1>. HIDE DEF I
<1>. QED  BY <1>1, <1>2, <1>3, <1>4, <1>5

LEMMA LineEndedFits ==
  ASSUME NEW b
  PROVE  /\ Buffered(LineEnded(b))
         /\ LineEnded(b).sent = b.sent \o Append(b.line, NL)
         /\ LineEnded(b).line = <<>>
<1>1. LineEnded(b).line = <<>> /\ LineEnded(b).count = Width
      /\ LineEnded(b).sent = b.sent \o Append(b.line, NL)
      /\ LineEnded(b) = [line |-> LineEnded(b).line, count |-> LineEnded(b).count,
                         sent |-> LineEnded(b).sent]
  BY DEF LineEnded
<1>2. <<>> \in Seq(Text) /\ Len(<<>>) = 0
  BY EmptySeq
<1>. DEFINE e == LineEnded(b)
<1>3. e = [line |-> e.line, count |-> e.count, sent |-> e.sent]
  BY <1>1
<1>4. e.line \in Seq(Text) /\ Len(e.line) <= Width /\ e.count \in Int /\ e.count <= Width
  BY <1>1, <1>2, TextOutputAssumption
<1>. HIDE DEF e
<1>5. Buffered(e)
  BY <1>3, <1>4 DEF Buffered
<1>. QED  BY <1>1, <1>5 DEF e

LEMMA AppendedFits ==
  ASSUME NEW b, Buffered(b), Fits(b), NEW c \in Chars
  PROVE  Buffered(Appended(b, c))
<1>1. CASE c = CR
  BY <1>1, LineEndedFits DEF Appended
<1>2. CASE c # CR
  <2>1. c \in Text
    BY <1>2 DEF Chars, Text
  <2>2. Append(b.line, c) \in Seq(Text) /\ Len(Append(b.line, c)) = Len(b.line) + 1
    BY <2>1, AppendProperties DEF Buffered
  <2>3. Len(b.line) + 1 <= Width /\ b.count - 1 \in Int /\ b.count - 1 <= Width
    BY TextOutputAssumption, LenProperties DEF Buffered, Fits
  <2>. QED  BY <1>2, <2>2, <2>3 DEF Appended, Buffered
<1>. QED  BY <1>1, <1>2

LEMMA LineReplaced ==
  ASSUME NEW l, NEW n, NEW t, NEW r
  PROVE  [[line |-> l, count |-> n, sent |-> t] EXCEPT !.line = r]
           = [line |-> r, count |-> n, sent |-> t]
OBVIOUS

\* A wrap leaves room for a character.
LEMMA WrappedFits ==
  ASSUME NEW b, Buffered(b)
  PROVE  /\ Buffered(Wrapped(b)) /\ Fits(Wrapped(b))
         /\ \E p \in Seq(Text) : Len(p) <= Width /\ Wrapped(b).sent = b.sent \o Append(p, NL)
<1>. DEFINE cut == LastSpace(b.line)
<1>1. b.line \in Seq(Text) /\ Len(b.line) \in Nat /\ Len(b.line) <= Width /\ Width \in Nat /\ Width > 0
  BY LenProperties, TextOutputAssumption DEF Buffered
<1>2. cut \in 0 .. Len(b.line)
  BY <1>1, LastSpaceInLine
<1>3. CASE cut = 0
  <2>1. Wrapped(b) = LineEnded(b)
    BY <1>3 DEF Wrapped
  <2>2. Len(LineEnded(b).line) = 0 /\ LineEnded(b).count = Width
    BY EmptySeq DEF LineEnded
  <2>3. Fits(LineEnded(b))
    BY <1>1, <2>2 DEF Fits
  <2>. QED  BY <1>1, <2>1, <2>3, LineEndedFits
<1>4. CASE cut # 0
  <2>. DEFINE first == SubSeq(b.line, 1, cut - 1)
              rest == SubSeq(b.line, cut + 1, Len(b.line))
  <2>1. Wrapped(b) = [line |-> rest, count |-> Width, sent |-> b.sent \o Append(first, NL)]
    <3>1. LineEnded([b EXCEPT !.line = first])
            = [line |-> <<>>, count |-> Width, sent |-> b.sent \o Append(first, NL)]
      <4>1. [b EXCEPT !.line = first] = [line |-> first, count |-> b.count, sent |-> b.sent]
        <5>. DEFINE l == b.line
                    n == b.count
                    t == b.sent
        <5>1. b = [line |-> l, count |-> n, sent |-> t]
          BY DEF Buffered
        <5>. HIDE DEF l, n, t, first
        <5>2. [b EXCEPT !.line = first] = [line |-> first, count |-> n, sent |-> t]
          BY <5>1, LineReplaced
        <5>. QED  BY <5>2 DEF n, t
      <4>. DEFINE f == [b EXCEPT !.line = first]
      <4>2. f.line = first /\ f.sent = b.sent
        BY <4>1
      <4>. HIDE DEF f, first
      <4>3. LineEnded(f) = [line |-> <<>>, count |-> Width, sent |-> b.sent \o Append(first, NL)]
        BY <4>2 DEF LineEnded
      <4>. QED  BY <4>3 DEF f
    <3>2. Wrapped(b) = [LineEnded([b EXCEPT !.line = first]) EXCEPT !.line = rest]
      BY <1>4 DEF Wrapped
    <3>. DEFINE t == b.sent \o Append(first, NL)
                f == LineEnded([b EXCEPT !.line = first])
    <3>3. f = [line |-> <<>>, count |-> Width, sent |-> t] /\ Wrapped(b) = [f EXCEPT !.line = rest]
      BY <3>1, <3>2
    <3>. HIDE DEF first, rest, t, f
    <3>4. Wrapped(b) = [line |-> rest, count |-> Width, sent |-> t]
      BY <3>3, LineReplaced
    <3>. QED  BY <3>4 DEF t
  <2>2. \A i \in 1 .. Len(b.line) : b.line[i] \in Text
    BY <1>1, ElementOfSeq
  <2>3. rest \in Seq(Text) /\ Len(rest) < Width
    <3>1. cut + 1 \in Int /\ Len(b.line) \in Int /\ \A i \in cut + 1 .. Len(b.line) : b.line[i] \in Text
      BY <1>1, <1>2, <2>2
    <3>2. rest \in Seq(Text)
          /\ Len(rest) = IF cut + 1 <= Len(b.line) THEN Len(b.line) - (cut + 1) + 1 ELSE 0
      BY <3>1, SubSeqProperties
    <3>. HIDE DEF rest, cut
    <3>. QED  BY <1>1, <1>2, <1>4, <3>2
  <2>4. first \in Seq(Text) /\ Len(first) <= Width
    <3>1. 1 \in Int /\ cut - 1 \in Int /\ \A i \in 1 .. cut - 1 : b.line[i] \in Text
      BY <1>1, <1>2, <2>2
    <3>2. first \in Seq(Text) /\ Len(first) = IF 1 <= cut - 1 THEN cut - 1 - 1 + 1 ELSE 0
      BY <3>1, SubSeqProperties
    <3>. HIDE DEF first, cut
    <3>. QED  BY <1>1, <1>2, <1>4, <3>2
  <2>. DEFINE sent == b.sent \o Append(first, NL)
  <2>. HIDE DEF first, rest
  <2>5. \E q \in Seq(Text) : Len(q) <= Width /\ sent = b.sent \o Append(q, NL)
    BY <2>4
  <2>6. Wrapped(b) = [line |-> rest, count |-> Width, sent |-> sent]
    BY <2>1
  <2>. HIDE DEF sent
  <2>7. Wrapped(b).line = rest /\ Wrapped(b).count = Width /\ Wrapped(b).sent = sent
    BY <2>6
  <2>8. Len(rest) <= Width /\ Width \in Int /\ Width >= 1
    BY <1>1, <2>3, LenProperties
  <2>9. Buffered(Wrapped(b)) /\ Fits(Wrapped(b))
    BY <2>3, <2>6, <2>7, <2>8 DEF Buffered, Fits
  <2>. QED  BY <2>5, <2>7, <2>9
<1>. QED  BY <1>3, <1>4

-----------------------------------------------------------------------------
(* Text on the screen *)

Shown == Text \cup {NL}

\* No part of s without a line end is wider than a line; and s ends with a line's end.
Narrow(s) ==
    /\ s \in Seq(Shown)
    /\ \A i, j \in 1 .. Len(s) :
         i <= j /\ (\A k \in i .. j : s[k] # NL) => j - i + 1 <= Width
Ended(s) == Narrow(s) /\ (s # <<>> => s[Len(s)] = NL)

LEMMA TextIsShown == \A s \in Seq(Text) : s \in Seq(Shown)
<1>1. Text \subseteq Shown
  BY DEF Shown
<1>. QED  BY <1>1, SeqMonotonic

LEMMA EmptyEnded == Ended(<<>>)
BY EmptySeq DEF Ended, Narrow

LEMMA LineIsNarrow ==
  ASSUME NEW p \in Seq(Text), Len(p) <= Width
  PROVE  Narrow(p)
BY TextIsShown, LenProperties, TextOutputAssumption DEF Narrow

\* Text behind the end of a line.
LEMMA EndedAndText ==
  ASSUME NEW s, Ended(s), NEW p, Narrow(p)
  PROVE  Narrow(s \o p)
<1>. DEFINE m == Len(s)
            n == Len(p)
            t == s \o p
<1>1. s \in Seq(Shown) /\ p \in Seq(Shown) /\ m \in Nat /\ n \in Nat
  BY LenProperties DEF Ended, Narrow
<1>2. /\ t \in Seq(Shown) /\ Len(t) = m + n
      /\ \A i \in 1 .. m + n : t[i] = IF i <= m THEN s[i] ELSE p[i - m]
  BY <1>1, ConcatProperties
<1>3. m > 0 => t[m] = NL
  <2>1. ASSUME m > 0 PROVE s # <<>>
    BY <2>1
  <2>2. ASSUME m > 0 PROVE m \in 1 .. m + n
    BY <1>1, <2>2
  <2>. QED  BY <1>1, <1>2, <2>1, <2>2 DEF Ended
<1>. HIDE DEF m, n, t
<1>4. ASSUME NEW i \in 1 .. m + n, NEW j \in 1 .. m + n, i <= j,
             \A k \in i .. j : t[k] # NL
      PROVE  j - i + 1 <= Width
  <2>1. CASE j <= m
    <3>1. i \in 1 .. m /\ j \in 1 .. m
      BY <1>1, <1>4, <2>1
    <3>2. \A k \in i .. j : s[k] # NL
      <4>. TAKE k \in i .. j
      <4>1. k \in 1 .. m + n /\ k <= m
        BY <1>1, <1>4, <2>1
      <4>. QED  BY <1>2, <1>4, <4>1
    <3>. QED  BY <1>4, <3>1, <3>2 DEF Ended, Narrow, m
  <2>2. CASE i > m
    <3>1. i - m \in 1 .. n /\ j - m \in 1 .. n /\ i - m <= j - m
      BY <1>1, <1>4, <2>2
    <3>2. \A k \in i - m .. j - m : p[k] # NL
      <4>. TAKE k \in i - m .. j - m
      <4>. DEFINE h == k + m
      <4>1. h \in i .. j /\ h \in 1 .. m + n /\ ~ (h <= m) /\ h - m = k
        BY <1>1, <1>4, <2>2, <3>1
      <4>. HIDE DEF h
      <4>2. t[h] = p[h - m]
        BY <1>2, <4>1
      <4>3. t[h] # NL
        BY <1>4, <4>1
      <4>. QED  BY <4>1, <4>2, <4>3
    <3>3. (j - m) - (i - m) + 1 <= Width
      BY <3>1, <3>2 DEF Narrow, n
    <3>. QED  BY <1>1, <1>4, <3>3
  <2>3. CASE i <= m /\ j > m
    <3>1. m \in i .. j /\ m > 0
      BY <1>1, <1>4, <2>3
    <3>. QED  BY <1>3, <1>4, <3>1
  <2>. QED  BY <1>1, <1>4, <2>1, <2>2, <2>3
<1>. QED  BY <1>2, <1>4 DEF Narrow, t

\* A line and its end.
LEMMA LineAndEnd ==
  ASSUME NEW p \in Seq(Text), Len(p) <= Width
  PROVE  Ended(Append(p, NL))
<1>. DEFINE s == Append(p, NL)
            n == Len(p)
<1>1. n \in Nat /\ p \in Seq(Shown) /\ NL \in Shown
  BY LenProperties, TextIsShown DEF Shown
<1>2. /\ s \in Seq(Shown) /\ Len(s) = n + 1 /\ s # <<>>
      /\ s[n + 1] = NL
  BY <1>1, AppendProperties
<1>. HIDE DEF s
<1>3. ASSUME NEW i \in 1 .. n + 1, NEW j \in 1 .. n + 1, i <= j,
             \A k \in i .. j : s[k] # NL
      PROVE  j - i + 1 <= Width
  <2>1. j # n + 1
    BY <1>2, <1>3
  <2>. QED  BY <1>1, <1>3, <2>1, TextOutputAssumption
<1>. QED  BY <1>2, <1>3 DEF Ended, Narrow, s

\* The line end behind text that has ended.
LEMMA EndedAgain ==
  ASSUME NEW s, Ended(s), NEW p \in Seq(Text), Len(p) <= Width
  PROVE  Ended(s \o Append(p, NL))
<1>. DEFINE e == Append(p, NL)
<1>1. Ended(e)
  BY LineAndEnd
<1>2. Narrow(s \o e)
  BY <1>1, EndedAndText DEF Ended
<1>3. s \in Seq(Shown) /\ e \in Seq(Shown) /\ Len(s) \in Nat /\ Len(e) \in Nat
  BY <1>1, LenProperties DEF Ended, Narrow
<1>4. Len(e) = Len(p) + 1 /\ Len(p) \in Nat /\ e # <<>>
  BY TextIsShown, AppendProperties, LenProperties DEF Shown
<1>. HIDE DEF e
<1>5. /\ Len(s \o e) = Len(s) + Len(e)
      /\ \A i \in 1 .. Len(s) + Len(e) : (s \o e)[i] = IF i <= Len(s) THEN s[i] ELSE e[i - Len(s)]
  BY <1>3, ConcatProperties
<1>6. /\ Len(s) + Len(e) \in 1 .. Len(s) + Len(e) /\ ~ (Len(s) + Len(e) <= Len(s))
      /\ Len(s) + Len(e) - Len(s) = Len(e)
  BY <1>3, <1>4
<1>7. (s \o e)[Len(s \o e)] = e[Len(e)]
  BY <1>5, <1>6
<1>. QED  BY <1>1, <1>2, <1>4, <1>7 DEF Ended, e

\* So the whole lines of such a text are narrow.
LEMMA NarrowLines ==
  ASSUME NEW s, Narrow(s), NEW l \in WholeLines(s), \A i \in DOMAIN l : l[i] # NL
  PROVE  Len(l) <= Width
<1>1. s \in Seq(Shown) /\ DOMAIN s = 1 .. Len(s) /\ Len(s) \in Nat
  BY LenProperties DEF Narrow
<1>2. PICK i \in DOMAIN s, j \in DOMAIN s : l = SubSeq(s, i, j)
  BY DEF WholeLines
<1>3. i \in 1 .. Len(s) /\ j \in 1 .. Len(s) /\ i \in Int /\ j \in Int
  BY <1>1, <1>2
<1>4. \A k \in i .. j : s[k] \in Shown
  BY <1>1, <1>3, ElementOfSeq
<1>5. /\ l \in Seq(Shown) /\ Len(l) = IF i <= j THEN j - i + 1 ELSE 0
      /\ \A k \in 1 .. j - i + 1 : l[k] = s[i + k - 1]
  BY <1>2, <1>3, <1>4, SubSeqProperties
<1>6. CASE i <= j
  <2>1. DOMAIN l = 1 .. j - i + 1
    BY <1>5, <1>6, LenProperties
  <2>2. \A k \in i .. j : s[k] # NL
    <3>. TAKE k \in i .. j
    <3>1. k - i + 1 \in 1 .. j - i + 1 /\ i + (k - i + 1) - 1 = k
      BY <1>3
    <3>. QED  BY <1>5, <2>1, <3>1
  <2>. QED  BY <1>3, <1>5, <1>6, <2>2 DEF Narrow
<1>7. CASE ~ (i <= j)
  BY <1>5, <1>7, TextOutputAssumption
<1>. QED  BY <1>6, <1>7

-----------------------------------------------------------------------------
(* A character formatted *)

LEMMA AppendedEnds ==
  ASSUME NEW b, Buffered(b), Ended(b.sent), Fits(b), NEW c \in Chars
  PROVE  Buffered(Appended(b, c)) /\ Ended(Appended(b, c).sent)
<1>1. Buffered(Appended(b, c))
  BY AppendedFits
<1>2. CASE c = CR
  <2>1. Appended(b, c) = LineEnded(b) /\ LineEnded(b).sent = b.sent \o Append(b.line, NL)
    BY <1>2, LineEndedFits DEF Appended
  <2>2. Ended(b.sent \o Append(b.line, NL))
    BY EndedAgain DEF Buffered
  <2>. QED  BY <1>1, <2>1, <2>2
<1>3. CASE c # CR
  <2>1. Appended(b, c).sent = b.sent
    BY <1>3 DEF Appended, Buffered
  <2>. QED  BY <1>1, <2>1
<1>. QED  BY <1>2, <1>3

\* Whatever comes, the buffer keeps its two limits, and whole lines leave it.
LEMMA FormattedEnds ==
  ASSUME NEW b, Buffered(b), Ended(b.sent), NEW c \in Chars
  PROVE  Buffered(Formatted(b, c)) /\ Ended(Formatted(b, c).sent)
<1>1. CASE Fits(b)
  <2>1. Formatted(b, c) = Appended(b, c)
    BY <1>1 DEF Formatted
  <2>. QED  BY <1>1, <2>1, AppendedEnds
<1>2. CASE ~Fits(b) /\ c = SP
  <2>1. Formatted(b, c) = LineEnded(b)
    BY <1>2 DEF Formatted
  <2>2. Ended(b.sent \o Append(b.line, NL))
    BY EndedAgain DEF Buffered
  <2>. QED  BY <2>1, <2>2, LineEndedFits
<1>3. CASE ~Fits(b) /\ c # SP
  <2>1. Formatted(b, c) = Appended(Wrapped(b), c)
    BY <1>3 DEF Formatted
  <2>2. Buffered(Wrapped(b)) /\ Fits(Wrapped(b))
    BY WrappedFits
  <2>3. PICK p \in Seq(Text) : Len(p) <= Width /\ Wrapped(b).sent = b.sent \o Append(p, NL)
    BY WrappedFits
  <2>4. Ended(Wrapped(b).sent)
    BY <2>3, EndedAgain
  <2>. DEFINE w == Wrapped(b)
  <2>5. Buffered(w) /\ Fits(w) /\ Ended(w.sent) /\ Formatted(b, c) = Appended(w, c)
    BY <2>1, <2>2, <2>4
  <2>. HIDE DEF w
  <2>. QED  BY <2>5, AppendedEnds
<1>. QED  BY <1>1, <1>2, <1>3

LEMMA BufferEnds ==
  ASSUME BufferInv
  PROVE  Buffered(Buffer) /\ Ended(Buffer.sent)
<1>1. Buffer.line = line /\ Buffer.count = char_count /\ Buffer.sent = <<>>
      /\ Buffer = [line |-> Buffer.line, count |-> Buffer.count, sent |-> Buffer.sent]
  BY DEF Buffer
<1>. DEFINE b == Buffer
<1>2. b.line = line /\ b.count = char_count /\ b.sent = <<>>
      /\ b = [line |-> b.line, count |-> b.count, sent |-> b.sent]
  BY <1>1
<1>. HIDE DEF b
<1>3. Buffered(b) /\ Ended(b.sent)
  BY <1>2, EmptyEnded DEF BufferInv, Buffered
<1>. QED  BY <1>3 DEF b

LEMMA PutsNarrow ==
  ASSUME NEW s, Narrow(s), Puts(s)
  PROVE  Narrow(shown')
<1>1. shown' = s \/ shown' = <<>>
  BY DEF Puts
<1>. QED  BY <1>1, EmptyEnded DEF Ended

LEMMA SetBufferKeeps ==
  ASSUME NEW b, Buffered(b), Ended(b.sent), SetBuffer(b)
  PROVE  BufferInv' /\ Narrow(shown')
<1>1. Narrow(b.sent) /\ Puts(b.sent) /\ line' = b.line /\ char_count' = b.count
  BY DEF SetBuffer, Ended
<1>2. Narrow(shown')
  BY <1>1, PutsNarrow
<1>3. BufferInv'
  BY <1>1 DEF Buffered, BufferInv
<1>. QED  BY <1>2, <1>3

LEMMA FlushKeeps ==
  ASSUME BufferInv, NEW flag \in BOOLEAN, flush_buffer(flag)
  PROVE  BufferInv' /\ Narrow(shown')
<1>1. Narrow(line)
  BY LineIsNarrow DEF BufferInv
<1>2. Puts(line) /\ line' = <<>> /\ (char_count' = Width \/ char_count' = char_count)
  BY DEF flush_buffer
<1>3. Narrow(shown')
  BY <1>1, <1>2, PutsNarrow
<1>4. BufferInv'
  BY <1>2, EmptySeq, TextOutputAssumption DEF BufferInv
<1>. QED  BY <1>3, <1>4

LEMMA NothingNarrow == PutsNothing => Narrow(shown')
BY EmptyEnded DEF PutsNothing, Ended

-----------------------------------------------------------------------------
(* The tables *)

\* The characters of a table have cells of their own.
LEMMA CellOfText ==
  ASSUME NEW t \in Tables, NEW n \in Nat, n < TableRoom
  PROVE  t + 2 + n \in Cells /\ t + 2 + n \notin Tables
<1>1. t \in Nat /\ TableRoom \in Nat
  BY TextOutputAssumption
<1>2. t + 2 + n \in t + 2 .. t + 1 + TableRoom
  BY <1>1
<1>3. ASSUME t + 2 + n \in Tables  PROVE FALSE
  <2>. DEFINE u == t + 2 + n
  <2>1. u \in Tables /\ t < u /\ u < t + 2 + TableRoom
    BY <1>1, <1>3
  <2>. HIDE DEF u
  <2>2. u \in Nat /\ t + 2 + TableRoom <= u
    BY <2>1, TextOutputAssumption
  <2>. QED  BY <1>1, <2>1, <2>2
<1>. QED  BY <1>2, <1>3 DEF Cells

LEMMA CellOfCount == \A t \in Tables : t \in Cells
BY DEF Cells

LEMMA RedirectedKeeps ==
  ASSUME Inv, NEW c \in Chars, Redirected(c)
  PROVE  Inv' /\ Narrow(shown')
<1>1. /\ redirect_depth > 0 /\ story_count < TableRoom
      /\ memory' = [memory EXCEPT ![story_pos] = c]
      /\ story_pos' = story_pos + 1 /\ story_count' = story_count + 1
      /\ UNCHANGED <<buffer, modes, redirect_depth, stash, story_buffer>> /\ PutsNothing
  BY DEF Redirected
<1>2. /\ story_buffer \in Tables /\ story_count \in Nat
      /\ story_pos = story_buffer + 2 + story_count
      /\ story_buffer \in Nat /\ TableRoom \in Nat
  BY <1>1, TextOutputAssumption DEF Inv, StashInv, IsTable
<1>3. story_pos \in Cells /\ story_pos \notin Tables
  BY <1>1, <1>2, CellOfText
<1>4. IsTable(story_buffer, story_pos, story_count)'
  BY <1>1, <1>2 DEF IsTable
<1>5. StashInv'
  <2>1. redirect_depth' = redirect_depth /\ stash' = stash /\ story_buffer' = story_buffer
    BY <1>1
  <2>2. story_pos' \in Int /\ story_count' \in Int
    BY <1>1, <1>2
  <2>. QED  BY <2>1, <2>2, <1>4 DEF Inv, StashInv
<1>6. Contents(memory')
  <2>1. /\ DOMAIN memory' = Cells
        /\ \A a \in Cells : memory'[a] = IF a = story_pos THEN c ELSE memory[a]
    BY <1>1, <1>3 DEF Inv, Contents
  <2>2. memory' = [a \in Cells |-> memory'[a]]
    BY <1>1, <1>3 DEF Inv, Contents
  <2>3. \A a \in Cells : IF a \in Tables THEN memory'[a] \in 0 .. TableRoom ELSE memory'[a] \in Chars
    BY <1>3, <2>1 DEF Inv, Contents
  <2>. QED  BY <2>1, <2>2, <2>3 DEF Contents
<1>7. BufferInv' /\ ModesInv'
  BY <1>1 DEF Inv, BufferInv, ModesInv, buffer, modes
<1>8. Narrow(shown')
  BY <1>1, NothingNarrow
<1>. QED  BY <1>5, <1>6, <1>7, <1>8 DEF Inv

LEMMA SelectKeeps ==
  ASSUME Inv, NEW t \in Tables, SelectTable(t)
  PROVE  Inv' /\ Narrow(shown')
<1>1. /\ redirect_depth' = redirect_depth + 1 /\ story_count' = 0
      /\ story_buffer' = t /\ story_pos' = t + 2 /\ PutsNothing
      /\ UNCHANGED <<buffer, outputting, scripting_disable, screen_window, memory>>
  BY DEF SelectTable
<1>2. /\ redirect_depth \in Nat /\ stash \in Seq(Entry) /\ Len(stash) \in Nat
      /\ redirect_depth <= Len(stash) + 1 /\ t \in Nat /\ TableRoom \in Nat
  BY LenProperties, TextOutputAssumption DEF Inv, StashInv
<1>3. IsTable(story_buffer, story_pos, story_count)'
  BY <1>1, <1>2 DEF IsTable
<1>4. /\ stash' \in Seq(Entry) /\ redirect_depth <= Len(stash')
      /\ \A i \in 1 .. redirect_depth :
            IsTable(stash'[i].buffer, stash'[i].pos, stash'[i].count)
  <2>1. CASE redirect_depth = 0
    BY <1>2, <2>1, LenProperties DEF SelectTable
  <2>2. CASE redirect_depth # 0
    <3>. DEFINE e == [pos |-> story_pos, buffer |-> story_buffer, count |-> story_count]
                d == redirect_depth - 1
                below == SubSeq(stash, 1, d)
    <3>1. stash' = below \o <<e>>
      BY <2>2 DEF SelectTable
    <3>2. e \in Entry /\ e.buffer = story_buffer /\ e.pos = story_pos /\ e.count = story_count
      BY DEF Inv, StashInv, Entry
    <3>3. IsTable(story_buffer, story_pos, story_count)
      BY <1>2, <2>2 DEF Inv, StashInv
    <3>4. d \in Nat /\ d + 1 = redirect_depth /\ d <= Len(stash)
      BY <1>2, <2>2
    <3>5. \A i \in 1 .. d : IsTable(stash[i].buffer, stash[i].pos, stash[i].count)
      BY DEF Inv, StashInv
    <3>. HIDE DEF e, d
    <3>6. 1 \in Int /\ d \in Int /\ \A i \in 1 .. d : stash[i] \in Entry
      <4>1. \A i \in 1 .. d : i \in 1 .. Len(stash)
        BY <1>2, <3>4
      <4>. QED  BY <1>2, <3>4, <4>1, ElementOfSeq
    <3>7. /\ below \in Seq(Entry) /\ Len(below) = IF 1 <= d THEN d - 1 + 1 ELSE 0
          /\ \A i \in 1 .. d - 1 + 1 : below[i] = stash[1 + i - 1]
      BY <3>6, SubSeqProperties
    <3>8. Len(below) = d /\ \A i \in 1 .. d : below[i] = stash[i]
      BY <3>4, <3>7
    <3>. HIDE DEF below
    <3>9. <<e>> \in Seq(Entry) /\ Len(<<e>>) = 1 /\ <<e>>[1] = e
      BY <3>2
    <3>10. /\ stash' \in Seq(Entry) /\ Len(stash') = d + 1
           /\ \A i \in 1 .. d + 1 : stash'[i] = IF i <= d THEN below[i] ELSE <<e>>[i - d]
      BY <3>1, <3>7, <3>8, <3>9, ConcatProperties
    <3>11. ASSUME NEW i \in 1 .. d + 1
           PROVE  IsTable(stash'[i].buffer, stash'[i].pos, stash'[i].count)
      <4>1. CASE i <= d
        <5>1. i \in 1 .. d
          BY <3>4, <4>1
        <5>2. stash'[i] = stash[i]
          BY <3>8, <3>10, <4>1, <5>1
        <5>. QED  BY <3>5, <5>1, <5>2
      <4>2. CASE ~ (i <= d)
        <5>1. i - d = 1
          BY <3>4, <4>2
        <5>2. stash'[i] = e
          BY <3>9, <3>10, <4>2, <5>1
        <5>. QED  BY <3>2, <3>3, <5>2
      <4>. QED  BY <4>1, <4>2
    <3>. QED  BY <3>4, <3>10, <3>11
  <2>. QED  BY <2>1, <2>2
<1>5. StashInv'
  <2>1. redirect_depth' \in Nat /\ redirect_depth' - 1 = redirect_depth
    BY <1>1, <1>2
  <2>2. redirect_depth' <= Len(stash') + 1
    BY <1>1, <1>2, <1>4, LenProperties
  <2>3. story_buffer' \in Int /\ story_pos' \in Int /\ story_count' \in Int
    BY <1>1, <1>2
  <2>. QED  BY <1>3, <1>4, <2>1, <2>2, <2>3 DEF StashInv
<1>6. ModesInv'
  <2>1. formatting' \in BOOLEAN /\ saved_formatting' \in BOOLEAN
    BY DEF SelectTable, Inv, ModesInv
  <2>. QED  BY <1>1, <2>1 DEF Inv, ModesInv
<1>7. BufferInv' /\ Contents(memory')
  BY <1>1 DEF Inv, BufferInv, buffer
<1>8. Narrow(shown')
  BY <1>1, NothingNarrow
<1>. QED  BY <1>5, <1>6, <1>7, <1>8 DEF Inv

LEMMA DeselectKeeps ==
  ASSUME Inv, DeselectTable
  PROVE  Inv' /\ Narrow(shown')
<1>1. /\ redirect_depth > 0 /\ redirect_depth' = redirect_depth - 1
      /\ memory' = [memory EXCEPT ![story_buffer] = story_count] /\ PutsNothing
      /\ UNCHANGED <<buffer, saved_formatting, outputting, scripting_disable, screen_window, stash>>
  BY DEF DeselectTable
<1>2. /\ redirect_depth \in Nat /\ stash \in Seq(Entry) /\ Len(stash) \in Nat
      /\ redirect_depth <= Len(stash) + 1
      /\ IsTable(story_buffer, story_pos, story_count)
  BY <1>1, LenProperties DEF Inv, StashInv
<1>3. /\ story_buffer' \in Int /\ story_pos' \in Int /\ story_count' \in Int
      /\ redirect_depth' > 0 => IsTable(story_buffer', story_pos', story_count')
      /\ formatting' \in BOOLEAN
  <2>1. CASE redirect_depth = 1
    BY <1>1, <2>1 DEF DeselectTable, Inv, StashInv, ModesInv
  <2>2. CASE redirect_depth # 1
    <3>. DEFINE d == redirect_depth - 1
                s == stash[d]
    <3>1. story_pos' = s.pos /\ story_buffer' = s.buffer /\ story_count' = s.count
          /\ formatting' = formatting
      BY <2>2 DEF DeselectTable
    <3>2. d \in 1 .. Len(stash) /\ d \in 1 .. redirect_depth - 1
      BY <1>1, <1>2, <2>2
    <3>. HIDE DEF d
    <3>3. s \in Entry
      BY <1>2, <3>2, ElementOfSeq
    <3>4. IsTable(s.buffer, s.pos, s.count)
      BY <3>2 DEF Inv, StashInv
    <3>. HIDE DEF s
    <3>5. s.pos \in Int /\ s.buffer \in Int /\ s.count \in Int
      BY <3>3 DEF Entry
    <3>. QED  BY <3>1, <3>4, <3>5 DEF Inv, ModesInv
  <2>. QED  BY <2>1, <2>2
<1>4. StashInv'
  <2>1. redirect_depth' \in Nat /\ redirect_depth' <= Len(stash') + 1 /\ stash' = stash
    BY <1>1, <1>2
  <2>2. \A i \in 1 .. redirect_depth' - 1 : i \in 1 .. redirect_depth - 1
    BY <1>1, <1>2
  <2>. QED  BY <1>3, <2>1, <2>2 DEF Inv, StashInv
<1>5. story_buffer \in Cells /\ story_buffer \in Tables /\ story_count \in 0 .. TableRoom
  BY <1>2, CellOfCount DEF IsTable
<1>6. Contents(memory')
  <2>1. /\ DOMAIN memory' = Cells
        /\ \A a \in Cells : memory'[a] = IF a = story_buffer THEN story_count ELSE memory[a]
    BY <1>1, <1>5 DEF Inv, Contents
  <2>2. memory' = [a \in Cells |-> memory'[a]]
    BY <1>1, <1>5 DEF Inv, Contents
  <2>3. \A a \in Cells : IF a \in Tables THEN memory'[a] \in 0 .. TableRoom ELSE memory'[a] \in Chars
    BY <1>5, <2>1 DEF Inv, Contents
  <2>. QED  BY <2>1, <2>2, <2>3 DEF Contents
<1>7. BufferInv' /\ ModesInv'
  BY <1>1, <1>3 DEF Inv, BufferInv, ModesInv, buffer
<1>8. Narrow(shown')
  BY <1>1, NothingNarrow
<1>. QED  BY <1>4, <1>6, <1>7, <1>8 DEF Inv

LEMMA StoryFileContents == Contents(StoryFileCells)
<1>1. TableRoom \in Nat
  BY TextOutputAssumption
<1>. QED  BY <1>1 DEF Contents, StoryFileCells, Chars

-----------------------------------------------------------------------------
(* The steps *)

LEMMA InitInv == Init => Inv
<1>. SUFFICES ASSUME Init  PROVE Inv
  OBVIOUS
<1>1. BufferInv
  BY EmptySeq, TextOutputAssumption DEF Init, BufferInv
<1>2. ModesInv
  BY DEF Init, ModesInv, Windows
<1>3. StashInv
  BY EmptySeq DEF Init, StashInv
<1>4. Contents(memory)
  BY StoryFileContents DEF Init
<1>. QED  BY <1>1, <1>2, <1>3, <1>4 DEF Inv

\* What leaves the tables alone.
LEMMA SameTables ==
  ASSUME Inv, UNCHANGED redirection
  PROVE  StashInv' /\ Contents(memory')
BY DEF Inv, StashInv, IsTable, redirection

LEMMA SameModes ==
  ASSUME Inv, UNCHANGED modes
  PROVE  ModesInv'
BY DEF Inv, ModesInv, modes

\* Every step keeps the invariant, and what a step shows while words are
\* wrapped has no line wider than the screen.
LEMMA NextKeeps ==
  ASSUME Inv, Next
  PROVE  Inv' /\ (formatting => Narrow(shown'))
<1>1. ASSUME NEW c \in Chars, write_char(c)
      PROVE  Inv' /\ (formatting => Narrow(shown'))
  <2>1. CASE Redirected(c)
    BY <2>1, RedirectedKeeps
  <2>2. CASE /\ redirect_depth = 0 /\ formatting /\ screen_window = TEXT_WINDOW
             /\ SetBuffer(Formatted(Buffer, c))
             /\ UNCHANGED <<modes, redirection>>
    <3>1. Buffered(Formatted(Buffer, c)) /\ Ended(Formatted(Buffer, c).sent)
      BY BufferEnds, FormattedEnds DEF Inv
    <3>2. BufferInv' /\ Narrow(shown')
      BY <2>2, <3>1, SetBufferKeeps
    <3>. QED  BY <2>2, <3>2, SameTables, SameModes DEF Inv
  <2>3. CASE /\ redirect_depth = 0 /\ ~(formatting /\ screen_window = TEXT_WINDOW)
             /\ Puts(<<c>>)
             /\ UNCHANGED <<buffer, modes, redirection>>
    <3>1. BufferInv'
      BY <2>3 DEF Inv, BufferInv, buffer
    <3>2. ASSUME formatting  PROVE shown' = <<>>
      BY <2>3, <3>2 DEF Puts
    <3>3. formatting => Narrow(shown')
      BY <3>2, EmptyEnded DEF Ended
    <3>. QED  BY <2>3, <3>1, <3>3, SameTables, SameModes DEF Inv
  <2>. QED  BY <1>1, <2>1, <2>2, <2>3 DEF write_char
<1>2. ASSUME z_new_line  PROVE Inv' /\ Narrow(shown')
  <2>1. CASE Redirected(CR)
    BY <2>1, RedirectedKeeps DEF Chars
  <2>2. CASE /\ SetBuffer(LineEnded(Buffer)) /\ UNCHANGED <<modes, redirection>>
    <3>1. Buffered(Buffer) /\ Ended(Buffer.sent)
      BY BufferEnds DEF Inv
    <3>2. Buffered(LineEnded(Buffer)) /\ LineEnded(Buffer).sent = Buffer.sent \o Append(Buffer.line, NL)
      BY LineEndedFits
    <3>3. Ended(LineEnded(Buffer).sent)
      BY <3>1, <3>2, EndedAgain DEF Buffered
    <3>4. BufferInv' /\ Narrow(shown')
      BY <2>2, <3>2, <3>3, SetBufferKeeps
    <3>. QED  BY <2>2, <3>4, SameTables, SameModes DEF Inv
  <2>. QED  BY <1>2, <2>1, <2>2 DEF z_new_line
<1>3. ASSUME NEW w \in Windows, z_set_window(w)  PROVE Inv' /\ Narrow(shown')
  <2>1. flush_buffer(FALSE) /\ UNCHANGED redirection
    BY <1>3 DEF z_set_window
  <2>2. BufferInv' /\ Narrow(shown')
    BY <2>1, FlushKeeps DEF Inv
  <2>3. /\ screen_window' = w /\ formatting' = (w = TEXT_WINDOW)
        /\ scripting_disable' = (w = STATUS_WINDOW)
        /\ UNCHANGED <<saved_formatting, outputting>>
    BY <1>3 DEF z_set_window
  <2>4. ModesInv'
    BY <2>3 DEF Inv, ModesInv
  <2>. QED  BY <2>1, <2>2, <2>4, SameTables DEF Inv
<1>4. ASSUME NEW b \in BOOLEAN, z_buffer_mode(b)  PROVE Inv' /\ Narrow(shown')
  <2>1. flush_buffer(FALSE) /\ UNCHANGED redirection
    BY <1>4 DEF z_buffer_mode
  <2>2. BufferInv' /\ Narrow(shown')
    BY <2>1, FlushKeeps DEF Inv
  <2>3. ModesInv'
    BY <1>4 DEF z_buffer_mode, Inv, ModesInv
  <2>. QED  BY <2>1, <2>2, <2>3, SameTables DEF Inv
<1>5. ASSUME NEW b \in BOOLEAN, SelectScreen(b)  PROVE Inv' /\ Narrow(shown')
  <2>1. PutsNothing /\ UNCHANGED redirection /\ UNCHANGED buffer
    BY <1>5 DEF SelectScreen
  <2>2. BufferInv' /\ Narrow(shown')
    BY <2>1, NothingNarrow DEF Inv, BufferInv, buffer
  <2>3. ModesInv'
    BY <1>5 DEF SelectScreen, Inv, ModesInv
  <2>. QED  BY <2>1, <2>2, <2>3, SameTables DEF Inv
<1>6. ASSUME z_erase_window  PROVE Inv' /\ Narrow(shown')
  BY <1>6, FlushKeeps, SameTables, SameModes DEF z_erase_window, Inv
<1>7. ASSUME z_read_char  PROVE Inv' /\ Narrow(shown')
  BY <1>7, FlushKeeps, SameTables, SameModes DEF z_read_char, Inv
<1>8. ASSUME z_sread_aread  PROVE Inv' /\ Narrow(shown')
  <2>1. /\ line' = <<>> /\ char_count' = Width /\ UNCHANGED <<modes, redirection>>
        /\ shown' = (IF outputting /\ screen_window = TEXT_WINDOW THEN line ELSE <<>>) \o <<NL>>
    BY <1>8 DEF z_sread_aread
  <2>2. BufferInv'
    BY <2>1, EmptySeq, TextOutputAssumption DEF BufferInv
  <2>3. \E p \in Seq(Text) : Len(p) <= Width /\ shown' = p \o <<NL>>
    <3>. DEFINE q == IF outputting /\ screen_window = TEXT_WINDOW THEN line ELSE <<>>
    <3>1. line \in Seq(Text) /\ Len(line) <= Width /\ <<>> \in Seq(Text) /\ Len(<<>>) <= Width
      BY EmptySeq, TextOutputAssumption DEF Inv, BufferInv
    <3>2. q = line \/ q = <<>>
      OBVIOUS
    <3>3. shown' = q \o <<NL>>
      BY <2>1
    <3>. HIDE DEF q
    <3>. QED  BY <3>1, <3>2, <3>3
  <2>4. PICK p \in Seq(Text) : Len(p) <= Width /\ shown' = p \o <<NL>>
    BY <2>3
  <2>5. p \o <<NL>> = Append(p, NL)
    <3>1. p \in Seq(Shown) /\ NL \in Shown
      BY TextIsShown DEF Shown
    <3>. QED  BY <3>1, AppendIsConcat
  <2>6. Narrow(shown')
    BY <2>4, <2>5, LineAndEnd DEF Ended
  <2>. QED  BY <2>1, <2>2, <2>6, SameTables, SameModes DEF Inv
<1>9. ASSUME z_restart  PROVE Inv' /\ Narrow(shown')
  <2>1. flush_buffer(TRUE)
    BY <1>9 DEF z_restart
  <2>2. BufferInv' /\ Narrow(shown')
    BY <2>1, FlushKeeps DEF Inv
  <2>3. /\ formatting' = TRUE /\ outputting' = TRUE /\ scripting_disable' = FALSE
        /\ redirect_depth' = 0 /\ memory' = StoryFileCells
        /\ UNCHANGED <<saved_formatting, screen_window, stash, story_buffer, story_pos, story_count>>
    BY <1>9 DEF z_restart
  <2>4. ModesInv'
    BY <2>3 DEF Inv, ModesInv
  <2>5. StashInv'
    <3>1. 0 <= Len(stash) + 1
      BY LenProperties DEF Inv, StashInv
    <3>. QED  BY <2>3, <3>1 DEF Inv, StashInv
  <2>6. Contents(memory')
    BY <2>3, StoryFileContents
  <2>. QED  BY <2>2, <2>4, <2>5, <2>6 DEF Inv
<1>. QED  BY <1>1, <1>2, <1>3, <1>4, <1>5, <1>6, <1>7, <1>8, <1>9, SelectKeeps, DeselectKeeps
          DEF Next

LEMMA StutterKeeps ==
  ASSUME Inv, UNCHANGED vars
  PROVE  Inv'
BY SameTables, SameModes DEF Inv, BufferInv, vars, buffer

-----------------------------------------------------------------------------
(* Theorems *)

\* The two limits of the line buffer and the entries of the stash hold in every
\* reachable state.
THEOREM Invariance == Spec => []Inv
<1>1. Inv /\ [Next]_vars => Inv'
  BY NextKeeps, StutterKeeps
<1>. QED  BY InitInv, <1>1, PTL DEF Spec

\* The line buffer does not overflow, every outer table has its stash entry, and
\* the text of a table stays in its room: flush_buffer, output_char, mem_stream_open
\* and mem_stream_close.
THEOREM TypeCorrect == Spec => []TypeOK
<1>1. Inv => TypeOK
  <2>. SUFFICES ASSUME Inv  PROVE TypeOK
    OBVIOUS
  <2>1. line \in BoundedSeq(Letters \cup {SP}, Width)
    BY TextOutputAssumption, LenProperties DEF Inv, BufferInv, BoundedSeq, SeqOf, Text
  <2>2. redirect_depth \in 0 .. Len(stash) + 1
    BY LenProperties DEF Inv, StashInv
  <2>3. redirect_depth > 0 => story_buffer \in Tables /\ story_pos = story_buffer + 2 + story_count
    BY DEF Inv, StashInv, IsTable
  <2>. QED  BY <2>1, <2>2, <2>3 DEF Inv, BufferInv, ModesInv, Contents, TypeOK
<1>. QED  BY Invariance, <1>1, PTL

\* A line that begins at the left of the screen and gets its text through the
\* buffer does not pass the right margin, whatever is printed and switched in
\* between: output_char wraps on either of the buffer's two limits.
THEOREM LinesStayInMargin == Spec => LinesFit
<1>. DEFINE Fit == \A l \in WholeLines(shown') : (\A i \in DOMAIN l : l[i] # NL) => Len(l) <= Width
            A == formatting /\ ~midline => Fit
<1>1. Inv /\ [Next]_vars => [A]_vars
  <2>1. ASSUME Inv, Next, formatting  PROVE Fit
    <3>1. Narrow(shown')
      BY <2>1, NextKeeps
    <3>. QED  BY <3>1, NarrowLines
  <2>. QED  BY <2>1
<1>. QED  BY Invariance, <1>1, PTL DEF Spec, LinesFit

-----------------------------------------------------------------------------
(* Recursion along a sequence *)

LEMMA FrontAndLast ==
  ASSUME NEW C, NEW t \in Seq(C), NEW c \in C
  PROVE  /\ Append(t, c) \in Seq(C) /\ Append(t, c) # <<>> /\ Len(Append(t, c)) = Len(t) + 1
         /\ Front(Append(t, c)) = t /\ Last(Append(t, c)) = c
<1>. DEFINE s == Append(t, c)
            n == Len(t)
<1>1. /\ s \in Seq(C) /\ s # <<>> /\ Len(s) = n + 1 /\ n \in Nat
      /\ s[n + 1] = c /\ \A i \in 1 .. n : s[i] = t[i]
  BY AppendProperties, LenProperties
<1>2. \A i \in 1 .. n : s[i] \in C
  BY <1>1, ElementOfSeq
<1>3. \A i \in 1 .. n : 1 + i - 1 = i
  BY <1>1
<1>. DEFINE f == SubSeq(s, 1, n)
<1>4. f \in Seq(C) /\ Len(f) = n /\ \A i \in 1 .. n : f[i] = s[i]
  <2>1. 1 \in Int /\ n \in Int
    BY <1>1
  <2>. HIDE DEF s, n
  <2>2. /\ f \in Seq(C) /\ Len(f) = IF 1 <= n THEN n - 1 + 1 ELSE 0
        /\ \A i \in 1 .. n - 1 + 1 : f[i] = s[1 + i - 1]
    BY <2>1, <1>2, SubSeqProperties
  <2>. QED  BY <1>1, <1>3, <2>2
<1>. HIDE DEF s, f
<1>5. f = t
  BY <1>1, <1>4, SeqEqual
<1>6. Len(s) - 1 = n
  BY <1>1
<1>. HIDE DEF n
<1>7. Front(s) = f /\ Last(s) = c
  BY <1>1, <1>6 DEF Front, Last, f
<1>. QED  BY <1>1, <1>5, <1>7 DEF s, n

LEMMA FrontOfLonger ==
  ASSUME NEW C, NEW t \in Seq(C), t # <<>>
  PROVE  /\ Front(t) \in Seq(C) /\ Last(t) \in C /\ Append(Front(t), Last(t)) = t
         /\ Len(Front(t)) = Len(t) - 1
<1>. DEFINE n == Len(t)
            f == SubSeq(t, 1, n - 1)
<1>1. n \in Nat /\ n > 0 /\ \A i \in 1 .. n : t[i] \in C
  BY LenProperties, ElementOfSeq, EmptySeq
<1>2. f \in Seq(C) /\ Len(f) = n - 1 /\ \A i \in 1 .. n - 1 : f[i] = t[i]
  <2>1. 1 \in Int /\ n - 1 \in Int /\ \A i \in 1 .. n - 1 : t[i] \in C /\ 1 + i - 1 = i
    BY <1>1
  <2>. HIDE DEF n
  <2>2. /\ f \in Seq(C) /\ Len(f) = IF 1 <= n - 1 THEN n - 1 - 1 + 1 ELSE 0
        /\ \A i \in 1 .. n - 1 - 1 + 1 : f[i] = t[1 + i - 1]
    BY <2>1, SubSeqProperties
  <2>. QED  BY <1>1, <2>1, <2>2
<1>3. Front(t) = f /\ Last(t) = t[n]
  BY DEF Front, Last
<1>. HIDE DEF f
<1>. DEFINE s == Append(f, t[n])
<1>4. /\ s \in Seq(C) /\ Len(s) = n /\ s[n] = t[n] /\ t[n] \in C
      /\ \A i \in 1 .. n - 1 : s[i] = t[i]
  <2>1. t[n] \in C
    BY <1>1
  <2>2. s \in Seq(C) /\ Len(s) = Len(f) + 1 /\ s[Len(f) + 1] = t[n] /\ \A i \in 1 .. Len(f) : s[i] = f[i]
    BY <1>2, <2>1, AppendProperties
  <2>. HIDE DEF n, s
  <2>. QED  BY <1>1, <1>2, <2>1, <2>2
<1>. HIDE DEF s
<1>5. s = t
  <2>1. \A i \in 1 .. n : i \in 1 .. n - 1 \/ i = n
    BY <1>1
  <2>2. \A i \in 1 .. n : s[i] = t[i]
    BY <1>4, <2>1
  <2>. QED  BY <1>4, <2>2, SeqEqual
<1>. QED  BY <1>2, <1>3, <1>4, <1>5 DEF s

\* A set with the empty sequence, and with each sequence its extensions, has all.
LEMMA AlongSequences ==
  ASSUME NEW C, NEW S, <<>> \in S,
         \A t \in Seq(C) : \A c \in C : t \in S => Append(t, c) \in S
  PROVE  Seq(C) \subseteq S
<1>. DEFINE N == {n \in Nat : \A t \in Seq(C) : Len(t) = n => t \in S}
<1>1. ASSUME NEW n \in Nat, 0 .. n - 1 \subseteq N  PROVE n \in N
  <2>1. ASSUME NEW t \in Seq(C), Len(t) = n  PROVE t \in S
    <3>1. CASE t = <<>>
      BY <3>1
    <3>2. CASE t # <<>>
      <4>1. Front(t) \in Seq(C) /\ Last(t) \in C /\ Append(Front(t), Last(t)) = t
            /\ Len(Front(t)) = n - 1
        BY <2>1, <3>2, FrontOfLonger
      <4>. DEFINE f == Front(t)
      <4>2. Len(f) \in Nat /\ Len(f) = n - 1
        BY <4>1, LenProperties
      <4>3. n - 1 \in 0 .. n - 1
        BY <4>2
      <4>4. n - 1 \in N
        BY <1>1, <4>3
      <4>5. f \in S
        BY <4>1, <4>4
      <4>. QED  BY <4>1, <4>5
    <3>. QED  BY <3>1, <3>2
  <2>. QED  BY <2>1
<1>2. Nat \subseteq N
  <2>. HIDE DEF N
  <2>. QED  BY <1>1, Ladder
<1>. QED  BY <1>2, LenProperties

\* f starts with base and adds each character.
Adds(f, C, base, add) ==
    f = [t \in Seq(C) |-> IF t = <<>> THEN base ELSE add[f[Front(t)]][Last(t)]]

LEMMA AddingExists ==
  ASSUME NEW C, NEW V, NEW base \in V, NEW add \in [V -> [C -> V]]
  PROVE  \E f \in [Seq(C) -> V] : Adds(f, C, base, add)
<1>. DEFINE D == Seq(C)
            rank == [t \in D |-> Len(t)]
            body(f, t) == IF t = <<>> THEN base ELSE add[f[Front(t)]][Last(t)]
            step == [t \in D |-> [f \in [D -> V] |-> body(f, t)]]
<1>1. rank \in [D -> Nat]
  BY LenProperties
<1>2. ASSUME NEW t \in D, t # <<>>
      PROVE  Front(t) \in D /\ Last(t) \in C /\ rank[Front(t)] < rank[t]
  <2>. DEFINE u == Front(t)
  <2>1. u \in D /\ Last(t) \in C /\ Len(u) = Len(t) - 1
    BY <1>2, FrontOfLonger
  <2>. HIDE DEF u
  <2>2. Len(u) \in Nat /\ Len(t) \in Nat
    BY <2>1, LenProperties
  <2>. QED  BY <2>1, <2>2 DEF u
<1>3. ASSUME NEW t \in D, NEW f \in [D -> V]  PROVE body(f, t) \in V
  BY <1>2
<1>4. ASSUME NEW t \in D, NEW f \in [D -> V], NEW g \in [D -> V],
             \A u \in D : rank[u] < rank[t] => f[u] = g[u]
      PROVE  body(f, t) = body(g, t)
  <2>1. CASE t = <<>>
    BY <2>1
  <2>2. CASE t # <<>>
    <3>1. f[Front(t)] = g[Front(t)]
      BY <1>2, <1>4, <2>2
    <3>. QED  BY <3>1
  <2>. QED  BY <2>1, <2>2
<1>5. \A t \in D : \A f \in [D -> V] : step[t][f] = body(f, t)
  OBVIOUS
<1>. HIDE DEF body, D
<1>6. step \in [D -> [[D -> V] -> V]]
  BY <1>3
<1>. HIDE DEF step, rank
<1>7. Falls(D, V, rank, step)
  <2>1. \A x \in D : \A f, g \in [D -> V] :
          (\A y \in D : rank[y] < rank[x] => f[y] = g[y]) => step[x][f] = step[x][g]
    <3>. SUFFICES ASSUME NEW x \in D, NEW f \in [D -> V], NEW g \in [D -> V],
                         \A y \in D : rank[y] < rank[x] => f[y] = g[y]
                  PROVE  step[x][f] = step[x][g]
      OBVIOUS
    <3>1. body(f, x) = body(g, x)
      BY <1>4
    <3>2. step[x][f] = body(f, x) /\ step[x][g] = body(g, x)
      BY <1>5
    <3>. QED  BY <3>1, <3>2
  <2>2. V # {}
    OBVIOUS
  <2>. QED  BY <1>1, <1>6, <2>1, <2>2 DEF Falls
<1>8. PICK f \in [D -> V] : \A t \in D : f[t] = step[t][f]
  BY <1>7, RecursiveEverywhere
<1>9. f = [t \in D |-> body(f, t)]
  BY <1>5, <1>8
<1>. QED  BY <1>9 DEF body, D, Adds

-----------------------------------------------------------------------------
(* Letters, words and what is written of a text *)

Symbols == Chars \cup {NL}

IsVisible(f) ==
    f = [t \in Seq(Symbols) |->
           IF t = <<>> THEN <<>>
           ELSE IF Last(t) \in Letters THEN Append(f[Front(t)], Last(t))
           ELSE f[Front(t)]]

LEMMA VisibleExists == \E f : IsVisible(f)
<1>. DEFINE V == Seq(Symbols)
            add == [x \in V |-> [c \in Symbols |-> IF c \in Letters THEN Append(x, c) ELSE x]]
<1>1. add \in [V -> [Symbols -> V]]
  BY AppendProperties
<1>2. <<>> \in V
  BY EmptySeq
<1>3. \A x \in V : \A c \in Symbols : add[x][c] = IF c \in Letters THEN Append(x, c) ELSE x
  OBVIOUS
<1>. HIDE DEF add
<1>4. PICK f \in [Seq(Symbols) -> V] : Adds(f, Symbols, <<>>, add)
  BY <1>1, <1>2, AddingExists
<1>5. \A t \in Seq(Symbols) :
        f[t] = IF t = <<>> THEN <<>>
               ELSE IF Last(t) \in Letters THEN Append(f[Front(t)], Last(t))
               ELSE f[Front(t)]
  <2>. TAKE t \in Seq(Symbols)
  <2>1. f[t] = IF t = <<>> THEN <<>> ELSE add[f[Front(t)]][Last(t)]
    BY <1>4 DEF Adds
  <2>2. t # <<>> => Front(t) \in Seq(Symbols) /\ Last(t) \in Symbols
    BY FrontOfLonger
  <2>. QED  BY <1>3, <2>1, <2>2
<1>. QED  BY <1>5 DEF IsVisible

LEMMA VisibleOf ==
  /\ Streams!Visible(<<>>) = <<>>
  /\ \A t \in Seq(Symbols) : \A c \in Symbols :
        Streams!Visible(Append(t, c)) = IF c \in Letters THEN Append(Streams!Visible(t), c)
                                        ELSE Streams!Visible(t)
<1>. DEFINE f == CHOOSE g : IsVisible(g)
<1>1. \A t : Streams!Visible(t) = f[t]
  BY DEF Streams!Visible, IsVisible, Streams!Symbols, Symbols, Streams!Chars, Chars,
         Streams!NL, NL, Streams!CR, CR, Streams!SP, SP, Streams!Letter, Streams!Front, Front,
         Streams!Last, Last
<1>2. IsVisible(f)
  BY VisibleExists
<1>. HIDE DEF f
<1>3. \A t \in Seq(Symbols) :
        f[t] = IF t = <<>> THEN <<>>
               ELSE IF Last(t) \in Letters THEN Append(f[Front(t)], Last(t))
               ELSE f[Front(t)]
  BY <1>2 DEF IsVisible
<1>4. <<>> \in Seq(Symbols)
  BY EmptySeq
<1>5. ASSUME NEW t \in Seq(Symbols), NEW c \in Symbols
      PROVE  f[Append(t, c)] = IF c \in Letters THEN Append(f[t], c) ELSE f[t]
  <2>. DEFINE s == Append(t, c)
  <2>1. s \in Seq(Symbols) /\ s # <<>> /\ Front(s) = t /\ Last(s) = c
    BY FrontAndLast
  <2>. HIDE DEF s
  <2>. QED  BY <1>3, <2>1 DEF s
<1>. QED  BY <1>1, <1>3, <1>4, <1>5

IsWritten(f) ==
    f = [t \in Seq(Symbols) |->
           IF t = <<>> THEN <<>>
           ELSE IF isprint(Last(t)) \/ Last(t) = NL THEN Append(f[Front(t)], Last(t))
           ELSE f[Front(t)]]

LEMMA WrittenExists == \E f : IsWritten(f)
<1>. DEFINE V == Seq(Symbols)
            out(c) == isprint(c) \/ c = NL
            add == [x \in V |-> [c \in Symbols |-> IF out(c) THEN Append(x, c) ELSE x]]
<1>1. add \in [V -> [Symbols -> V]]
  <2>. HIDE DEF out
  <2>. QED  BY AppendProperties
<1>2. <<>> \in V
  BY EmptySeq
<1>3. \A x \in V : \A c \in Symbols : add[x][c] = IF out(c) THEN Append(x, c) ELSE x
  OBVIOUS
<1>. HIDE DEF add
<1>4. PICK f \in [Seq(Symbols) -> V] : Adds(f, Symbols, <<>>, add)
  BY <1>1, <1>2, AddingExists
<1>. HIDE DEF out
<1>5. \A t \in Seq(Symbols) :
        f[t] = IF t = <<>> THEN <<>>
               ELSE IF out(Last(t)) THEN Append(f[Front(t)], Last(t))
               ELSE f[Front(t)]
  <2>. TAKE t \in Seq(Symbols)
  <2>1. f[t] = IF t = <<>> THEN <<>> ELSE add[f[Front(t)]][Last(t)]
    BY <1>4 DEF Adds
  <2>2. t # <<>> => Front(t) \in Seq(Symbols) /\ Last(t) \in Symbols
    BY FrontOfLonger
  <2>. QED  BY <1>3, <2>1, <2>2
<1>. QED  BY <1>5 DEF IsWritten, out

LEMMA WrittenOf ==
  /\ Written(<<>>) = <<>>
  /\ \A t \in Seq(Symbols) : \A c \in Symbols :
        Written(Append(t, c)) = IF isprint(c) \/ c = NL THEN Append(Written(t), c) ELSE Written(t)
<1>. DEFINE f == CHOOSE g : IsWritten(g)
<1>1. \A t : Written(t) = f[t]
  BY DEF Written, IsWritten, Symbols
<1>2. IsWritten(f)
  BY WrittenExists
<1>. HIDE DEF f
<1>3. \A t \in Seq(Symbols) :
        f[t] = IF t = <<>> THEN <<>>
               ELSE IF isprint(Last(t)) \/ Last(t) = NL THEN Append(f[Front(t)], Last(t))
               ELSE f[Front(t)]
  BY <1>2 DEF IsWritten
<1>4. <<>> \in Seq(Symbols)
  BY EmptySeq
<1>5. ASSUME NEW t \in Seq(Symbols), NEW c \in Symbols
      PROVE  f[Append(t, c)] = IF isprint(c) \/ c = NL THEN Append(f[t], c) ELSE f[t]
  <2>. DEFINE s == Append(t, c)
  <2>1. s \in Seq(Symbols) /\ s # <<>> /\ Front(s) = t /\ Last(s) = c
    BY FrontAndLast
  <2>. HIDE DEF s
  <2>. QED  BY <1>3, <2>1 DEF s
<1>. QED  BY <1>1, <1>3, <1>4, <1>5

\* A word's letter behind text before it, or a blank unless there is one.
WithSymbol(before, c) ==
    IF c \in Letters THEN Append(before, c)
    ELSE IF before # <<>> /\ Last(before) = SP THEN before
    ELSE Append(before, SP)

IsWords(f) ==
    f = [t \in Seq(Symbols) |-> IF t = <<>> THEN <<>> ELSE WithSymbol(f[Front(t)], Last(t))]

LEMMA WordsExist == \E f : IsWords(f)
<1>. DEFINE V == Seq(Symbols)
            add == [x \in V |-> [c \in Symbols |-> WithSymbol(x, c)]]
<1>1. \A x \in V : \A c \in Symbols : WithSymbol(x, c) \in V
  <2>1. SP \in Symbols
    BY DEF Symbols, Chars
  <2>. QED  BY <2>1, AppendProperties DEF WithSymbol
<1>2. add \in [V -> [Symbols -> V]]
  BY <1>1
<1>3. <<>> \in V
  BY EmptySeq
<1>4. \A x \in V : \A c \in Symbols : add[x][c] = WithSymbol(x, c)
  OBVIOUS
<1>. HIDE DEF add
<1>5. PICK f \in [Seq(Symbols) -> V] : Adds(f, Symbols, <<>>, add)
  BY <1>2, <1>3, AddingExists
<1>6. \A t \in Seq(Symbols) : f[t] = IF t = <<>> THEN <<>> ELSE WithSymbol(f[Front(t)], Last(t))
  <2>. TAKE t \in Seq(Symbols)
  <2>1. f[t] = IF t = <<>> THEN <<>> ELSE add[f[Front(t)]][Last(t)]
    BY <1>5 DEF Adds
  <2>2. t # <<>> => Front(t) \in Seq(Symbols) /\ Last(t) \in Symbols
    BY FrontOfLonger
  <2>. QED  BY <1>4, <2>1, <2>2
<1>. QED  BY <1>6 DEF IsWords

LEMMA WordsOf ==
  /\ Streams!Words(<<>>) = <<>>
  /\ \A t \in Seq(Symbols) : \A c \in Symbols :
        Streams!Words(Append(t, c)) = WithSymbol(Streams!Words(t), c)
<1>. DEFINE f == CHOOSE g : IsWords(g)
<1>1. \A t : Streams!Words(t) = f[t]
  BY DEF Streams!Words, IsWords, WithSymbol, Streams!Symbols, Symbols, Streams!Chars, Chars,
         Streams!NL, NL, Streams!CR, CR, Streams!SP, SP, Streams!Letter, Streams!Front, Front,
         Streams!Last, Last
<1>2. IsWords(f)
  BY WordsExist
<1>. HIDE DEF f
<1>3. \A t \in Seq(Symbols) : f[t] = IF t = <<>> THEN <<>> ELSE WithSymbol(f[Front(t)], Last(t))
  BY <1>2 DEF IsWords
<1>4. <<>> \in Seq(Symbols)
  BY EmptySeq
<1>5. ASSUME NEW t \in Seq(Symbols), NEW c \in Symbols
      PROVE  f[Append(t, c)] = WithSymbol(f[t], c)
  <2>. DEFINE s == Append(t, c)
  <2>1. s \in Seq(Symbols) /\ s # <<>> /\ Front(s) = t /\ Last(s) = c
    BY FrontAndLast
  <2>. HIDE DEF s
  <2>. QED  BY <1>3, <2>1 DEF s
<1>. QED  BY <1>1, <1>3, <1>4, <1>5

\* What is the same in words stays so when the same follows.
LEMMA SameWords ==
  ASSUME NEW s \in Seq(Symbols), NEW r \in Seq(Symbols), Streams!Words(s) = Streams!Words(r),
         NEW t \in Seq(Symbols)
  PROVE  Streams!Words(s \o t) = Streams!Words(r \o t)
<1>. DEFINE S == {u \in Seq(Symbols) : Streams!Words(s \o u) = Streams!Words(r \o u)}
<1>1. <<>> \in S
  BY EmptySeq, ConcatEmptySeq
<1>2. ASSUME NEW u \in Seq(Symbols), NEW c \in Symbols, u \in S  PROVE Append(u, c) \in S
  <2>1. s \o Append(u, c) = Append(s \o u, c) /\ r \o Append(u, c) = Append(r \o u, c)
    <3>1. Append(u, c) = u \o <<c>> /\ <<c>> \in Seq(Symbols)
      BY AppendIsConcat
    <3>2. s \o (u \o <<c>>) = (s \o u) \o <<c>> /\ r \o (u \o <<c>>) = (r \o u) \o <<c>>
      BY <3>1, ConcatAssociative
    <3>3. s \o u \in Seq(Symbols) /\ r \o u \in Seq(Symbols)
      BY ConcatProperties
    <3>. QED  BY <3>1, <3>2, <3>3, AppendIsConcat
  <2>2. s \o u \in Seq(Symbols) /\ r \o u \in Seq(Symbols) /\ Append(u, c) \in Seq(Symbols)
    BY ConcatProperties, AppendProperties
  <2>3. Streams!Words(Append(s \o u, c)) = WithSymbol(Streams!Words(s \o u), c)
        /\ Streams!Words(Append(r \o u, c)) = WithSymbol(Streams!Words(r \o u), c)
    BY <2>2, WordsOf
  <2>4. Streams!Words(s \o u) = Streams!Words(r \o u)
    BY <1>2
  <2>5. Streams!Words(Append(s \o u, c)) = Streams!Words(Append(r \o u, c))
    BY <2>3, <2>4
  <2>. QED  BY <2>1, <2>2, <2>5
<1>. HIDE DEF S
<1>3. Seq(Symbols) \subseteq S
  BY <1>1, <1>2, AlongSequences
<1>. QED  BY <1>3 DEF S

\* What shows of a text shows of what is written of it.
LEMMA VisibleSymbols ==
  \A t \in Seq(Symbols) : Streams!Visible(Written(t)) = Streams!Visible(t) /\ Written(t) \in Seq(Symbols)
<1>. DEFINE S == {u \in Seq(Symbols) : /\ Streams!Visible(Written(u)) = Streams!Visible(u)
                                       /\ Written(u) \in Seq(Symbols)}
<1>1. <<>> \in S
  BY EmptySeq, WrittenOf
<1>2. ASSUME NEW u \in Seq(Symbols), NEW c \in Symbols, u \in S  PROVE Append(u, c) \in S
  <2>1. Append(u, c) \in Seq(Symbols)
    BY AppendProperties
  <2>2. Streams!Visible(Append(u, c)) = IF c \in Letters THEN Append(Streams!Visible(u), c)
                                        ELSE Streams!Visible(u)
    BY VisibleOf
  <2>. DEFINE w == Written(u)
  <2>3. Written(Append(u, c)) = IF isprint(c) \/ c = NL THEN Append(w, c) ELSE w
    BY WrittenOf
  <2>4. w \in Seq(Symbols) /\ Streams!Visible(w) = Streams!Visible(u)
    BY <1>2
  <2>5. c \in Letters => isprint(c)
    BY DEF isprint
  <2>. HIDE DEF w
  <2>6. Append(w, c) \in Seq(Symbols)
        /\ Streams!Visible(Append(w, c)) = IF c \in Letters THEN Append(Streams!Visible(w), c)
                                           ELSE Streams!Visible(w)
    BY <2>4, VisibleOf, AppendProperties
  <2>. DEFINE v == Append(u, c)
  <2>7. CASE isprint(c) \/ c = NL
    <3>1. Written(v) = Append(w, c)
      BY <2>3, <2>7
    <3>2. Streams!Visible(Append(w, c)) = Streams!Visible(v)
      BY <2>2, <2>4, <2>6
    <3>. HIDE DEF v
    <3>. QED  BY <2>1, <2>6, <3>1, <3>2 DEF v
  <2>8. CASE ~ (isprint(c) \/ c = NL)
    <3>1. Written(v) = w
      BY <2>3, <2>8
    <3>2. Streams!Visible(w) = Streams!Visible(v)
      BY <2>2, <2>4, <2>5, <2>8
    <3>. HIDE DEF v
    <3>. QED  BY <2>1, <2>4, <3>1, <3>2 DEF v
  <2>. QED  BY <2>7, <2>8
<1>. HIDE DEF S
<1>3. Seq(Symbols) \subseteq S
  BY <1>1, <1>2, AlongSequences
<1>. QED  BY <1>3 DEF S

-----------------------------------------------------------------------------
(* The text goes on its way: no letter is lost, and blanks become line ends only *)

LEMMA TextSymbols ==
  /\ \A s \in Seq(Text) : s \in Seq(Symbols)
  /\ \A s \in Seq(Shown) : s \in Seq(Symbols)
  /\ Chars \subseteq Symbols /\ NL \in Symbols /\ SP \in Symbols /\ CR \in Symbols
  /\ NL \notin Letters /\ SP \notin Letters /\ CR \notin Letters
<1>1. Text \subseteq Symbols /\ Shown \subseteq Symbols
  BY DEF Text, Shown, Symbols, Chars
<1>2. NL \notin Letters /\ SP \notin Letters /\ CR \notin Letters
  BY TextOutputAssumption DEF NL, SP, CR
<1>. QED  BY <1>1, <1>2, SeqMonotonic DEF Symbols, Chars

\* A line with a space is cut at the last one; one without ends.
LEMMA WrappedParts ==
  ASSUME NEW b, Buffered(b)
  PROVE  \/ /\ Wrapped(b) = LineEnded(b)
            /\ \A i \in 1 .. Len(b.line) : b.line[i] # SP
         \/ \E first, rest \in Seq(Text) :
               /\ b.line = Append(first, SP) \o rest
               /\ Wrapped(b).line = rest
               /\ Wrapped(b).sent = b.sent \o Append(first, NL)
<1>. DEFINE s == b.line
            n == Len(s)
            cut == LastSpace(s)
<1>1. s \in Seq(Text) /\ n \in Nat /\ \A i \in 1 .. n : s[i] \in Text
  BY LenProperties, ElementOfSeq DEF Buffered
<1>2. cut \in 0 .. n
  BY <1>1, LastSpaceInLine
<1>3. CASE cut = 0
  <2>1. Wrapped(b) = LineEnded(b)
    BY <1>3 DEF Wrapped
  <2>. QED  BY <1>1, <1>3, <2>1, LastSpaceInLine
<1>4. CASE cut # 0
  <2>. DEFINE first == SubSeq(s, 1, cut - 1)
              rest == SubSeq(s, cut + 1, n)
              f == [b EXCEPT !.line = first]
  <2>1. f.line = first /\ f.sent = b.sent
    <3>. DEFINE l == b.line
                m == b.count
                t == b.sent
    <3>1. b = [line |-> l, count |-> m, sent |-> t]
      BY DEF Buffered
    <3>. HIDE DEF l, m, t, first
    <3>2. f = [line |-> first, count |-> m, sent |-> t]
      BY <3>1, LineReplaced
    <3>. QED  BY <3>2 DEF t
  <2>2. Wrapped(b) = [LineEnded(f) EXCEPT !.line = rest]
    BY <1>4 DEF Wrapped
  <2>. HIDE DEF f, first, rest
  <2>3. LineEnded(f) = [line |-> <<>>, count |-> Width, sent |-> b.sent \o Append(first, NL)]
    BY <2>1 DEF LineEnded
  <2>4. Wrapped(b).line = rest /\ Wrapped(b).sent = b.sent \o Append(first, NL)
    <3>. DEFINE t == b.sent \o Append(first, NL)
    <3>1. LineEnded(f) = [line |-> <<>>, count |-> Width, sent |-> t]
      BY <2>3
    <3>. HIDE DEF t
    <3>2. Wrapped(b) = [line |-> rest, count |-> Width, sent |-> t]
      BY <2>2, <3>1, LineReplaced
    <3>3. Wrapped(b).line = rest /\ Wrapped(b).sent = t
      BY <3>2
    <3>. QED  BY <3>3 DEF t
  <2>5. s[cut] = SP
    BY <1>1, <1>4, LastSpaceInLine
  <2>. DEFINE k == cut
  <2>. HIDE DEF cut, n, s
  <2>6. k \in 1 .. n
    BY <1>1, <1>2, <1>4
  <2>. HIDE DEF k
  <2>7. /\ first \in Seq(Text) /\ Len(first) = k - 1
        /\ \A i \in 1 .. k - 1 : first[i] = s[i]
    <3>1. 1 \in Int /\ k - 1 \in Int /\ \A i \in 1 .. k - 1 : s[i] \in Text /\ 1 + i - 1 = i
      BY <1>1, <2>6
    <3>2. /\ first \in Seq(Text) /\ Len(first) = IF 1 <= k - 1 THEN k - 1 - 1 + 1 ELSE 0
          /\ \A i \in 1 .. k - 1 - 1 + 1 : first[i] = s[1 + i - 1]
      BY <3>1, SubSeqProperties DEF first, k
    <3>. QED  BY <1>1, <2>6, <3>1, <3>2
  <2>8. /\ rest \in Seq(Text) /\ Len(rest) = n - k
        /\ \A i \in 1 .. n - k : rest[i] = s[k + i]
    <3>1. k + 1 \in Int /\ n \in Int /\ \A i \in k + 1 .. n : s[i] \in Text
      BY <1>1, <2>6
    <3>2. /\ rest \in Seq(Text) /\ Len(rest) = IF k + 1 <= n THEN n - (k + 1) + 1 ELSE 0
          /\ \A i \in 1 .. n - (k + 1) + 1 : rest[i] = s[k + 1 + i - 1]
      BY <3>1, SubSeqProperties DEF rest, k
    <3>3. \A i \in 1 .. n - k : i \in 1 .. n - (k + 1) + 1 /\ k + 1 + i - 1 = k + i
      BY <1>1, <2>6
    <3>. QED  BY <1>1, <2>6, <3>2, <3>3
  <2>. DEFINE a == Append(first, SP)
  <2>9. /\ a \in Seq(Text) /\ Len(a) = k
        /\ \A i \in 1 .. k : a[i] = s[i]
    <3>1. SP \in Text
      BY DEF Text
    <3>2. /\ a \in Seq(Text) /\ Len(a) = Len(first) + 1 /\ a[Len(first) + 1] = SP
          /\ \A i \in 1 .. Len(first) : a[i] = first[i]
      BY <2>7, <3>1, AppendProperties
    <3>. HIDE DEF a
    <3>3. Len(a) = k /\ a[k] = s[k]
      BY <2>5, <2>6, <2>7, <3>2 DEF k
    <3>4. \A i \in 1 .. k : i = k \/ i \in 1 .. k - 1
      BY <2>6
    <3>. QED  BY <2>7, <3>2, <3>3, <3>4
  <2>. HIDE DEF a
  <2>10. /\ a \o rest \in Seq(Text) /\ Len(a \o rest) = k + (n - k)
         /\ \A i \in 1 .. k + (n - k) : (a \o rest)[i] = IF i <= k THEN a[i] ELSE rest[i - k]
    <3>. DEFINE u == a \o rest
    <3>1. /\ u \in Seq(Text) /\ Len(u) = Len(a) + Len(rest)
          /\ \A i \in 1 .. Len(a) + Len(rest) : u[i] = IF i <= Len(a) THEN a[i] ELSE rest[i - Len(a)]
      BY <2>8, <2>9, ConcatProperties
    <3>. HIDE DEF u
    <3>2. Len(a) = k /\ Len(rest) = n - k
      BY <2>8, <2>9
    <3>3. /\ u \in Seq(Text) /\ Len(u) = k + (n - k)
          /\ \A i \in 1 .. k + (n - k) : u[i] = IF i <= k THEN a[i] ELSE rest[i - k]
      BY <3>1, <3>2
    <3>. QED  BY <3>3 DEF u
  <2>11. ASSUME NEW i \in 1 .. n  PROVE (a \o rest)[i] = s[i]
    <3>1. i \in 1 .. k + (n - k)
      BY <1>1, <2>6
    <3>2. CASE i <= k
      BY <1>1, <2>6, <2>9, <2>10, <3>1, <3>2
    <3>3. CASE ~ (i <= k)
      <4>. DEFINE j == i - k
      <4>1. j \in 1 .. n - k /\ k + j = i
        BY <1>1, <2>6, <3>3
      <4>2. (a \o rest)[i] = rest[j]
        BY <2>10, <3>1, <3>3
      <4>. HIDE DEF j
      <4>. QED  BY <2>8, <4>1, <4>2
    <3>. QED  BY <3>2, <3>3
  <2>12. k + (n - k) = n
    BY <1>1, <2>6
  <2>13. a \o rest = s
    <3>. DEFINE u == a \o rest
    <3>1. u \in Seq(Text) /\ s \in Seq(Text) /\ Len(u) = Len(s) /\ \A i \in 1 .. Len(s) : u[i] = s[i]
      BY <1>1, <2>10, <2>11, <2>12 DEF n
    <3>. HIDE DEF u
    <3>2. u = s
      BY <3>1, SeqEqual
    <3>. QED  BY <3>2 DEF u
  <2>. QED  BY <2>4, <2>7, <2>8, <2>13 DEF a, s
<1>. QED  BY <1>3, <1>4

LEMMA AppendedBlanks ==
  ASSUME NEW s \in Seq(Symbols), NEW c \in Symbols \ Letters, NEW d \in Symbols \ Letters,
         NEW e \in Symbols \ Letters
  PROVE  Streams!Words(Append(Append(s, c), d)) = Streams!Words(Append(s, e))
<1>1. Append(s, c) \in Seq(Symbols)
  BY AppendProperties
<1>. DEFINE w == Streams!Words(s)
<1>2. Streams!Words(Append(s, c)) = WithSymbol(w, c) /\ Streams!Words(Append(s, e)) = WithSymbol(w, e)
      /\ Streams!Words(Append(Append(s, c), d)) = WithSymbol(WithSymbol(w, c), d)
  <2>1. Streams!Words(Append(s, c)) = WithSymbol(w, c) /\ Streams!Words(Append(s, e)) = WithSymbol(w, e)
    BY WordsOf
  <2>2. Streams!Words(Append(Append(s, c), d)) = WithSymbol(Streams!Words(Append(s, c)), d)
    BY <1>1, WordsOf
  <2>. QED  BY <2>1, <2>2
<1>3. w \in Seq(Symbols)
  <2>. DEFINE S == {t \in Seq(Symbols) : Streams!Words(t) \in Seq(Symbols)}
  <2>1. <<>> \in S
    BY EmptySeq, WordsOf
  <2>2. ASSUME NEW t \in Seq(Symbols), NEW x \in Symbols, t \in S  PROVE Append(t, x) \in S
    <3>1. Streams!Words(Append(t, x)) = WithSymbol(Streams!Words(t), x)
      BY WordsOf
    <3>2. WithSymbol(Streams!Words(t), x) \in Seq(Symbols) /\ Append(t, x) \in Seq(Symbols)
      BY <2>2, AppendProperties, TextSymbols DEF WithSymbol
    <3>. QED  BY <3>1, <3>2
  <2>. HIDE DEF S
  <2>3. Seq(Symbols) \subseteq S
    BY <2>1, <2>2, AlongSequences
  <2>. QED  BY <2>3 DEF S
<1>. HIDE DEF w
<1>4. CASE w # <<>> /\ Last(w) = SP
  BY <1>2, <1>4 DEF WithSymbol
<1>5. CASE ~ (w # <<>> /\ Last(w) = SP)
  <2>. DEFINE v == Append(w, SP)
  <2>1. v # <<>> /\ Last(v) = SP
    BY <1>3, FrontAndLast, TextSymbols
  <2>. HIDE DEF v
  <2>2. WithSymbol(w, c) = v /\ WithSymbol(w, e) = v
    BY <1>5 DEF WithSymbol, v
  <2>3. WithSymbol(v, d) = v
    BY <2>1 DEF WithSymbol
  <2>. QED  BY <1>2, <2>2, <2>3
<1>. QED  BY <1>4, <1>5

LEMMA AppendAcross ==
  ASSUME NEW s \in Seq(Symbols), NEW r \in Seq(Symbols), NEW c \in Symbols
  PROVE  s \o Append(r, c) = Append(s \o r, c) /\ s \o r \in Seq(Symbols)
<1>1. Append(r, c) = r \o <<c>> /\ <<c>> \in Seq(Symbols) /\ s \o r \in Seq(Symbols)
  BY AppendIsConcat, ConcatProperties
<1>2. s \o (r \o <<c>>) = (s \o r) \o <<c>>
  BY <1>1, ConcatAssociative
<1>. QED  BY <1>1, <1>2, AppendIsConcat

\* Words that are the same stay so with the same character, or with two blanks, behind them.
LEMMA SameAppended ==
  ASSUME NEW s \in Seq(Symbols), NEW r \in Seq(Symbols), Streams!Words(s) = Streams!Words(r),
         NEW c \in Symbols, NEW d \in Symbols, c = d \/ (c \notin Letters /\ d \notin Letters)
  PROVE  Streams!Words(Append(s, c)) = Streams!Words(Append(r, d))
<1>1. Streams!Words(Append(s, c)) = WithSymbol(Streams!Words(s), c)
      /\ Streams!Words(Append(r, d)) = WithSymbol(Streams!Words(r), d)
  BY WordsOf
<1>. DEFINE w == Streams!Words(s)
<1>2. WithSymbol(w, c) = WithSymbol(w, d)
  <2>. HIDE DEF w
  <2>. QED  BY DEF WithSymbol
<1>. QED  BY <1>1, <1>2

\* A word too long for its line goes on in the next.
Broken(b, c, f) ==
    /\ c \in Letters /\ ~Fits(b)
    /\ \A i \in 1 .. Len(b.line) : b.line[i] # SP
    /\ f.sent = Append(b.line, NL) /\ f.line = <<c>>

\* All that a character does to the text in the buffer.
LEMMA AppendedFlows ==
  ASSUME NEW b, Buffered(b), NEW c \in Chars, b.sent \in Seq(Symbols)
  PROVE  /\ Appended(b, c).sent \in Seq(Symbols)
         /\ Streams!Words(Appended(b, c).sent \o Appended(b, c).line)
              = Streams!Words(b.sent \o Append(b.line, c))
<1>1. b.line \in Seq(Symbols) /\ c \in Symbols
  BY TextSymbols DEF Buffered
<1>. DEFINE s == b.sent \o b.line
<1>2. s \in Seq(Symbols) /\ b.sent \o Append(b.line, c) = Append(s, c)
      /\ b.sent \o Append(b.line, NL) = Append(s, NL)
  BY <1>1, TextSymbols, AppendAcross
<1>3. CASE c = CR
  <2>1. Appended(b, c).sent = Append(s, NL) /\ Appended(b, c).line = <<>>
    BY <1>2, <1>3, LineEndedFits DEF Appended
  <2>. HIDE DEF s
  <2>2. Append(s, NL) \in Seq(Symbols) /\ Append(s, NL) \o <<>> = Append(s, NL)
    BY <1>2, TextSymbols, AppendProperties, ConcatEmptySeq
  <2>3. Streams!Words(Append(s, NL)) = Streams!Words(Append(s, c))
    BY <1>1, <1>2, <1>3, TextSymbols, SameAppended
  <2>. QED  BY <1>2, <2>1, <2>2, <2>3
<1>4. CASE c # CR
  <2>. DEFINE l == b.line
              m == b.count
              t == b.sent
              k == Append(l, c)
  <2>1. b = [line |-> l, count |-> m, sent |-> t]
    BY DEF Buffered
  <2>2. Appended(b, c) = [b EXCEPT !.line = k, !.count = m - 1]
    BY <1>4 DEF Appended
  <2>. HIDE DEF l, m, t, k
  <2>3. Appended(b, c).line = k /\ Appended(b, c).sent = t
    BY <2>1, <2>2
  <2>. QED  BY <2>3 DEF t, k, l
<1>. QED  BY <1>3, <1>4

LEMMA BufferIs ==
  ASSUME BufferInv
  PROVE  Buffered(Buffer) /\ Buffer.line = line /\ Buffer.count = char_count /\ Buffer.sent = <<>>
BY BufferEnds DEF Buffer

LEMMA LineEndedFlows ==
  ASSUME BufferInv
  PROVE  LineEnded(Buffer).sent = Append(line, NL)
<1>1. LineEnded(Buffer).sent = <<>> \o Append(line, NL)
  BY BufferIs, LineEndedFits
<1>2. Append(line, NL) \in Seq(Symbols)
  BY TextSymbols, AppendProperties DEF BufferInv
<1>. QED  BY <1>1, <1>2, ConcatEmptySeq

\* All letters printed are shown or wait, in order; blanks become line ends only,
\* and a word is broken only where no space is left in the line.
LEMMA FormattedFlows ==
  ASSUME BufferInv, NEW c \in Chars
  PROVE  /\ Formatted(Buffer, c).sent \in Seq(Symbols)
         /\ \/ Streams!Words(Formatted(Buffer, c).sent \o Formatted(Buffer, c).line)
                 = Streams!Words(Append(line, c))
            \/ Broken(Buffer, c, Formatted(Buffer, c))
<1>. DEFINE b == Buffer
            w == Wrapped(b)
<1>1. Buffered(b) /\ b.line = line /\ b.sent = <<>>
  BY BufferIs
<1>2. LineEnded(b).sent = Append(line, NL) /\ LineEnded(b).line = <<>>
  BY LineEndedFlows, LineEndedFits
<1>3. line \in Seq(Text) /\ line \in Seq(Symbols) /\ c \in Symbols /\ Append(line, c) \in Seq(Symbols)
      /\ Append(line, NL) \in Seq(Symbols) /\ <<>> \in Seq(Symbols)
  BY TextSymbols, AppendProperties, EmptySeq DEF BufferInv
<1>4. <<>> \o Append(line, c) = Append(line, c) /\ Append(line, NL) \o <<>> = Append(line, NL)
  BY <1>3, ConcatEmptySeq
<1>. HIDE DEF b
<1>5. CASE Fits(b)
  <2>1. Formatted(b, c) = Appended(b, c)
    BY <1>5 DEF Formatted
  <2>. QED  BY <1>1, <1>3, <1>4, <2>1, AppendedFlows DEF b
<1>6. CASE ~Fits(b) /\ c = SP
  <2>1. Formatted(b, c) = LineEnded(b)
    BY <1>6 DEF Formatted
  <2>2. Streams!Words(Append(line, NL)) = Streams!Words(Append(line, c))
    BY <1>3, <1>6, TextSymbols, SameAppended
  <2>. QED  BY <1>2, <1>3, <1>4, <2>1, <2>2 DEF b
<1>7. CASE ~Fits(b) /\ c # SP
  <2>1. Formatted(b, c) = Appended(w, c) /\ Buffered(w)
    BY <1>1, <1>7, WrappedFits DEF Formatted
  <2>2. CASE w = LineEnded(b) /\ \A i \in 1 .. Len(b.line) : b.line[i] # SP
    <3>1. w.sent = Append(line, NL) /\ w.line = <<>>
      BY <1>2, <2>2
    <3>2. CASE c = CR
      <4>1. Append(line, NL) \o Append(<<>>, c) = Append(Append(line, NL), c)
        BY <1>3, <1>4, AppendAcross
      <4>2. Streams!Words(Append(Append(line, NL), c)) = Streams!Words(Append(line, c))
        <5>1. c \in Symbols \ Letters /\ NL \in Symbols \ Letters
          BY <3>2, TextSymbols
        <5>. QED  BY <1>3, <5>1, AppendedBlanks
      <4>. HIDE DEF w
      <4>. QED  BY <1>3, <2>1, <3>1, <4>1, <4>2, AppendedFlows DEF b
    <3>3. CASE c # CR
      <4>1. c \in Letters
        BY <1>7, <3>3 DEF Chars
      <4>. DEFINE l == w.line
                  m == w.count
                  t == w.sent
                  k == Append(l, c)
      <4>2. w = [line |-> l, count |-> m, sent |-> t]
        BY <2>1 DEF Buffered
      <4>3. Appended(w, c) = [w EXCEPT !.line = k, !.count = m - 1]
        BY <3>3 DEF Appended
      <4>. HIDE DEF l, m, t, k, w
      <4>4. Appended(w, c).line = k /\ Appended(w, c).sent = t
        BY <4>2, <4>3
      <4>5. k = <<c>> /\ t = Append(line, NL)
        BY <3>1 DEF k, l, t
      <4>6. Broken(b, c, Formatted(b, c))
        BY <1>1, <1>7, <2>1, <2>2, <4>1, <4>4, <4>5 DEF Broken
      <4>7. Formatted(b, c).sent \in Seq(Symbols)
        BY <1>3, <2>1, <4>4, <4>5
      <4>. QED  BY <4>6, <4>7 DEF b
    <3>. QED  BY <3>2, <3>3
  <2>3. ASSUME NEW first \in Seq(Text), NEW rest \in Seq(Text),
               b.line = Append(first, SP) \o rest, w.line = rest,
               w.sent = b.sent \o Append(first, NL)
        PROVE  /\ Formatted(b, c).sent \in Seq(Symbols)
               /\ Streams!Words(Formatted(b, c).sent \o Formatted(b, c).line)
                    = Streams!Words(Append(line, c))
    <3>. DEFINE n == Append(first, NL)
                s == Append(first, SP)
    <3>1. first \in Seq(Symbols) /\ rest \in Seq(Symbols) /\ n \in Seq(Symbols) /\ s \in Seq(Symbols)
      BY TextSymbols, AppendProperties
    <3>2. w.sent = n
      BY <1>1, <2>3, <3>1, ConcatEmptySeq
    <3>3. Streams!Words(n) = Streams!Words(s)
      BY <3>1, TextSymbols, SameAppended
    <3>4. s \o rest = line
      BY <1>1, <2>3
    <3>. HIDE DEF n, s, w
    <3>5. Streams!Words(n \o rest) = Streams!Words(s \o rest)
      BY <3>1, <3>3, SameWords
    <3>6. n \o rest \in Seq(Symbols) /\ n \o Append(rest, c) = Append(n \o rest, c)
      BY <1>3, <3>1, AppendAcross
    <3>7. Streams!Words(n \o Append(rest, c)) = Streams!Words(Append(line, c))
      <4>. DEFINE p == n \o rest
      <4>1. p \in Seq(Symbols) /\ Streams!Words(p) = Streams!Words(line)
            /\ n \o Append(rest, c) = Append(p, c)
        BY <3>4, <3>5, <3>6
      <4>. HIDE DEF p
      <4>2. Streams!Words(Append(p, c)) = Streams!Words(Append(line, c))
        BY <1>3, <4>1, SameAppended
      <4>. QED  BY <4>1, <4>2
    <3>. QED  BY <2>1, <2>3, <3>1, <3>2, <3>7, AppendedFlows
  <2>4. \/ w = LineEnded(b) /\ \A i \in 1 .. Len(b.line) : b.line[i] # SP
        \/ \E first, rest \in Seq(Text) :
             b.line = Append(first, SP) \o rest /\ w.line = rest /\ w.sent = b.sent \o Append(first, NL)
    BY <1>1, WrappedParts
  <2>. HIDE DEF w
  <2>. QED  BY <2>2, <2>3, <2>4 DEF b
<1>. QED  BY <1>5, <1>6, <1>7

-----------------------------------------------------------------------------
(* What is left of a line behind the text in the buffer *)

\* The columns left and the text in the buffer are a line of the screen at least.
Enough(b) == b.count + Len(b.line) >= Width

LEMMA LineEndedEnough ==
  ASSUME NEW b
  PROVE  Enough(LineEnded(b))
<1>1. LineEnded(b).line = <<>> /\ LineEnded(b).count = Width
  BY DEF LineEnded
<1>. QED  BY <1>1, EmptySeq, TextOutputAssumption DEF Enough

LEMMA AppendedEnough ==
  ASSUME NEW b, Buffered(b), Enough(b), NEW c \in Chars
  PROVE  Enough(Appended(b, c))
<1>1. CASE c = CR
  BY <1>1, LineEndedEnough DEF Appended
<1>2. CASE c # CR
  <2>. DEFINE l == b.line
              m == b.count
              t == b.sent
              k == Append(l, c)
  <2>1. b = [line |-> l, count |-> m, sent |-> t]
    BY DEF Buffered
  <2>2. Appended(b, c) = [b EXCEPT !.line = k, !.count = m - 1]
    BY <1>2 DEF Appended
  <2>3. Len(k) = Len(l) + 1 /\ Len(l) \in Nat /\ m \in Int /\ m + Len(l) >= Width
    BY TextSymbols, AppendProperties, LenProperties DEF Buffered, Enough
  <2>. HIDE DEF l, m, t, k
  <2>4. Appended(b, c).line = k /\ Appended(b, c).count = m - 1
    BY <2>1, <2>2
  <2>. QED  BY <2>3, <2>4, TextOutputAssumption DEF Enough
<1>. QED  BY <1>1, <1>2

LEMMA WrappedEnough ==
  ASSUME NEW b, Buffered(b)
  PROVE  Enough(Wrapped(b))
<1>1. Wrapped(b).count = Width
  <2>1. CASE LastSpace(b.line) = 0
    BY <2>1 DEF Wrapped, LineEnded
  <2>2. CASE LastSpace(b.line) # 0
    <3>. DEFINE cut == LastSpace(b.line)
                f == [b EXCEPT !.line = SubSeq(@, 1, cut - 1)]
                rest == SubSeq(b.line, cut + 1, Len(b.line))
                t == f.sent \o Append(f.line, NL)
    <3>1. Wrapped(b) = [LineEnded(f) EXCEPT !.line = rest]
      BY <2>2 DEF Wrapped
    <3>2. LineEnded(f) = [line |-> <<>>, count |-> Width, sent |-> t]
      BY DEF LineEnded
    <3>. HIDE DEF f, rest, t
    <3>3. Wrapped(b) = [line |-> rest, count |-> Width, sent |-> t]
      BY <3>1, <3>2, LineReplaced
    <3>. QED  BY <3>3
  <2>. QED  BY <2>1, <2>2
<1>2. Len(Wrapped(b).line) \in Nat
  BY WrappedFits, LenProperties DEF Buffered
<1>. QED  BY <1>1, <1>2, TextOutputAssumption DEF Enough

\* Text sent is whole lines, and the rest has its line for itself.
LEMMA FormattedEnough ==
  ASSUME BufferInv, NEW c \in Chars, Enough(Buffer) \/ Formatted(Buffer, c).sent # <<>>
  PROVE  Enough(Formatted(Buffer, c))
<1>. DEFINE b == Buffer
<1>1. Buffered(b) /\ b.sent = <<>>
  BY BufferIs
<1>2. CASE Fits(b)
  <2>1. Formatted(b, c) = Appended(b, c)
    BY <1>2 DEF Formatted
  <2>2. CASE c = CR
    BY <2>1, <2>2, LineEndedEnough DEF Appended
  <2>3. CASE c # CR
    <3>1. Appended(b, c).sent = <<>>
      BY <1>1, <2>3 DEF Appended, Buffered
    <3>. QED  BY <1>1, <2>1, <3>1, AppendedEnough
  <2>. QED  BY <2>2, <2>3
<1>3. CASE ~Fits(b) /\ c = SP
  BY <1>3, LineEndedEnough DEF Formatted
<1>4. CASE ~Fits(b) /\ c # SP
  <2>1. Formatted(b, c) = Appended(Wrapped(b), c)
    BY <1>4 DEF Formatted
  <2>2. Buffered(Wrapped(b)) /\ Enough(Wrapped(b))
    BY <1>1, WrappedFits, WrappedEnough
  <2>. DEFINE w == Wrapped(b)
  <2>3. Buffered(w) /\ Enough(w) /\ Formatted(b, c) = Appended(w, c)
    BY <2>1, <2>2
  <2>. HIDE DEF w, b
  <2>4. Enough(Formatted(b, c))
    BY <2>3, AppendedEnough
  <2>. QED  BY <2>4 DEF b
<1>. QED  BY <1>2, <1>3, <1>4

\* A line with no space is one word.
LEMMA OneWord ==
  ASSUME NEW s \in Seq(Text), \A i \in 1 .. Len(s) : s[i] # SP
  PROVE  Streams!LastWord(s) = s
<1>. DEFINE n == Len(s)
            starts == {i \in 1 .. n + 1 : \A j \in i .. n : Streams!Letter(s[j])}
            first == CHOOSE i \in starts : \A j \in starts : i <= j
<1>1. n \in Nat /\ \A i \in 1 .. n : s[i] \in Letters
  BY LenProperties, ElementOfSeq DEF Text
<1>2. 1 \in starts /\ \A j \in starts : j \in Nat /\ 1 <= j
  BY <1>1 DEF Streams!Letter
<1>3. Streams!LastWord(s) = SubSeq(s, first, n)
  BY DEF Streams!LastWord
<1>. HIDE DEF starts
<1>4. first \in starts /\ first <= 1
  BY <1>2
<1>5. first = 1
  BY <1>2, <1>4
<1>. HIDE DEF first
<1>6. SubSeq(s, 1, n) = s
  <2>. DEFINE t == SubSeq(s, 1, n)
  <2>1. 1 \in Int /\ n \in Int /\ \A i \in 1 .. n : s[i] \in Text /\ 1 + i - 1 = i
    BY <1>1 DEF Text
  <2>. HIDE DEF n
  <2>2. /\ t \in Seq(Text) /\ Len(t) = IF 1 <= n THEN n - 1 + 1 ELSE 0
        /\ \A i \in 1 .. n - 1 + 1 : t[i] = s[1 + i - 1]
    BY <2>1, SubSeqProperties
  <2>. HIDE DEF t
  <2>3. Len(t) = n /\ \A i \in 1 .. n : t[i] = s[i]
    BY <1>1, <2>1, <2>2
  <2>4. t = s
    BY <2>2, <2>3, SeqEqual DEF n
  <2>. QED  BY <2>4 DEF t
<1>. QED  BY <1>3, <1>5, <1>6

LEMMA BrokenShows ==
  ASSUME BufferInv, NEW c \in Chars, NEW f, Broken(Buffer, c, f)
  PROVE  /\ Streams!Letter(c)
         /\ Enough(Buffer) => Len(Streams!LastWord(line)) >= Width
         /\ Streams!Visible(f.sent \o f.line) = Streams!Visible(Append(line, c))
<1>1. Buffer.line = line /\ Buffer.count = char_count
  BY BufferIs
<1>2. c \in Letters /\ ~Fits(Buffer) /\ (\A i \in 1 .. Len(line) : line[i] # SP)
      /\ f.sent = Append(line, NL) /\ f.line = <<c>>
  BY <1>1 DEF Broken
<1>3. line \in Seq(Text) /\ line \in Seq(Symbols) /\ c \in Symbols /\ NL \in Symbols
      /\ Len(line) \in Nat /\ char_count \in Int
  BY TextSymbols, LenProperties DEF BufferInv
<1>4. Streams!LastWord(line) = line
  BY <1>2, <1>3, OneWord
<1>5. Enough(Buffer) => Len(line) >= Width
  BY <1>1, <1>2, <1>3, TextOutputAssumption DEF Fits, Enough
<1>. DEFINE u == Append(line, NL)
<1>6. u \in Seq(Symbols)
  BY <1>3, AppendProperties
<1>7. f.sent \o f.line = Append(u, c)
  BY <1>2, <1>3, <1>6, AppendIsConcat
<1>8. Streams!Visible(u) = Streams!Visible(line)
  BY <1>3, VisibleOf, TextSymbols
<1>. HIDE DEF u
<1>9. Streams!Visible(Append(u, c)) = Append(Streams!Visible(u), c)
      /\ Streams!Visible(Append(line, c)) = Append(Streams!Visible(line), c)
  BY <1>2, <1>3, <1>6, VisibleOf
<1>10. Streams!Letter(c)
  BY <1>2 DEF Streams!Letter
<1>. QED  BY <1>4, <1>5, <1>7, <1>8, <1>9, <1>10

-----------------------------------------------------------------------------
(* Where text may wait *)

\* Text waits in the buffer only for the text window and while words are, or
\* behind the tables will be, wrapped; at the left of the screen it has a whole
\* line; and the transcript is off in the status window.
FlowInv ==
    /\ screen_window # TEXT_WINDOW => line = <<>>
    /\ redirect_depth = 0 /\ ~formatting => line = <<>>
    /\ redirect_depth > 0 /\ ~saved_formatting => line = <<>>
    /\ outputting /\ ~midline => char_count + Len(line) >= Width
    /\ scripting_disable <=> screen_window = STATUS_WINDOW

LEMMA InitFlow == Init => FlowInv
BY EmptySeq, TextOutputAssumption DEF Init, FlowInv, TEXT_WINDOW, STATUS_WINDOW

LEMMA EndsWithText ==
  ASSUME NEW s \in Seq(Text), s # <<>>
  PROVE  Last(s) # NL
<1>1. Last(s) \in Text
  BY FrontOfLonger
<1>2. NL \notin Text
  BY TextOutputAssumption DEF Text, NL, SP
<1>. QED  BY <1>1, <1>2

LEMMA FlushFlow ==
  ASSUME Inv, FlowInv, NEW flag \in BOOLEAN, flush_buffer(flag)
  PROVE  /\ line' = <<>> /\ Len(line') = 0
         /\ flag => char_count' = Width
         /\ outputting /\ ~midline' => char_count' + Len(line') >= Width
<1>1. /\ line' = <<>> /\ (flag => char_count' = Width) /\ (~flag => char_count' = char_count)
      /\ shown' = IF outputting /\ screen_window = TEXT_WINDOW THEN line ELSE <<>>
      /\ midline' = IF shown' = <<>> THEN midline ELSE Last(shown') # NL
  BY DEF flush_buffer, Puts
<1>2. Len(line') = 0
  BY <1>1, EmptySeq
<1>3. line \in Seq(Text) /\ char_count \in Int
  BY DEF Inv, BufferInv
<1>4. ASSUME outputting, ~midline'  PROVE char_count' >= Width
  <2>1. shown' = line
    BY <1>1, <1>4 DEF FlowInv
  <2>2. line = <<>> /\ ~midline
    BY <1>1, <1>3, <1>4, <2>1, EndsWithText
  <2>3. char_count >= Width
    BY <1>3, <1>4, <2>2, EmptySeq DEF FlowInv
  <2>. QED  BY <1>1, <2>3, TextOutputAssumption
<1>5. outputting /\ ~midline' => char_count' + Len(line') >= Width
  <2>1. char_count' \in Int
    BY <1>1, <1>3, TextOutputAssumption
  <2>. QED  BY <1>2, <1>4, <2>1
<1>. QED  BY <1>1, <1>2, <1>5

\* A buffer whose text sent is followed by a whole line.
LEMMA SetBufferFlow ==
  ASSUME Inv, FlowInv, NEW b, SetBuffer(b), b.count \in Int,
         Enough(Buffer) \/ b.sent # <<>> => Enough(b), 
         screen_window = TEXT_WINDOW \/ Enough(b)
  PROVE  outputting /\ ~midline' => char_count' + Len(line') >= Width
<1>. SUFFICES ASSUME outputting, ~midline'  PROVE Enough(b)
  BY DEF SetBuffer, Enough
<1>1. CASE screen_window = TEXT_WINDOW
  <2>1. shown' = b.sent /\ (shown' = <<>> => midline' = midline)
    BY <1>1 DEF SetBuffer, Puts
  <2>2. CASE b.sent = <<>>
    <3>1. ~midline
      BY <2>1, <2>2
    <3>2. Enough(Buffer)
      BY <3>1, BufferIs DEF FlowInv, Enough, Inv
    <3>. QED  BY <3>2
  <2>. QED  BY <2>2
<1>. QED  BY <1>1

LEMMA NextFlows ==
  ASSUME Careful, Inv, FlowInv, Next
  PROVE  FlowInv'
<1>1. ASSUME NEW c \in Chars, Redirected(c)  PROVE FlowInv'
  BY <1>1 DEF Redirected, FlowInv, buffer, modes, PutsNothing
<1>2. ASSUME NEW c \in Chars, write_char(c)  PROVE FlowInv'
  <2>1. CASE /\ redirect_depth = 0 /\ formatting /\ screen_window = TEXT_WINDOW
             /\ SetBuffer(Formatted(Buffer, c))
             /\ UNCHANGED <<modes, redirection>>
    <3>. DEFINE f == Formatted(Buffer, c)
    <3>1. Buffered(f)
      BY BufferEnds, FormattedEnds DEF Inv
    <3>2. Enough(Buffer) \/ f.sent # <<>> => Enough(f)
      BY FormattedEnough DEF Inv
    <3>. HIDE DEF f
    <3>3. SetBuffer(f) /\ f.count \in Int
      BY <2>1, <3>1 DEF f, Buffered
    <3>4. outputting /\ ~midline' => char_count' + Len(line') >= Width
      BY <2>1, <3>2, <3>3, SetBufferFlow
    <3>. QED  BY <2>1, <3>4 DEF FlowInv, modes, redirection
  <2>2. CASE /\ redirect_depth = 0 /\ ~(formatting /\ screen_window = TEXT_WINDOW)
             /\ Puts(<<c>>)
             /\ UNCHANGED <<buffer, modes, redirection>>
    <3>1. midline' \/ midline' = midline
      <4>1. shown' = <<c>> \/ shown' = <<>>
        BY <2>2 DEF Puts
      <4>2. CASE shown' = <<>>
        BY <2>2, <4>2 DEF Puts
      <4>3. CASE shown' = <<c>>
        <5>1. <<c>> # <<>> /\ Last(<<c>>) = c
          BY DEF Last
        <5>2. c # NL
          BY TextSymbols DEF Chars, NL, SP, CR
        <5>3. midline' = (Last(shown') # NL)
          BY <2>2, <4>3, <5>1 DEF Puts
        <5>. QED  BY <4>3, <5>1, <5>2, <5>3
      <4>. QED  BY <4>1, <4>2, <4>3
    <3>. QED  BY <2>2, <3>1 DEF FlowInv, buffer, modes, redirection
  <2>. QED  BY <1>1, <1>2, <2>1, <2>2 DEF write_char
<1>3. ASSUME z_new_line  PROVE FlowInv'
  <2>1. CASE /\ redirect_depth = 0 /\ SetBuffer(LineEnded(Buffer)) /\ UNCHANGED <<modes, redirection>>
    <3>. DEFINE f == LineEnded(Buffer)
    <3>1. Enough(f) /\ f.line = <<>> /\ f.count \in Int
      BY LineEndedEnough, LineEndedFits DEF Buffered
    <3>. HIDE DEF f
    <3>2. SetBuffer(f)
      BY <2>1 DEF f
    <3>3. char_count' + Len(line') >= Width /\ line' = <<>>
      BY <3>1, <3>2 DEF SetBuffer, Enough
    <3>. QED  BY <2>1, <3>3 DEF FlowInv, modes, redirection
  <2>. QED  BY <1>1, <1>3, <2>1 DEF z_new_line, Chars
<1>4. ASSUME NEW w \in Windows, z_set_window(w)  PROVE FlowInv'
  <2>1. flush_buffer(FALSE) /\ scripting_disable' = (w = STATUS_WINDOW) /\ screen_window' = w
        /\ outputting' = outputting
    BY <1>4 DEF z_set_window
  <2>. QED  BY <2>1, FlushFlow DEF FlowInv
<1>5. ASSUME NEW b \in BOOLEAN, z_buffer_mode(b)  PROVE FlowInv'
  BY <1>5, FlushFlow DEF FlowInv, z_buffer_mode
<1>6. ASSUME NEW b \in BOOLEAN, SelectScreen(b)  PROVE FlowInv'
  BY <1>6, EmptySeq, TextOutputAssumption
     DEF FlowInv, SelectScreen, buffer, redirection, PutsNothing
<1>7. ASSUME z_erase_window  PROVE FlowInv'
  BY <1>7, FlushFlow DEF FlowInv, z_erase_window, modes, redirection
<1>8. ASSUME z_read_char  PROVE FlowInv'
  BY <1>8, FlushFlow DEF FlowInv, z_read_char, modes, redirection
<1>9. ASSUME z_sread_aread  PROVE FlowInv'
  BY <1>9, EmptySeq, TextOutputAssumption DEF FlowInv, z_sread_aread, modes, redirection
<1>10. ASSUME NEW t \in Tables, SelectTable(t)  PROVE FlowInv'
  <2>1. /\ redirect_depth \in Nat /\ redirect_depth' = redirect_depth + 1 /\ PutsNothing
        /\ UNCHANGED <<buffer, outputting, scripting_disable, screen_window>>
    BY <1>10 DEF SelectTable, Inv, StashInv
  <2>2. redirect_depth = 0 => saved_formatting' = formatting
    BY <1>10 DEF SelectTable
  <2>3. redirect_depth # 0 => saved_formatting' = saved_formatting
    BY <1>10 DEF SelectTable
  <2>. QED  BY <2>1, <2>2, <2>3 DEF FlowInv, buffer, PutsNothing
<1>11. ASSUME DeselectTable  PROVE FlowInv'
  <2>1. /\ redirect_depth \in Nat /\ redirect_depth > 0 /\ redirect_depth' = redirect_depth - 1
        /\ UNCHANGED <<buffer, saved_formatting, outputting, scripting_disable, screen_window>>
        /\ PutsNothing
    BY <1>11 DEF DeselectTable, Inv, StashInv
  <2>2. redirect_depth = 1 => formatting' = saved_formatting
    BY <1>11 DEF DeselectTable
  <2>. QED  BY <2>1, <2>2 DEF FlowInv, buffer, PutsNothing
<1>12. ASSUME z_restart  PROVE FlowInv'
  <2>1. line' = <<>> /\ char_count' = Width
    BY <1>12, FlushFlow DEF z_restart
  <2>2. screen_window' = TEXT_WINDOW /\ scripting_disable' = FALSE
    BY <1>12 DEF z_restart
  <2>. QED  BY <2>1, <2>2, EmptySeq, TextOutputAssumption DEF FlowInv, TEXT_WINDOW, STATUS_WINDOW
<1>. QED  BY <1>2, <1>3, <1>4, <1>5, <1>6, <1>7, <1>8, <1>9, <1>10, <1>11, <1>12 DEF Next

LEMMA CopiesPuts ==
  ASSUME Inv, FlowInv, outputting, NEW s \in Seq(Symbols), Puts(s)
  PROVE  Streams!Visible(scripted') = Streams!Visible(shown')
<1>1. CASE screen_window = TEXT_WINDOW
  <2>1. ~scripting_disable
    BY <1>1 DEF FlowInv, TEXT_WINDOW, STATUS_WINDOW
  <2>2. shown' = s /\ scripted' = Written(s)
    BY <1>1, <2>1 DEF Puts
  <2>. QED  BY <2>2, VisibleSymbols
<1>2. CASE screen_window # TEXT_WINDOW
  <2>1. scripting_disable
    BY <1>2 DEF FlowInv, Inv, ModesInv, Windows
  <2>2. shown' = <<>> /\ scripted' = <<>>
    BY <1>2, <2>1 DEF Puts
  <2>. QED  BY <2>2
<1>. QED  BY <1>1, <1>2

LEMMA NextCopies ==
  ASSUME Inv, FlowInv, Next, outputting
  PROVE  Streams!Visible(scripted') = Streams!Visible(shown')
<1>. DEFINE Copied == Streams!Visible(scripted') = Streams!Visible(shown')
<1>0. line \in Seq(Symbols) /\ Append(line, NL) \in Seq(Symbols)
  BY TextSymbols, AppendProperties DEF Inv, BufferInv
<1>1. ASSUME PutsNothing  PROVE Copied
  BY <1>1 DEF PutsNothing
<1>2. ASSUME NEW c \in Chars, write_char(c)  PROVE Copied
  <2>1. CASE SetBuffer(Formatted(Buffer, c))
    <3>. DEFINE s == Formatted(Buffer, c).sent
    <3>1. s \in Seq(Symbols) /\ Puts(s)
      BY <2>1, FormattedFlows DEF Inv, SetBuffer
    <3>. HIDE DEF s
    <3>. QED  BY <3>1, CopiesPuts
  <2>2. CASE Puts(<<c>>)
    <3>1. c \in Symbols
      BY TextSymbols
    <3>2. <<c>> \in Seq(Symbols)
      BY <3>1
    <3>. QED  BY <2>2, <3>2, CopiesPuts
  <2>. QED  BY <1>1, <1>2, <2>1, <2>2 DEF write_char, Redirected
<1>3. ASSUME z_new_line  PROVE Copied
  <2>1. CASE SetBuffer(LineEnded(Buffer))
    <3>1. LineEnded(Buffer).sent = Append(line, NL)
      BY LineEndedFlows DEF Inv
    <3>2. Puts(Append(line, NL))
      BY <2>1, <3>1 DEF SetBuffer
    <3>. QED  BY <1>0, <3>2, CopiesPuts
  <2>. QED  BY <1>1, <1>3, <2>1 DEF z_new_line, Redirected
<1>4. ASSUME NEW flag \in BOOLEAN, flush_buffer(flag)  PROVE Copied
  BY <1>0, <1>4, CopiesPuts DEF flush_buffer
<1>5. ASSUME z_sread_aread  PROVE Copied
  <2>1. /\ shown' = (IF outputting /\ screen_window = TEXT_WINDOW THEN line ELSE <<>>) \o <<NL>>
        /\ scripted' = IF scripting_disable THEN <<>> ELSE Written(Append(line, NL))
    BY <1>5 DEF z_sread_aread
  <2>2. CASE screen_window = TEXT_WINDOW
    <3>1. ~scripting_disable
      BY <2>2 DEF FlowInv, TEXT_WINDOW, STATUS_WINDOW
    <3>2. Append(line, NL) = line \o <<NL>>
      BY <1>0, TextSymbols, AppendIsConcat
    <3>3. shown' = Append(line, NL) /\ scripted' = Written(Append(line, NL))
      BY <2>1, <2>2, <3>1, <3>2
    <3>. QED  BY <1>0, <3>3, VisibleSymbols
  <2>3. CASE screen_window # TEXT_WINDOW
    <3>1. scripting_disable
      BY <2>3 DEF FlowInv, Inv, ModesInv, Windows
    <3>2. <<>> \o <<NL>> = Append(<<>>, NL)
      OBVIOUS
    <3>3. shown' = Append(<<>>, NL) /\ scripted' = <<>>
      BY <2>1, <2>3, <3>1, <3>2
    <3>4. <<>> \in Seq(Symbols)
      BY EmptySeq
    <3>. QED  BY <3>3, <3>4, VisibleOf, TextSymbols
  <2>. QED  BY <2>2, <2>3
<1>. QED  BY <1>1, <1>2, <1>3, <1>4, <1>5
          DEF Next, z_set_window, z_buffer_mode, SelectScreen, z_erase_window, z_read_char,
              SelectTable, DeselectTable, z_restart

\* In a story that switches the screen at a line's start and restarts in the text
\* window, text waits only where it will be shown.
THEOREM WaitingText == Careful => (Spec => [](Inv /\ FlowInv))
<1>. SUFFICES ASSUME Careful  PROVE Spec => [](Inv /\ FlowInv)
  OBVIOUS
<1>1. Init => Inv /\ FlowInv
  BY InitInv, InitFlow
<1>2. Inv /\ FlowInv /\ [Next]_vars => Inv' /\ FlowInv'
  <2>1. ASSUME FlowInv, UNCHANGED vars  PROVE FlowInv'
    BY <2>1 DEF FlowInv, vars, buffer, modes, redirection
  <2>. QED  BY <2>1, NextKeeps, NextFlows, StutterKeeps
<1>. QED  BY <1>1, <1>2, PTL DEF Spec

\* While the screen is selected the transcript gets what the screen shows, wrapped
\* or not: script_char leaves out no character that shows.
THEOREM TranscriptAsShown == Careful => (Spec => CopiedAsShown)
<1>. SUFFICES ASSUME Careful  PROVE Spec => CopiedAsShown
  OBVIOUS
<1>. DEFINE A == outputting => Streams!Visible(scripted') = Streams!Visible(shown')
<1>1. Inv /\ FlowInv /\ [Next]_vars => [A]_vars
  BY NextCopies
<1>2. Spec => [](Inv /\ FlowInv)
  BY WaitingText
<1>. QED  BY <1>1, <1>2, PTL DEF Spec, CopiedAsShown

-----------------------------------------------------------------------------
(* The tables selected *)

\* The address of the i-th table selected, and the characters it has got.
Addr(i) == IF i = redirect_depth THEN story_buffer ELSE stash[i].buffer
Count(i) == IF i = redirect_depth THEN story_count ELSE stash[i].count

TextAt(mem, t, n) == [a \in 1 .. n |-> mem[t + 1 + a]]

\* No table is selected twice.
Distinct == \A i, j \in 1 .. redirect_depth : Addr(i) = Addr(j) => i = j

Open == [i \in 1 .. redirect_depth |-> Tabled(i)]
TextOf(t) == IF t \in OpenTables THEN Selected ELSE TextAt(memory, t, memory[t])
Texts == [t \in Tables |-> TextOf(t)]
Pending == IF outputting THEN line ELSE <<>>

TableIs(i) ==
    /\ Addr(i) \in Tables /\ Count(i) \in 0 .. TableRoom
    /\ Tabled(i) = [table |-> Addr(i), text |-> TextAt(memory, Addr(i), Count(i))]

LEMMA TablesAre == Inv => \A i \in 1 .. redirect_depth : TableIs(i)
<1>. SUFFICES ASSUME Inv, NEW i \in 1 .. redirect_depth  PROVE TableIs(i)
  OBVIOUS
<1>. DEFINE text(t, end) == [a \in 1 .. end - t - 2 |-> memory[t + 1 + a]]
<1>1. redirect_depth \in Nat /\ TableRoom \in Nat
  BY TextOutputAssumption DEF Inv, StashInv
<1>2. ASSUME NEW t, NEW pos, NEW count, IsTable(t, pos, count)
      PROVE  t \in Tables /\ count \in 0 .. TableRoom /\ text(t, pos) = TextAt(memory, t, count)
  <2>1. t \in Tables /\ t \in Nat /\ count \in Nat /\ count \in 0 .. TableRoom /\ pos = t + 2 + count
    BY <1>1, <1>2, TextOutputAssumption DEF IsTable
  <2>2. pos - t - 2 = count
    BY <2>1
  <2>. QED  BY <2>1, <2>2 DEF TextAt
<1>3. CASE i = redirect_depth
  <2>1. IsTable(story_buffer, story_pos, story_count)
    BY <1>1, <1>3 DEF Inv, StashInv
  <2>2. Tabled(i) = [table |-> story_buffer, text |-> text(story_buffer, story_pos)]
    BY <1>3 DEF Tabled
  <2>3. Addr(i) = story_buffer /\ Count(i) = story_count
    BY <1>3 DEF Addr, Count
  <2>. HIDE DEF text
  <2>. QED  BY <1>2, <2>1, <2>2, <2>3 DEF TableIs
<1>4. CASE i # redirect_depth
  <2>. DEFINE s == stash[i]
  <2>1. i \in 1 .. redirect_depth - 1
    BY <1>1, <1>4
  <2>2. IsTable(s.buffer, s.pos, s.count)
    BY <2>1 DEF Inv, StashInv
  <2>3. Tabled(i) = [table |-> s.buffer, text |-> text(s.buffer, s.pos)]
    BY <1>4 DEF Tabled
  <2>4. Addr(i) = s.buffer /\ Count(i) = s.count
    BY <1>4 DEF Addr, Count
  <2>. HIDE DEF text, s
  <2>. QED  BY <1>2, <2>2, <2>3, <2>4 DEF TableIs
<1>. QED  BY <1>3, <1>4

LEMMA OpenTablesAre ==
  ASSUME redirect_depth \in Nat
  PROVE  OpenTables = {Addr(i) : i \in 1 .. redirect_depth}
<1>1. ASSUME NEW t \in OpenTables  PROVE \E i \in 1 .. redirect_depth : t = Addr(i)
  <2>1. CASE \E i \in 1 .. redirect_depth : t = story_buffer
    <3>1. redirect_depth \in 1 .. redirect_depth
      BY <2>1
    <3>. QED  BY <2>1, <3>1 DEF Addr
  <2>2. CASE \E i \in 1 .. redirect_depth - 1 : t = stash[i].buffer
    <3>1. PICK i \in 1 .. redirect_depth - 1 : t = stash[i].buffer
      BY <2>2
    <3>2. i \in 1 .. redirect_depth /\ i # redirect_depth
      OBVIOUS
    <3>. QED  BY <3>1, <3>2 DEF Addr
  <2>. QED  BY <1>1, <2>1, <2>2 DEF OpenTables
<1>2. ASSUME NEW i \in 1 .. redirect_depth  PROVE Addr(i) \in OpenTables
  <2>1. CASE i = redirect_depth
    BY <2>1 DEF Addr, OpenTables
  <2>2. CASE i # redirect_depth
    <3>1. i \in 1 .. redirect_depth - 1
      BY <2>2
    <3>. QED  BY <2>2, <3>1 DEF Addr, OpenTables
  <2>. QED  BY <2>1, <2>2
<1>. QED  BY <1>1, <1>2

\* The characters of two tables have different cells.
LEMMA TablesApart ==
  ASSUME NEW t \in Tables, NEW u \in Tables, t # u,
         NEW m \in 1 .. TableRoom, NEW n \in 1 .. TableRoom
  PROVE  t + 1 + m # u + 1 + n
<1>1. t \in Nat /\ u \in Nat /\ TableRoom \in Nat
  BY TextOutputAssumption
<1>2. t < u => t + 2 + TableRoom <= u
  BY TextOutputAssumption
<1>3. u < t => u + 2 + TableRoom <= t
  BY TextOutputAssumption
<1>. QED  BY <1>1, <1>2, <1>3

LEMMA CellsOfText ==
  ASSUME NEW t \in Tables, NEW n \in 1 .. TableRoom
  PROVE  t + 1 + n \in Cells /\ t + 1 + n \notin Tables
<1>1. t \in Nat /\ TableRoom \in Nat
  BY TextOutputAssumption
<1>. DEFINE m == n - 1
<1>2. m \in Nat /\ m < TableRoom /\ t + 1 + n = t + 2 + m
  BY <1>1
<1>. HIDE DEF m
<1>. QED  BY <1>2, CellOfText

LEMMA FunctionSeq ==
  ASSUME NEW S, NEW n \in Nat, NEW g \in [1 .. n -> S]
  PROVE  g \in Seq(S) /\ Len(g) = n
<1>1. g \in Seq(S)
  BY SeqDef
<1>. QED  BY <1>1, LenProperties

LEMMA TextAtIs ==
  ASSUME NEW mem, Contents(mem), NEW t \in Tables, NEW n \in 0 .. TableRoom
  PROVE  /\ TextAt(mem, t, n) \in Seq(Chars) /\ Len(TextAt(mem, t, n)) = n
         /\ \A a \in 1 .. n : TextAt(mem, t, n)[a] = mem[t + 1 + a]
<1>1. n \in Nat /\ \A a \in 1 .. n : a \in 1 .. TableRoom
  BY TextOutputAssumption
<1>2. \A a \in 1 .. n : mem[t + 1 + a] \in Chars
  BY <1>1, CellsOfText DEF Contents
<1>. DEFINE g == TextAt(mem, t, n)
<1>3. g \in [1 .. n -> Chars] /\ \A a \in 1 .. n : g[a] = mem[t + 1 + a]
  BY <1>2 DEF TextAt
<1>. HIDE DEF g
<1>4. g \in Seq(Chars) /\ Len(g) = n
  BY <1>1, <1>3, FunctionSeq
<1>. QED  BY <1>3, <1>4 DEF g

\* A text is the same where its characters are.
LEMMA SameText ==
  ASSUME NEW mem, NEW mem2, NEW t, NEW n, \A a \in 1 .. n : mem2[t + 1 + a] = mem[t + 1 + a]
  PROVE  TextAt(mem2, t, n) = TextAt(mem, t, n)
BY DEF TextAt

LEMMA NoText ==
  ASSUME NEW mem, NEW t
  PROVE  TextAt(mem, t, 0) = <<>>
<1>. DEFINE g == TextAt(mem, t, 0)
<1>1. g \in [1 .. 0 -> Chars]
  BY DEF TextAt
<1>. HIDE DEF g
<1>2. g \in Seq(Chars) /\ Len(g) = 0
  BY <1>1, FunctionSeq
<1>3. g = <<>>
  BY <1>2, EmptySeq
<1>. QED  BY <1>3 DEF g

Opened == [table : Tables, text : Seq(Chars)]

LEMMA OpenIs == Inv =>
  /\ Open \in Seq(Opened) /\ Len(Open) = redirect_depth /\ redirect_depth \in Nat
  /\ \A i \in 1 .. redirect_depth : Open[i] = Tabled(i)
<1>. SUFFICES ASSUME Inv
     PROVE  /\ Open \in Seq(Opened) /\ Len(Open) = redirect_depth /\ redirect_depth \in Nat
            /\ \A i \in 1 .. redirect_depth : Open[i] = Tabled(i)
  OBVIOUS
<1>1. redirect_depth \in Nat
  BY DEF Inv, StashInv
<1>2. \A i \in 1 .. redirect_depth : Tabled(i) \in Opened
  <2>. TAKE i \in 1 .. redirect_depth
  <2>1. TableIs(i)
    BY TablesAre
  <2>. DEFINE x == TextAt(memory, Addr(i), Count(i))
  <2>2. x \in Seq(Chars)
    BY <2>1, TextAtIs DEF TableIs, Inv
  <2>3. Tabled(i) = [table |-> Addr(i), text |-> x]
    BY <2>1 DEF TableIs
  <2>. HIDE DEF x
  <2>. QED  BY <2>1, <2>2, <2>3 DEF TableIs, Opened
<1>3. Open \in [1 .. redirect_depth -> Opened] /\ \A i \in 1 .. redirect_depth : Open[i] = Tabled(i)
  BY <1>2 DEF Open
<1>. QED  BY <1>1, <1>3, FunctionSeq

LEMMA OpenOrNone ==
  ASSUME Inv
  PROVE  redirect_depth = 0 <=> Open = <<>>
BY OpenIs, EmptySeq

LEMMA TablesAreNext == (Inv => \A i \in 1 .. redirect_depth : TableIs(i))'
BY TablesAre, PTL

LEMMA OpenIsNext == (Inv =>
  /\ Open \in Seq(Opened) /\ Len(Open) = redirect_depth /\ redirect_depth \in Nat
  /\ \A i \in 1 .. redirect_depth : Open[i] = Tabled(i))'
BY OpenIs, PTL

LEMMA SameOpen ==
  ASSUME UNCHANGED redirection
  PROVE  Open' = Open /\ Texts' = Texts /\ (Distinct => Distinct')
<1>1. \A i : Addr(i)' = Addr(i) /\ Tabled(i)' = Tabled(i)
  BY DEF redirection, Addr, Tabled
<1>2. redirect_depth' = redirect_depth /\ memory' = memory /\ OpenTables' = OpenTables
  BY DEF redirection, OpenTables
<1>3. Open' = Open
  BY <1>1, <1>2 DEF Open
<1>4. Texts' = Texts
  BY <1>2 DEF Texts, TextOf
<1>5. Distinct => Distinct'
  BY <1>1, <1>2 DEF Distinct
<1>. QED  BY <1>3, <1>4, <1>5

\* The text of the i-th table selected is not touched by a cell outside of it.
LEMMA TextKept ==
  ASSUME NEW mem, NEW mem2, NEW t \in Tables, NEW n \in 0 .. TableRoom,
         \A a \in Cells : a \notin Tables /\ (\E m \in 1 .. TableRoom : a = t + 1 + m)
                          => mem2[a] = mem[a]
  PROVE  TextAt(mem2, t, n) = TextAt(mem, t, n)
<1>1. ASSUME NEW a \in 1 .. n  PROVE mem2[t + 1 + a] = mem[t + 1 + a]
  <2>1. a \in 1 .. TableRoom
    BY TextOutputAssumption
  <2>2. t + 1 + a \in Cells /\ t + 1 + a \notin Tables
    BY <2>1, CellsOfText
  <2>. QED  BY <2>1, <2>2
<1>. QED  BY <1>1, SameText

\* A character redirected goes to the end of the text of the table selected last.
LEMMA RedirectedOpen ==
  ASSUME Inv, Distinct, NEW c \in Chars, Redirected(c)
  PROVE  /\ Open # <<>>
         /\ Open' = [Open EXCEPT ![Len(Open)].text = Append(@, c)]
         /\ Texts' = Texts /\ Distinct'
<1>. DEFINE d == redirect_depth
            t == story_buffer
            n == story_count
            x == TextAt(memory, t, n)
            y == TextAt(memory', t, n + 1)
<1>1. /\ d > 0 /\ n < TableRoom
      /\ memory' = [memory EXCEPT ![story_pos] = c]
      /\ story_count' = n + 1
      /\ redirect_depth' = d /\ stash' = stash /\ story_buffer' = t
  BY DEF Redirected
<1>2. /\ d \in Nat /\ TableRoom \in Nat /\ t \in Tables /\ t \in Nat /\ n \in 0 .. TableRoom
      /\ n + 1 \in 1 .. TableRoom /\ story_pos = t + 1 + (n + 1)
  BY <1>1, TextOutputAssumption DEF Inv, StashInv, IsTable
<1>3. Inv' /\ Contents(memory) /\ Contents(memory')
  BY RedirectedKeeps DEF Inv
<1>4. story_pos \in Cells /\ story_pos \notin Tables
  BY <1>2, CellsOfText
<1>5. \A a \in Cells : memory'[a] = IF a = story_pos THEN c ELSE memory[a]
  BY <1>1, <1>4 DEF Contents, Inv
<1>6. \A i : Addr(i)' = Addr(i) /\ Count(i)' = IF i = d THEN n + 1 ELSE Count(i)
  BY <1>1 DEF Addr, Count
<1>7. Addr(d) = t /\ Count(d) = n /\ d \in 1 .. d
  BY <1>1, <1>2 DEF Addr, Count
<1>8. y = Append(x, c)
  <2>1. x \in Seq(Chars) /\ Len(x) = n /\ \A a \in 1 .. n : x[a] = memory[t + 1 + a]
    BY <1>2, <1>3, TextAtIs
  <2>2. n + 1 \in 0 .. TableRoom
    BY <1>2
  <2>3. y \in Seq(Chars) /\ Len(y) = n + 1 /\ \A a \in 1 .. n + 1 : y[a] = memory'[t + 1 + a]
    BY <1>2, <1>3, <2>2, TextAtIs
  <2>. HIDE DEF x, y
  <2>4. /\ Append(x, c) \in Seq(Chars) /\ Len(Append(x, c)) = n + 1
        /\ Append(x, c)[n + 1] = c /\ \A a \in 1 .. n : Append(x, c)[a] = x[a]
    BY <2>1, AppendProperties
  <2>5. ASSUME NEW a \in 1 .. n  PROVE y[a] = x[a]
    <3>1. a \in 1 .. TableRoom /\ a \in 1 .. n + 1 /\ a # n + 1
      BY <1>2
    <3>2. t + 1 + a \in Cells /\ t + 1 + a # story_pos
      BY <1>2, <3>1, CellsOfText
    <3>3. memory'[t + 1 + a] = memory[t + 1 + a]
      BY <1>5, <3>2
    <3>. QED  BY <2>1, <2>3, <3>1, <3>3
  <2>6. y[n + 1] = c
    <3>1. n + 1 \in 1 .. n + 1
      BY <1>2
    <3>2. y[n + 1] = memory'[story_pos]
      BY <1>2, <2>3, <3>1
    <3>. QED  BY <1>4, <1>5, <3>2
  <2>7. \A a \in 1 .. n + 1 : a \in 1 .. n \/ a = n + 1
    BY <1>2
  <2>. DEFINE z == Append(x, c)
  <2>8. z \in Seq(Chars) /\ Len(z) = n + 1 /\ \A a \in 1 .. n + 1 : y[a] = z[a]
    BY <2>4, <2>5, <2>6, <2>7
  <2>. HIDE DEF z
  <2>9. y = z
    BY <2>3, <2>8, SeqEqual
  <2>. QED  BY <2>9 DEF z
<1>9. ASSUME NEW u \in Tables, u # t, NEW m \in 0 .. TableRoom
      PROVE  TextAt(memory', u, m) = TextAt(memory, u, m)
  <2>1. \A a \in Cells : a \notin Tables /\ (\E k \in 1 .. TableRoom : a = u + 1 + k)
                          => memory'[a] = memory[a]
    <3>. TAKE a \in Cells
    <3>. HAVE a \notin Tables /\ (\E k \in 1 .. TableRoom : a = u + 1 + k)
    <3>1. a # story_pos
      BY <1>2, <1>9, TablesApart
    <3>. QED  BY <1>5, <3>1
  <2>. QED  BY <2>1, <1>9, TextKept
<1>10. /\ Open \in Seq(Opened) /\ Len(Open) = d /\ \A i \in 1 .. d : Open[i] = Tabled(i) /\ TableIs(i)
  BY OpenIs, TablesAre
<1>11. /\ Open' \in Seq(Opened) /\ Len(Open') = d
       /\ \A i \in 1 .. d : Open'[i] = Tabled(i)' /\ TableIs(i)'
  BY <1>1, <1>3, OpenIsNext, TablesAreNext
<1>12. Open # <<>>
  BY <1>1, <1>10, EmptySeq
<1>13. Open' = [Open EXCEPT ![d].text = Append(@, c)]
  <2>. DEFINE e == [table |-> t, text |-> y]
  <2>1. Open[d] = [table |-> t, text |-> x]
    BY <1>7, <1>10 DEF TableIs
  <2>2. Open'[d] = e
    <3>1. PICK k \in 1 .. d : k = d
      BY <1>7
    <3>2. Addr(k)' = t /\ Count(k)' = n + 1
      BY <1>6, <1>7, <3>1
    <3>3. Open'[k] = Tabled(k)' /\ TableIs(k)'
      BY <1>11
    <3>4. Tabled(k)' = [table |-> Addr(k)', text |-> TextAt(memory', Addr(k)', Count(k)')]
      BY <3>3 DEF TableIs
    <3>. QED  BY <3>1, <3>2, <3>3, <3>4
  <2>3. ASSUME NEW i \in 1 .. d, i # d  PROVE Open'[i] = Open[i]
    <3>1. Addr(i)' = Addr(i) /\ Count(i)' = Count(i)
      BY <1>6, <2>3
    <3>2. Addr(i) # t
      BY <1>7, <2>3 DEF Distinct
    <3>3. Addr(i) \in Tables /\ Count(i) \in 0 .. TableRoom
      BY <1>10 DEF TableIs
    <3>4. TextAt(memory', Addr(i), Count(i)) = TextAt(memory, Addr(i), Count(i))
      BY <1>9, <3>2, <3>3
    <3>5. Tabled(i)' = [table |-> Addr(i)', text |-> TextAt(memory', Addr(i)', Count(i)')]
      BY <1>11 DEF TableIs
    <3>6. Tabled(i) = [table |-> Addr(i), text |-> TextAt(memory, Addr(i), Count(i))]
      BY <1>10 DEF TableIs
    <3>. QED  BY <1>10, <1>11, <3>1, <3>4, <3>5, <3>6
  <2>4. [Open EXCEPT ![d].text = Append(@, c)] = [Open EXCEPT ![d] = e]
    <3>. DEFINE r == Open[d]
                z == Append(x, c)
    <3>1. r = [table |-> t, text |-> x] /\ y = z
      BY <1>8, <2>1
    <3>. HIDE DEF x, y, z, t
    <3>2. [r EXCEPT !.text = Append(r.text, c)] = [table |-> t, text |-> z]
      BY <3>1 DEF z
    <3>3. [Open EXCEPT ![d].text = Append(@, c)] = [Open EXCEPT ![d] = [r EXCEPT !.text = Append(r.text, c)]]
      OBVIOUS
    <3>. QED  BY <3>1, <3>2, <3>3
  <2>5. e \in Opened
    BY <1>7, <1>11, <2>2, ElementOfSeq
  <2>. HIDE DEF e
  <2>. DEFINE g == [Open EXCEPT ![d] = e]
  <2>6. g \in Seq(Opened) /\ Len(g) = Len(Open) /\ \A i \in 1 .. Len(Open) : g[i] = IF i = d THEN e ELSE Open[i]
    BY <1>7, <1>10, <2>5, ExceptSeq
  <2>. HIDE DEF g
  <2>7. \A i \in 1 .. d : Open'[i] = g[i]
    BY <1>10, <2>2, <2>3, <2>6
  <2>. DEFINE o == Open'
  <2>8. o \in Seq(Opened) /\ Len(o) = d /\ g \in Seq(Opened) /\ Len(g) = d /\ \A i \in 1 .. d : o[i] = g[i]
    BY <1>10, <1>11, <2>6, <2>7
  <2>. HIDE DEF o, d
  <2>9. o = g
    BY <2>8, SeqEqual
  <2>. QED  BY <2>4, <2>9 DEF o, g
<1>14. Texts' = Texts
  <2>1. OpenTables' = OpenTables
    BY <1>1 DEF OpenTables
  <2>2. t \in OpenTables
    BY <1>7, OpenTablesAre
  <2>3. ASSUME NEW u \in Tables, u \notin OpenTables
        PROVE  TextAt(memory', u, memory'[u]) = TextAt(memory, u, memory[u])
    <3>1. u \in Cells /\ u # story_pos
      BY <1>4, CellOfCount
    <3>2. memory'[u] = memory[u] /\ memory[u] \in 0 .. TableRoom
      BY <1>3, <1>5, <3>1 DEF Contents
    <3>3. u # t
      BY <2>2, <2>3
    <3>. QED  BY <1>9, <3>2, <3>3
  <2>. HIDE DEF d, t, n, x, y
  <2>4. \A u \in Tables : TextOf(u)' = TextOf(u)
    BY <2>1, <2>3 DEF TextOf
  <2>. QED  BY <2>4 DEF Texts
<1>15. Distinct'
  BY <1>1, <1>6 DEF Distinct
<1>. QED  BY <1>10, <1>12, <1>13, <1>14, <1>15

LEMMA OpenTablesAreNext ==
  (redirect_depth \in Nat => OpenTables = {Addr(i) : i \in 1 .. redirect_depth})'
BY OpenTablesAre, PTL

\* The table selected before goes to the stash.
LEMMA StashPushed ==
  ASSUME Inv, NEW t \in Tables, SelectTable(t)
  PROVE  \A i \in 1 .. redirect_depth : stash'[i].buffer = Addr(i) /\ stash'[i].count = Count(i)
<1>. DEFINE e == [pos |-> story_pos, buffer |-> story_buffer, count |-> story_count]
            d == redirect_depth - 1
            below == SubSeq(stash, 1, d)
<1>. SUFFICES ASSUME NEW i \in 1 .. redirect_depth
              PROVE  stash'[i].buffer = Addr(i) /\ stash'[i].count = Count(i)
  OBVIOUS
<1>1. /\ redirect_depth \in Nat /\ stash \in Seq(Entry) /\ Len(stash) \in Nat
      /\ redirect_depth <= Len(stash) + 1
  BY LenProperties DEF Inv, StashInv
<1>2. stash' = below \o <<e>>
  BY <1>1 DEF SelectTable
<1>3. e \in Entry /\ e.buffer = story_buffer /\ e.count = story_count
  BY DEF Inv, StashInv, Entry
<1>4. d \in Nat /\ d + 1 = redirect_depth /\ d <= Len(stash)
  BY <1>1
<1>. HIDE DEF e, d
<1>5. 1 \in Int /\ d \in Int /\ \A j \in 1 .. d : stash[j] \in Entry
  <2>1. \A j \in 1 .. d : j \in 1 .. Len(stash)
    BY <1>1, <1>4
  <2>. QED  BY <1>1, <1>4, <2>1, ElementOfSeq
<1>6. /\ below \in Seq(Entry) /\ Len(below) = IF 1 <= d THEN d - 1 + 1 ELSE 0
      /\ \A j \in 1 .. d - 1 + 1 : below[j] = stash[1 + j - 1]
  BY <1>5, SubSeqProperties
<1>7. Len(below) = d /\ \A j \in 1 .. d : below[j] = stash[j]
  BY <1>4, <1>6
<1>. HIDE DEF below
<1>8. <<e>> \in Seq(Entry) /\ Len(<<e>>) = 1 /\ <<e>>[1] = e
  BY <1>3
<1>9. \A j \in 1 .. d + 1 : stash'[j] = IF j <= d THEN below[j] ELSE <<e>>[j - d]
  BY <1>2, <1>6, <1>7, <1>8, ConcatProperties
<1>10. CASE i <= d
  <2>1. i \in 1 .. d /\ i \in 1 .. d + 1 /\ i # redirect_depth
    BY <1>4, <1>10
  <2>2. stash'[i] = stash[i]
    BY <1>7, <1>9, <1>10, <2>1
  <2>. QED  BY <2>1, <2>2 DEF Addr, Count
<1>11. CASE ~ (i <= d)
  <2>1. i = redirect_depth /\ i - d = 1 /\ i \in 1 .. d + 1
    BY <1>4, <1>11
  <2>2. stash'[i] = e
    BY <1>8, <1>9, <1>11, <2>1
  <2>. QED  BY <1>3, <2>1, <2>2 DEF Addr, Count
<1>. QED  BY <1>10, <1>11

LEMMA SelectOpen ==
  ASSUME Inv, Distinct, NEW t \in Tables, SelectTable(t)
  PROVE  /\ Open' = Append(Open, [table |-> t, text |-> <<>>])
         /\ Texts' = [Texts EXCEPT ![t] = Selected]
         /\ Distinct'
<1>1. /\ t \notin OpenTables /\ redirect_depth' = redirect_depth + 1 /\ story_count' = 0
      /\ story_buffer' = t /\ memory' = memory
  BY DEF SelectTable
<1>2. Inv'
  BY SelectKeeps
<1>3. PICK d \in Nat : d = redirect_depth
  BY DEF Inv, StashInv
<1>. DEFINE k == d + 1
<1>4. k \in Nat /\ redirect_depth' = k /\ \A i \in 1 .. k : i = k \/ (i \in 1 .. d /\ i # k)
  BY <1>1, <1>3
<1>. HIDE DEF k
<1>5. Addr(k)' = t /\ Count(k)' = 0
  BY <1>1, <1>4 DEF Addr, Count
<1>6. \A i \in 1 .. d : Addr(i)' = Addr(i) /\ Count(i)' = Count(i) /\ i \in 1 .. k
  <2>. TAKE i \in 1 .. d
  <2>1. i # redirect_depth' /\ i \in 1 .. k
    BY <1>1, <1>3, <1>4
  <2>2. stash'[i].buffer = Addr(i) /\ stash'[i].count = Count(i)
    BY <1>3, StashPushed
  <2>3. Addr(i)' = stash'[i].buffer /\ Count(i)' = stash'[i].count
    BY <2>1 DEF Addr, Count
  <2>. QED  BY <2>1, <2>2, <2>3
<1>7. /\ Open \in Seq(Opened) /\ Len(Open) = d /\ \A i \in 1 .. d : Open[i] = Tabled(i) /\ TableIs(i)
  BY <1>3, OpenIs, TablesAre
<1>8. /\ Open' \in Seq(Opened) /\ Len(Open') = k
      /\ \A i \in 1 .. k : Open'[i] = Tabled(i)' /\ TableIs(i)'
  BY <1>2, <1>4, OpenIsNext, TablesAreNext
<1>9. /\ OpenTables = {Addr(i) : i \in 1 .. d}
      /\ OpenTables' = {Addr(i)' : i \in 1 .. k}
  BY <1>3, <1>4, OpenTablesAre, OpenTablesAreNext
<1>10. Open' = Append(Open, [table |-> t, text |-> <<>>])
  <2>. DEFINE e == [table |-> t, text |-> <<>>]
              g == Append(Open, e)
              o == Open'
  <2>1. Open'[k] = e
    <3>1. k \in 1 .. k
      BY <1>3, <1>4 DEF k
    <3>2. Tabled(k)' = [table |-> Addr(k)', text |-> TextAt(memory', Addr(k)', Count(k)')]
      BY <1>8, <3>1 DEF TableIs
    <3>. QED  BY <1>5, <1>8, <3>1, <3>2, NoText
  <2>2. ASSUME NEW i \in 1 .. d  PROVE Open'[i] = Open[i]
    <3>1. Tabled(i)' = [table |-> Addr(i)', text |-> TextAt(memory', Addr(i)', Count(i)')]
      BY <1>6, <1>8 DEF TableIs
    <3>2. Tabled(i) = [table |-> Addr(i), text |-> TextAt(memory, Addr(i), Count(i))]
      BY <1>7 DEF TableIs
    <3>. QED  BY <1>1, <1>6, <1>7, <1>8, <3>1, <3>2
  <2>3. e \in Opened
    BY EmptySeq DEF Opened
  <2>. HIDE DEF e
  <2>4. g \in Seq(Opened) /\ Len(g) = Len(Open) + 1 /\ g[Len(Open) + 1] = e
        /\ \A i \in 1 .. Len(Open) : g[i] = Open[i]
    BY <1>7, <2>3, AppendProperties
  <2>. HIDE DEF g
  <2>5. \A i \in 1 .. k : Open'[i] = g[i]
    BY <1>4, <1>7, <2>1, <2>2, <2>4 DEF k
  <2>6. o \in Seq(Opened) /\ g \in Seq(Opened) /\ Len(o) = Len(g) /\ \A i \in 1 .. Len(o) : o[i] = g[i]
    BY <1>7, <1>8, <2>4, <2>5 DEF k
  <2>. HIDE DEF o
  <2>7. o = g
    BY <2>6, SeqEqual
  <2>. QED  BY <2>7 DEF o, g, e
<1>11. OpenTables' = OpenTables \cup {t}
  <2>1. \A i \in 1 .. k : Addr(i)' \in OpenTables \cup {t}
    BY <1>4, <1>5, <1>6, <1>9
  <2>2. k \in 1 .. k
    BY <1>3, <1>4 DEF k
  <2>3. t \in OpenTables'
    BY <1>5, <1>9, <2>2
  <2>4. OpenTables \subseteq OpenTables'
    BY <1>6, <1>9
  <2>. QED  BY <1>9, <2>1, <2>3, <2>4
<1>12. Texts' = [Texts EXCEPT ![t] = Selected]
  <2>1. \A u \in Tables : TextOf(u)' = IF u = t THEN Selected ELSE TextOf(u)
    BY <1>1, <1>11 DEF TextOf
  <2>. QED  BY <2>1 DEF Texts
<1>13. Distinct'
  <2>. SUFFICES ASSUME NEW i \in 1 .. k, NEW j \in 1 .. k, Addr(i)' = Addr(j)'  PROVE i = j
    BY <1>4 DEF Distinct
  <2>1. \A h \in 1 .. d : Addr(h) # t
    BY <1>1, <1>9
  <2>2. \A h, g \in 1 .. d : Addr(h) = Addr(g) => h = g
    BY <1>3 DEF Distinct
  <2>3. (i = k \/ i \in 1 .. d) /\ (j = k \/ j \in 1 .. d)
    BY <1>4
  <2>. QED  BY <1>5, <1>6, <2>1, <2>2, <2>3
<1>. QED  BY <1>10, <1>12, <1>13

LEMMA DeselectOpen ==
  ASSUME Inv, Distinct, DeselectTable
  PROVE  /\ Open # <<>> /\ Open' = Front(Open)
         /\ Texts' = [Texts EXCEPT ![Last(Open).table] = Last(Open).text]
         /\ Distinct'
<1>1. /\ redirect_depth > 0 /\ redirect_depth' = redirect_depth - 1
      /\ memory' = [memory EXCEPT ![story_buffer] = story_count] /\ stash' = stash
  BY DEF DeselectTable
<1>2. Inv'
  BY DeselectKeeps
<1>3. PICK k \in Nat : k = redirect_depth
  BY DEF Inv, StashInv
<1>. DEFINE d == k - 1
<1>4. /\ d \in Nat /\ redirect_depth' = d /\ k > 0 /\ k = d + 1 /\ k \in 1 .. k
      /\ \A i \in 1 .. k : i = k \/ i \in 1 .. d
  BY <1>1, <1>3
<1>. HIDE DEF d
<1>5. Addr(k) = story_buffer /\ Count(k) = story_count
  BY <1>3 DEF Addr, Count
<1>6. \A i \in 1 .. d : Addr(i)' = Addr(i) /\ Count(i)' = Count(i) /\ i \in 1 .. k /\ i # k
  <2>. TAKE i \in 1 .. d
  <2>1. i \in 1 .. k /\ i # k
    BY <1>4
  <2>2. Addr(i) = stash[i].buffer /\ Count(i) = stash[i].count
    BY <1>3, <2>1 DEF Addr, Count
  <2>3. CASE i = d
    <3>1. redirect_depth # 1 /\ redirect_depth - 1 = i
      BY <1>3, <1>4, <2>3
    <3>2. story_buffer' = stash[i].buffer /\ story_count' = stash[i].count
      BY <3>1 DEF DeselectTable
    <3>3. Addr(i)' = story_buffer' /\ Count(i)' = story_count'
      BY <1>4, <2>3 DEF Addr, Count
    <3>. QED  BY <2>1, <2>2, <3>2, <3>3
  <2>4. CASE i # d
    BY <1>1, <1>4, <2>1, <2>2, <2>4 DEF Addr, Count
  <2>. QED  BY <2>3, <2>4
<1>7. /\ Open \in Seq(Opened) /\ Len(Open) = k /\ \A i \in 1 .. k : Open[i] = Tabled(i) /\ TableIs(i)
  BY <1>3, OpenIs, TablesAre
<1>8. /\ Open' \in Seq(Opened) /\ Len(Open') = d
      /\ \A i \in 1 .. d : Open'[i] = Tabled(i)' /\ TableIs(i)'
  BY <1>2, <1>4, OpenIsNext, TablesAreNext
<1>9. /\ OpenTables = {Addr(i) : i \in 1 .. k}
      /\ OpenTables' = {Addr(i)' : i \in 1 .. d}
  BY <1>3, <1>4, OpenTablesAre, OpenTablesAreNext
<1>10. /\ story_buffer \in Tables /\ story_buffer \in Cells /\ story_count \in 0 .. TableRoom
       /\ Open[k] = [table |-> story_buffer, text |-> TextAt(memory, story_buffer, story_count)]
  BY <1>4, <1>5, <1>7, CellOfCount DEF TableIs
<1>11. Contents(memory) /\ \A a \in Cells : memory'[a] = IF a = story_buffer THEN story_count ELSE memory[a]
  BY <1>1, <1>10 DEF Inv, Contents
<1>12. ASSUME NEW u \in Tables, NEW m \in 0 .. TableRoom
       PROVE  TextAt(memory', u, m) = TextAt(memory, u, m)
  <2>1. \A a \in Cells : a \notin Tables /\ (\E n \in 1 .. TableRoom : a = u + 1 + n)
                          => memory'[a] = memory[a]
    BY <1>10, <1>11
  <2>. QED  BY <1>12, <2>1, TextKept
<1>13. Open = Append(Open', Open[k])
  <2>. DEFINE o == Open'
              e == Open[k]
              g == Append(o, e)
  <2>1. ASSUME NEW i \in 1 .. d  PROVE o[i] = Open[i]
    <3>1. Tabled(i)' = [table |-> Addr(i)', text |-> TextAt(memory', Addr(i)', Count(i)')]
      BY <1>8 DEF TableIs
    <3>2. /\ Tabled(i) = [table |-> Addr(i), text |-> TextAt(memory, Addr(i), Count(i))]
          /\ Addr(i) \in Tables /\ Count(i) \in 0 .. TableRoom
      BY <1>6, <1>7 DEF TableIs
    <3>3. TextAt(memory', Addr(i), Count(i)) = TextAt(memory, Addr(i), Count(i))
      BY <1>12, <3>2
    <3>. QED  BY <1>6, <1>7, <1>8, <3>1, <3>2, <3>3
  <2>2. o \in Seq(Opened) /\ Len(o) = d /\ e \in Opened
    BY <1>4, <1>7, <1>8, ElementOfSeq
  <2>. HIDE DEF o
  <2>3. g \in Seq(Opened) /\ Len(g) = d + 1 /\ g[d + 1] = e /\ \A i \in 1 .. d : g[i] = o[i]
    <3>. HIDE DEF e
    <3>. QED  BY <2>2, AppendProperties
  <2>. HIDE DEF g
  <2>4. Len(g) = Len(Open) /\ \A i \in 1 .. Len(Open) : Open[i] = g[i]
    BY <1>4, <1>7, <2>1, <2>3
  <2>5. Open = g
    BY <1>7, <2>3, <2>4, SeqEqual
  <2>. QED  BY <2>5 DEF g, o
<1>14. Front(Open) = Open' /\ Last(Open) = Open[k] /\ Open # <<>>
  <2>. DEFINE o == Open'
              e == Open[k]
  <2>1. o \in Seq(Opened) /\ e \in Opened /\ Open = Append(o, e)
    BY <1>4, <1>7, <1>8, <1>13, ElementOfSeq
  <2>. HIDE DEF o, e
  <2>2. Front(Open) = o /\ Last(Open) = e /\ Open # <<>>
    BY <2>1, FrontAndLast
  <2>. QED  BY <2>2 DEF o, e
<1>15. story_buffer \notin OpenTables' /\ story_buffer \in OpenTables
       /\ \A u \in Tables : u # story_buffer => (u \in OpenTables' <=> u \in OpenTables)
  <2>1. \A i \in 1 .. d : Addr(i)' # story_buffer
    BY <1>3, <1>4, <1>5, <1>6 DEF Distinct
  <2>. QED  BY <1>4, <1>5, <1>6, <1>9, <2>1
<1>16. Texts' = [Texts EXCEPT ![story_buffer] = TextAt(memory, story_buffer, story_count)]
  <2>1. \A u \in Tables : u \in Cells /\ memory[u] \in 0 .. TableRoom
    BY <1>11, CellOfCount DEF Contents
  <2>2. ASSUME NEW u \in Tables
        PROVE  TextOf(u)' = IF u = story_buffer THEN TextAt(memory, story_buffer, story_count)
                            ELSE TextOf(u)
    <3>1. CASE u = story_buffer
      <4>1. TextOf(u)' = TextAt(memory', u, memory'[u]) /\ memory'[u] = story_count
        BY <1>11, <1>15, <2>1, <3>1 DEF TextOf
      <4>. QED  BY <1>10, <1>12, <3>1, <4>1
    <3>2. CASE u # story_buffer
      <4>1. memory'[u] = memory[u]
        BY <1>11, <2>1, <3>2
      <4>2. TextAt(memory', u, memory[u]) = TextAt(memory, u, memory[u])
        BY <1>12, <2>1
      <4>. QED  BY <1>15, <3>2, <4>1, <4>2 DEF TextOf
    <3>. QED  BY <3>1, <3>2
  <2>. QED  BY <2>2 DEF Texts
<1>17. Distinct'
  BY <1>3, <1>4, <1>6 DEF Distinct
<1>. QED  BY <1>10, <1>14, <1>16, <1>17

LEMMA RestartOpen ==
  ASSUME Inv, z_restart
  PROVE  Open' = <<>> /\ Texts' = [t \in Tables |-> <<>>] /\ Distinct'
<1>1. redirect_depth' = 0 /\ memory' = StoryFileCells
  BY DEF z_restart
<1>2. Open' = <<>>
  BY <1>1 DEF Open
<1>3. OpenTables' = {}
  BY <1>1 DEF OpenTables
<1>4. \A t \in Tables : memory'[t] = 0
  BY <1>1, CellOfCount DEF StoryFileCells
<1>5. \A t \in Tables : TextOf(t)' = <<>>
  BY <1>3, <1>4, NoText DEF TextOf
<1>6. Texts' = [t \in Tables |-> <<>>]
  BY <1>5 DEF Texts
<1>. QED  BY <1>1, <1>2, <1>6 DEF Distinct

-----------------------------------------------------------------------------
(* The abstract steps *)

SameTabled == Open' = Open /\ Texts' = Texts
SameScreen == outputting' = outputting /\ screen_window' = screen_window

LEMMA AbstractRedirect ==
  ASSUME NEW c \in Chars, Open # <<>>, Open' = [Open EXCEPT ![Len(Open)].text = Append(@, c)],
         Pending' = Pending, shown' = <<>>, Texts' = Texts, SameScreen
  PROVE  Streams!Redirect(c)
BY Zenon DEF Streams!Redirect, Streams!ShowsNothing, Open, Texts, TextOf, TextAt, Pending, SameScreen

LEMMA AbstractPrint ==
  ASSUME NEW c \in Chars, Open = <<>>, SameTabled, SameScreen,
         IF outputting /\ screen_window = TEXT_WINDOW
         THEN \/ Streams!Words(shown' \o Pending') = Streams!Words(Pending \o <<c>>)
              \/ /\ Streams!Letter(c)
                 /\ \/ midline \/ Streams!LastWord(Pending) = <<>>
                    \/ Len(Streams!LastWord(Pending)) >= Width
                 /\ Streams!Visible(shown' \o Pending') = Streams!Visible(Append(Pending, c))
         ELSE Pending' = Pending /\ shown' = <<>>
  PROVE  Streams!PrintChar(c)
BY Zenon DEF Streams!PrintChar, Streams!Flows, Streams!Breaks, Streams!ShowsNothing, Open, Texts,
             TextOf, TextAt, Pending, SameScreen, SameTabled, TEXT_WINDOW

LEMMA AbstractNewLine ==
  ASSUME Open = <<>>, SameTabled, SameScreen,
         IF outputting /\ screen_window = TEXT_WINDOW
         THEN Pending' = <<>> /\ Streams!Words(shown' \o Pending') = Streams!Words(Pending \o <<NL>>)
         ELSE Pending' = Pending /\ shown' = <<>>
  PROVE  Streams!NewLine
BY Zenon DEF Streams!NewLine, Streams!Flows, Streams!ShowsNothing, Open, Texts, TextOf, TextAt,
             Pending, SameScreen, SameTabled, TEXT_WINDOW, NL, Streams!NL

\* All text waiting is shown.
Emptied == Pending' = <<>> /\ Streams!Words(shown' \o Pending') = Streams!Words(Pending \o <<>>)

LEMMA AbstractFlush == Emptied /\ SameTabled /\ SameScreen => Streams!Flush
BY Zenon DEF Streams!Flush, Streams!ShowsAll, Streams!Flows, Open, Texts, TextOf, TextAt, Pending,
             SameScreen, SameTabled, Emptied

LEMMA AbstractReadLine ==
  ASSUME Pending' = <<>>, Streams!Words(shown' \o Pending') = Streams!Words(Pending \o <<NL>>),
         SameTabled, SameScreen
  PROVE  Streams!ReadLine
BY Zenon DEF Streams!ReadLine, Streams!Flows, Open, Texts, TextOf, TextAt, Pending,
             SameScreen, SameTabled, NL, Streams!NL

LEMMA AbstractWindow ==
  ASSUME NEW w, Emptied, SameTabled, outputting' = outputting, screen_window' = w
  PROVE  Streams!SelectWindow(w)
BY Zenon DEF Streams!SelectWindow, Streams!ShowsAll, Streams!Flows, Open, Texts, TextOf, TextAt,
             Pending, SameTabled, Emptied

LEMMA AbstractScreen ==
  ASSUME NEW b, Pending' = Pending, shown' = <<>>, SameTabled, outputting' = b,
         screen_window' = screen_window
  PROVE  Streams!SelectScreen(b)
BY Zenon DEF Streams!SelectScreen, Streams!ShowsNothing, Open, Texts, TextOf, TextAt, Pending,
             SameTabled

LEMMA AbstractSelect ==
  ASSUME NEW t, Pending' = Pending, shown' = <<>>, SameScreen,
         Open' = Append(Open, [table |-> t, text |-> <<>>]),
         Texts' = [Texts EXCEPT ![t] = Selected]
  PROVE  Streams!SelectTable(t)
BY Zenon DEF Streams!SelectTable, Streams!ShowsNothing, Open, Texts, TextOf, TextAt, Pending,
             SameScreen

LEMMA AbstractDeselect ==
  ASSUME Pending' = Pending, shown' = <<>>, SameScreen, Open # <<>>, Open' = Front(Open),
         Texts' = [Texts EXCEPT ![Last(Open).table] = Last(Open).text]
  PROVE  Streams!DeselectTable
BY Zenon DEF Streams!DeselectTable, Streams!ShowsNothing, Open, Texts, TextOf, TextAt, Pending,
             SameScreen, Front, Streams!Front, Last, Streams!Last

LEMMA AbstractRestart ==
  ASSUME Emptied, outputting' = TRUE, screen_window' = TEXT_WINDOW, Open' = <<>>,
         Texts' = [t \in Tables |-> <<>>]
  PROVE  Streams!Restart
BY Zenon DEF Streams!Restart, Streams!ShowsAll, Streams!Flows, Open, Texts, TextOf, TextAt, Pending,
             Emptied, TEXT_WINDOW

-----------------------------------------------------------------------------
(* TextOutput implements TextStreams *)

FullInv == Inv /\ FlowInv /\ Distinct

LEMMA PendingIs ==
  ASSUME Inv, FlowInv
  PROVE  /\ Pending \in Seq(Symbols) /\ line \in Seq(Symbols)
         /\ Pending = IF outputting /\ screen_window = TEXT_WINDOW THEN line ELSE <<>>
<1>1. Pending = IF outputting /\ screen_window = TEXT_WINDOW THEN line ELSE <<>>
  BY DEF Pending, FlowInv
<1>. QED  BY <1>1, TextSymbols, EmptySeq DEF Inv, BufferInv

LEMMA FlushEmpties ==
  ASSUME Inv, FlowInv, NEW flag, flush_buffer(flag)
  PROVE  Emptied /\ midline' = Streams!LeftOpen(midline, shown')
<1>1. shown' = Pending /\ line' = <<>>
  BY PendingIs DEF flush_buffer, Puts
<1>2. Pending' = <<>>
  BY <1>1 DEF Pending
<1>. QED  BY <1>1, <1>2
          DEF Emptied, flush_buffer, Puts, Streams!LeftOpen, Last, Streams!Last, NL, Streams!NL

LEMMA NothingShown ==
  ASSUME PutsNothing
  PROVE  shown' = <<>> /\ midline' = Streams!LeftOpen(midline, shown')
BY DEF PutsNothing, Streams!LeftOpen

LEMMA PutsLeavesOpen ==
  ASSUME NEW s, Puts(s)
  PROVE  midline' = Streams!LeftOpen(midline, shown')
BY DEF Puts, Streams!LeftOpen, Last, Streams!Last, NL, Streams!NL

LEMMA RedirectedIs ==
  ASSUME FullInv, NEW c \in Chars, Redirected(c)
  PROVE  Streams!Next /\ Distinct'
<1>1. /\ Open # <<>> /\ Open' = [Open EXCEPT ![Len(Open)].text = Append(@, c)]
      /\ Texts' = Texts /\ Distinct'
  BY RedirectedOpen DEF FullInv
<1>2. shown' = <<>> /\ midline' = Streams!LeftOpen(midline, shown')
  BY NothingShown DEF Redirected
<1>3. Pending' = Pending /\ SameScreen
  BY DEF Redirected, Pending, SameScreen, buffer, modes
<1>4. Streams!Redirect(c)
  BY <1>1, <1>2, <1>3, AbstractRedirect
<1>. QED  BY <1>1, <1>2, <1>4
          DEF Streams!Next, Chars, Streams!Chars, SP, Streams!SP, CR, Streams!CR

LEMMA PrintedIs ==
  ASSUME FullInv, NEW c \in Chars, write_char(c)
  PROVE  Streams!Next /\ Distinct'
<1>. DEFINE LetThrough ==
       IF outputting /\ screen_window = TEXT_WINDOW
       THEN \/ Streams!Words(shown' \o Pending') = Streams!Words(Pending \o <<c>>)
            \/ /\ Streams!Letter(c)
               /\ \/ midline \/ Streams!LastWord(Pending) = <<>>
                  \/ Len(Streams!LastWord(Pending)) >= Width
               /\ Streams!Visible(shown' \o Pending') = Streams!Visible(Append(Pending, c))
       ELSE Pending' = Pending /\ shown' = <<>>
<1>1. ASSUME redirect_depth = 0, UNCHANGED <<modes, redirection>>, LetThrough,
             midline' = Streams!LeftOpen(midline, shown')
      PROVE  Streams!Next /\ Distinct'
  <2>1. Open = <<>> /\ SameTabled /\ SameScreen /\ Distinct'
    BY <1>1, OpenOrNone, SameOpen DEF SameTabled, SameScreen, modes, FullInv
  <2>2. Streams!PrintChar(c)
    <3>. HIDE DEF SameTabled, SameScreen
    <3>. QED  BY <1>1, <2>1, AbstractPrint
  <2>. QED  BY <1>1, <2>1, <2>2
            DEF Streams!Next, Chars, Streams!Chars, SP, Streams!SP, CR, Streams!CR
<1>2. line \in Seq(Symbols) /\ c \in Symbols /\ Append(line, c) = line \o <<c>>
  BY PendingIs, TextSymbols, AppendIsConcat DEF FullInv
<1>3. CASE /\ redirect_depth = 0 /\ formatting /\ screen_window = TEXT_WINDOW
           /\ SetBuffer(Formatted(Buffer, c))
           /\ UNCHANGED <<modes, redirection>>
  <2>. DEFINE f == Formatted(Buffer, c)
  <2>1. \/ Streams!Words(f.sent \o f.line) = Streams!Words(Append(line, c))
        \/ Broken(Buffer, c, f)
    BY FormattedFlows DEF FullInv, Inv
  <2>. HIDE DEF f
  <2>2. Puts(f.sent) /\ line' = f.line /\ outputting' = outputting
    BY <1>3 DEF SetBuffer, modes, f
  <2>3. LetThrough
    <3>1. CASE ~outputting
      BY <2>2, <3>1 DEF Puts, Pending
    <3>2. CASE outputting
      <4>1. shown' = f.sent /\ Pending' = f.line /\ Pending = line
        BY <1>3, <2>2, <3>2 DEF Puts, Pending
      <4>2. CASE Broken(Buffer, c, f)
        <5>1. /\ Streams!Letter(c)
              /\ Enough(Buffer) => Len(Streams!LastWord(line)) >= Width
              /\ Streams!Visible(f.sent \o f.line) = Streams!Visible(Append(line, c))
          BY <4>2, BrokenShows DEF FullInv, Inv
        <5>2. midline \/ Enough(Buffer)
          BY <3>2, BufferIs DEF FullInv, FlowInv, Enough, Inv
        <5>. QED  BY <1>3, <3>2, <4>1, <5>1, <5>2
      <4>3. CASE Streams!Words(f.sent \o f.line) = Streams!Words(Append(line, c))
        BY <1>2, <1>3, <3>2, <4>1, <4>3
      <4>. QED  BY <2>1, <4>2, <4>3
    <3>. QED  BY <3>1, <3>2
  <2>4. midline' = Streams!LeftOpen(midline, shown')
    BY <2>2, PutsLeavesOpen
  <2>. HIDE DEF LetThrough
  <2>. QED  BY <1>1, <1>3, <2>3, <2>4
<1>4. CASE /\ redirect_depth = 0 /\ ~(formatting /\ screen_window = TEXT_WINDOW)
           /\ Puts(<<c>>)
           /\ UNCHANGED <<buffer, modes, redirection>>
  <2>1. Pending' = Pending
    BY <1>4 DEF Pending, buffer, modes
  <2>2. LetThrough
    <3>1. CASE outputting /\ screen_window = TEXT_WINDOW
      <4>1. line = <<>>
        BY <1>4, <3>1 DEF FullInv, FlowInv
      <4>2. Pending = <<>> /\ Pending' = <<>> /\ shown' = <<c>>
        BY <1>4, <2>1, <3>1, <4>1 DEF Pending, Puts
      <4>3. <<c>> \in Seq(Symbols)
        BY <1>2
      <4>4. <<c>> \o <<>> = <<c>> /\ <<>> \o <<c>> = <<c>>
        BY <4>3, ConcatEmptySeq
      <4>. QED  BY <3>1, <4>2, <4>4
    <3>2. CASE ~ (outputting /\ screen_window = TEXT_WINDOW)
      BY <1>4, <2>1, <3>2 DEF Puts
    <3>. QED  BY <3>1, <3>2
  <2>3. midline' = Streams!LeftOpen(midline, shown')
    BY <1>4, PutsLeavesOpen
  <2>. HIDE DEF LetThrough
  <2>. QED  BY <1>1, <1>4, <2>2, <2>3
<1>. QED  BY <1>3, <1>4, RedirectedIs DEF write_char

LEMMA NewLineIs ==
  ASSUME FullInv, z_new_line
  PROVE  Streams!Next /\ Distinct'
<1>1. CASE Redirected(CR)
  BY <1>1, RedirectedIs DEF Chars
<1>2. CASE /\ redirect_depth = 0 /\ SetBuffer(LineEnded(Buffer)) /\ UNCHANGED <<modes, redirection>>
  <2>1. Open = <<>> /\ SameTabled /\ SameScreen /\ Distinct'
    BY <1>2, OpenOrNone, SameOpen DEF SameTabled, SameScreen, modes, FullInv
  <2>2. Puts(Append(line, NL)) /\ line' = <<>>
    BY <1>2, LineEndedFlows, LineEndedFits DEF SetBuffer, FullInv, Inv
  <2>3. Append(line, NL) = line \o <<NL>> /\ Append(line, NL) \in Seq(Symbols)
    BY PendingIs, TextSymbols, AppendIsConcat, AppendProperties DEF FullInv
  <2>4. Pending' = <<>>
    BY <2>2 DEF Pending
  <2>5. CASE outputting /\ screen_window = TEXT_WINDOW
    <3>1. shown' = Append(line, NL) /\ Pending = line
      BY <2>2, <2>5 DEF Puts, Pending
    <3>2. shown' \o Pending' = Pending \o <<NL>>
      BY <2>3, <2>4, <3>1, ConcatEmptySeq
    <3>3. Streams!NewLine
      BY <2>1, <2>4, <2>5, <3>2, AbstractNewLine
    <3>. QED  BY <2>1, <2>2, <3>3, PutsLeavesOpen DEF Streams!Next
  <2>6. CASE ~ (outputting /\ screen_window = TEXT_WINDOW)
    <3>1. shown' = <<>> /\ Pending = <<>>
      BY <2>2, <2>6, PendingIs DEF Puts, FullInv
    <3>2. Streams!NewLine
      BY <2>1, <2>4, <2>6, <3>1, AbstractNewLine
    <3>. QED  BY <2>1, <2>2, <3>2, PutsLeavesOpen DEF Streams!Next
  <2>. QED  BY <2>5, <2>6
<1>. QED  BY <1>1, <1>2 DEF z_new_line

LEMMA ReadIs ==
  ASSUME FullInv, z_sread_aread
  PROVE  Streams!Next /\ Distinct'
<1>1. /\ line' = <<>> /\ midline' = FALSE /\ UNCHANGED <<modes, redirection>>
      /\ shown' = Pending \o <<NL>>
  BY PendingIs DEF z_sread_aread, FullInv
<1>2. SameTabled /\ SameScreen /\ Distinct'
  BY <1>1, SameOpen DEF SameTabled, SameScreen, modes, FullInv
<1>3. Pending' = <<>>
  BY <1>1 DEF Pending
<1>4. Pending \in Seq(Symbols) /\ Append(Pending, NL) = Pending \o <<NL>>
      /\ Append(Pending, NL) \in Seq(Symbols)
  BY PendingIs, TextSymbols, AppendIsConcat, AppendProperties DEF FullInv
<1>. DEFINE s == Append(Pending, NL)
<1>5. s # <<>> /\ Last(s) = NL
  BY <1>4, TextSymbols, FrontAndLast
<1>6. shown' = s /\ s \in Seq(Symbols)
  BY <1>1, <1>4
<1>. HIDE DEF s
<1>7. shown' \o Pending' = Pending \o <<NL>>
  BY <1>1, <1>3, <1>6, ConcatEmptySeq
<1>8. Streams!ReadLine
  BY <1>2, <1>3, <1>7, AbstractReadLine
<1>9. midline' = Streams!LeftOpen(midline, shown')
  <2>1. Streams!LeftOpen(midline, shown') = (Last(shown') # NL)
    BY <1>5, <1>6 DEF Streams!LeftOpen, Last, Streams!Last, NL, Streams!NL
  <2>. QED  BY <1>1, <1>5, <1>6, <2>1
<1>. QED  BY <1>2, <1>8, <1>9 DEF Streams!Next

\* Each step of the buffer and the tables is one of the abstract text's.
LEMMA NextImplements ==
  ASSUME Careful, FullInv, Next
  PROVE  Streams!Next /\ Distinct'
<1>. USE DEF FullInv
<1>1. ASSUME NEW w \in Windows, z_set_window(w)  PROVE Streams!Next /\ Distinct'
  <2>1. flush_buffer(FALSE) /\ screen_window' = w /\ outputting' = outputting /\ UNCHANGED redirection
    BY <1>1 DEF z_set_window
  <2>2. SameTabled /\ Distinct' /\ Emptied /\ midline' = Streams!LeftOpen(midline, shown')
    BY <2>1, SameOpen, FlushEmpties DEF SameTabled
  <2>3. Streams!SelectWindow(w)
    BY <2>1, <2>2, AbstractWindow
  <2>4. w \in {"text", "status"}
    BY DEF Windows, TEXT_WINDOW, STATUS_WINDOW
  <2>. QED  BY <2>2, <2>3, <2>4 DEF Streams!Next
<1>2. ASSUME NEW flag, flush_buffer(flag), UNCHANGED redirection, SameScreen
      PROVE  Streams!Next /\ Distinct'
  <2>1. SameTabled /\ Distinct' /\ Emptied /\ midline' = Streams!LeftOpen(midline, shown')
    BY <1>2, SameOpen, FlushEmpties DEF SameTabled
  <2>2. Streams!Flush
    BY <1>2, <2>1, AbstractFlush
  <2>. QED  BY <2>1, <2>2 DEF Streams!Next
<1>3. ASSUME NEW b \in BOOLEAN, z_buffer_mode(b)  PROVE Streams!Next /\ Distinct'
  BY <1>2, <1>3 DEF z_buffer_mode, SameScreen
<1>4. ASSUME NEW b \in BOOLEAN, SelectScreen(b)  PROVE Streams!Next /\ Distinct'
  <2>1. /\ line = <<>> /\ line' = line /\ outputting' = b /\ PutsNothing
        /\ screen_window' = screen_window /\ UNCHANGED redirection
    BY <1>4 DEF SelectScreen, buffer
  <2>2. SameTabled /\ Distinct' /\ shown' = <<>> /\ midline' = Streams!LeftOpen(midline, shown')
    BY <2>1, SameOpen, NothingShown DEF SameTabled
  <2>3. Pending' = Pending
    BY <2>1 DEF Pending
  <2>4. Streams!SelectScreen(b)
    BY <2>1, <2>2, <2>3, AbstractScreen
  <2>. QED  BY <2>2, <2>4 DEF Streams!Next
<1>5. ASSUME z_erase_window \/ z_read_char  PROVE Streams!Next /\ Distinct'
  BY <1>2, <1>5 DEF z_erase_window, z_read_char, SameScreen, modes
<1>6. ASSUME NEW t \in Tables, SelectTable(t)  PROVE Streams!Next /\ Distinct'
  <2>1. /\ Open' = Append(Open, [table |-> t, text |-> <<>>])
        /\ Texts' = [Texts EXCEPT ![t] = Selected] /\ Distinct'
    BY <1>6, SelectOpen
  <2>2. shown' = <<>> /\ midline' = Streams!LeftOpen(midline, shown')
    BY <1>6, NothingShown DEF SelectTable
  <2>3. Pending' = Pending /\ SameScreen
    BY <1>6 DEF SelectTable, Pending, SameScreen, buffer
  <2>4. Streams!SelectTable(t)
    BY <2>1, <2>2, <2>3, AbstractSelect
  <2>. QED  BY <2>1, <2>2, <2>4 DEF Streams!Next
<1>7. ASSUME DeselectTable  PROVE Streams!Next /\ Distinct'
  <2>1. /\ Open # <<>> /\ Open' = Front(Open)
        /\ Texts' = [Texts EXCEPT ![Last(Open).table] = Last(Open).text] /\ Distinct'
    BY <1>7, DeselectOpen
  <2>2. shown' = <<>> /\ midline' = Streams!LeftOpen(midline, shown')
    BY <1>7, NothingShown DEF DeselectTable
  <2>3. Pending' = Pending /\ SameScreen
    BY <1>7 DEF DeselectTable, Pending, SameScreen, buffer
  <2>4. Streams!DeselectTable
    BY <2>1, <2>2, <2>3, AbstractDeselect
  <2>. QED  BY <2>1, <2>2, <2>4 DEF Streams!Next
<1>8. ASSUME z_restart  PROVE Streams!Next /\ Distinct'
  <2>1. Emptied /\ midline' = Streams!LeftOpen(midline, shown')
    BY <1>8, FlushEmpties DEF z_restart
  <2>2. outputting' = TRUE /\ screen_window' = TEXT_WINDOW
    BY <1>8 DEF z_restart
  <2>3. Open' = <<>> /\ Texts' = [t \in Tables |-> <<>>] /\ Distinct'
    BY <1>8, RestartOpen
  <2>4. Streams!Restart
    BY <2>1, <2>2, <2>3, AbstractRestart
  <2>. QED  BY <2>1, <2>3, <2>4 DEF Streams!Next
<1>. QED  BY <1>1, <1>3, <1>4, <1>5, <1>6, <1>7, <1>8, PrintedIs, NewLineIs, ReadIs DEF Next

LEMMA InitImplements == Init => Streams!Init /\ Distinct
<1>. SUFFICES ASSUME Init  PROVE Streams!Init /\ Distinct
  OBVIOUS
<1>1. redirect_depth = 0 /\ memory = StoryFileCells /\ line = <<>> /\ shown = <<>>
      /\ midline = FALSE /\ outputting = TRUE /\ screen_window = "text"
  BY DEF Init, TEXT_WINDOW
<1>2. Open = <<>> /\ Pending = <<>>
  BY <1>1 DEF Open, Pending
<1>3. \A t \in Tables : TextOf(t) = <<>>
  <2>1. OpenTables = {}
    BY <1>1 DEF OpenTables
  <2>2. \A t \in Tables : memory[t] = 0
    BY <1>1, CellOfCount DEF StoryFileCells
  <2>. QED  BY <2>1, <2>2, NoText DEF TextOf
<1>4. Texts = [t \in Tables |-> <<>>]
  BY <1>3 DEF Texts
<1>5. Streams!Init
  BY <1>1, <1>2, <1>4, Zenon DEF Streams!Init, Open, Pending, Texts, TextOf, TextAt
<1>. QED  BY <1>1, <1>5 DEF Distinct

\* In a story that switches the screen at a line's start and restarts in the text
\* window, whatever it prints, every letter is shown once and in order, blanks become
\* line ends only, a word is broken only for want of room, and each table gets the
\* text printed while it was the one selected last: output_char, flush_buffer,
\* mem_stream_open and mem_stream_close.
THEOREM ImplementsStreams == Careful => (Spec => ImplementsTextStreams)
<1>. SUFFICES ASSUME Careful  PROVE Spec => ImplementsTextStreams
  OBVIOUS
<1>1. Init => FullInv /\ Streams!Init
  BY InitInv, InitFlow, InitImplements DEF FullInv
<1>2. FullInv /\ [Next]_vars => FullInv' /\ [Streams!Next]_(Streams!vars)
  <2>1. ASSUME FullInv, Next  PROVE FullInv' /\ Streams!Next
    BY <2>1, NextKeeps, NextFlows, NextImplements DEF FullInv
  <2>2. ASSUME FullInv, UNCHANGED vars  PROVE FullInv' /\ UNCHANGED Streams!vars
    <3>1. FlowInv'
      BY <2>2 DEF FullInv, FlowInv, vars, buffer, modes, redirection
    <3>2. UNCHANGED redirection /\ Open' = Open /\ Texts' = Texts /\ Distinct' /\ Inv'
      BY <2>2, SameOpen, StutterKeeps DEF FullInv, vars
    <3>3. Pending' = Pending /\ shown' = shown /\ midline' = midline /\ outputting' = outputting
          /\ screen_window' = screen_window
      BY <2>2 DEF vars, buffer, modes, Pending
    <3>4. UNCHANGED Streams!vars
      BY <3>2, <3>3, Zenon DEF Streams!vars, Open, Pending, Texts, TextOf, TextAt
    <3>. QED  BY <3>1, <3>2, <3>4 DEF FullInv
  <2>. QED  BY <2>1, <2>2
<1>. QED  BY <1>1, <1>2, PTL DEF Spec, ImplementsTextStreams, Streams!Spec
=============================================================================
