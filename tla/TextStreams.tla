---------------------------- MODULE TextStreams ----------------------------
(***************************************************************************)
(* What text.c promises a story of V4 or later: printed text goes to the   *)
(* table selected last, and with no table selected to the text window,     *)
(* where blanks may become line ends but no letter is lost or moved, and a *)
(* word is broken only when there is no room for it in a line.             *)
(***************************************************************************)
EXTENDS Integers, Sequences, SequencesExt

CONSTANTS
    Width,      \* columns of a line in the text window
    Letters,    \* the printable characters other than the space
    Tables,     \* the addresses of the tables for redirected text
    Selected    \* the content of a table while it is selected

SP == "space"
CR == "return"
NL == "newline"
Chars == Letters \cup {SP, CR}

VARIABLES
    pending,    \* text printed to the text window and not shown yet
    shown,      \* text the last step showed
    midline,    \* the last line shown has text and no end yet
    on,         \* the screen is selected
    window,     \* the window selected, "text" or "status"
    open,       \* the tables selected and their text so far, the last one last
    tables      \* table -> its text

vars == <<pending, shown, midline, on, window, open, tables>>

Letter(c) == c \in Letters
Symbols == Chars \cup {NL}

\* The letters of a text.
Visible(s) ==
    LET letters[t \in Seq(Symbols)] ==
          IF t = <<>> THEN <<>>
          ELSE IF Letter(Last(t)) THEN Append(letters[Front(t)], Last(t))
          ELSE letters[Front(t)]
    IN letters[s]

\* The text with each run of blanks as one.
Words(s) ==
    LET words[t \in Seq(Symbols)] ==
          IF t = <<>> THEN <<>>
          ELSE LET before == words[Front(t)] IN
               IF Letter(Last(t)) THEN Append(before, Last(t))
               ELSE IF before # <<>> /\ Last(before) = SP THEN before
               ELSE Append(before, SP)
    IN words[s]

\* Whether a line is left open by showing s behind an open or an empty line.
LeftOpen(mid, s) == IF s = <<>> THEN mid ELSE Last(s) # NL

\* The word that the text ends with.
LastWord(s) ==
    LET starts == {i \in 1 .. Len(s) + 1 : \A j \in i .. Len(s) : Letter(s[j])}
    IN SubSeq(s, CHOOSE i \in starts : \A j \in starts : i <= j, Len(s))

-----------------------------------------------------------------------------
Flows(new) == Words(shown' \o pending') = Words(pending \o new)

Breaks(c) ==
    /\ Letter(c)
    /\ midline \/ LastWord(pending) = <<>> \/ Len(LastWord(pending)) >= Width
    /\ Visible(shown' \o pending') = Visible(Append(pending, c))

ShowsAll == pending' = <<>> /\ Flows(<<>>)
ShowsNothing == pending' = pending /\ shown' = <<>>

Init ==
    /\ pending = <<>> /\ shown = <<>> /\ midline = FALSE
    /\ on = TRUE
    /\ window = "text"
    /\ open = <<>>
    /\ tables = [t \in Tables |-> <<>>]

Redirect(c) ==
    /\ open # <<>>
    /\ open' = [open EXCEPT ![Len(open)].text = Append(@, c)]
    /\ ShowsNothing
    /\ UNCHANGED <<on, window, tables>>

PrintChar(c) ==
    /\ open = <<>>
    /\ IF on /\ window = "text" THEN Flows(<<c>>) \/ Breaks(c) ELSE ShowsNothing
    /\ UNCHANGED <<on, window, open, tables>>

NewLine ==
    /\ open = <<>>
    /\ IF on /\ window = "text" THEN pending' = <<>> /\ Flows(<<NL>>) ELSE ShowsNothing
    /\ UNCHANGED <<on, window, open, tables>>

Flush == ShowsAll /\ UNCHANGED <<on, window, open, tables>>

\* The line end of the player's input is shown in any window.
ReadLine ==
    /\ pending' = <<>> /\ Flows(<<NL>>)
    /\ UNCHANGED <<on, window, open, tables>>

SelectWindow(w) == ShowsAll /\ window' = w /\ UNCHANGED <<on, open, tables>>

SelectScreen(b) == ShowsNothing /\ on' = b /\ UNCHANGED <<window, open, tables>>

SelectTable(t) ==
    /\ open' = Append(open, [table |-> t, text |-> <<>>])
    /\ tables' = [tables EXCEPT ![t] = Selected]
    /\ ShowsNothing
    /\ UNCHANGED <<on, window>>

\* The text of the table is complete, and the one selected before goes on.
DeselectTable ==
    /\ open # <<>>
    /\ open' = Front(open)
    /\ tables' = [tables EXCEPT ![Last(open).table] = Last(open).text]
    /\ ShowsNothing
    /\ UNCHANGED <<on, window>>

Restart ==
    /\ ShowsAll
    /\ on' = TRUE
    /\ window' = "text"
    /\ open' = <<>>
    /\ tables' = [t \in Tables |-> <<>>]

Next ==
    /\ \/ \E c \in Chars : Redirect(c) \/ PrintChar(c)
       \/ NewLine \/ Flush \/ ReadLine
       \/ \E w \in {"text", "status"} : SelectWindow(w)
       \/ \E b \in BOOLEAN : SelectScreen(b)
       \/ \E t \in Tables : SelectTable(t)
       \/ DeselectTable
       \/ Restart
    /\ midline' = LeftOpen(midline, shown')

Spec == Init /\ [][Next]_vars
=============================================================================
