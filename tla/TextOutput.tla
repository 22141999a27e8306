----------------------------- MODULE TextOutput -----------------------------
(***************************************************************************)
(* The output of text.c and screen.c for a story of V4 or later: the line  *)
(* buffer with its two limits, the windows, output streams 1 and 3, and    *)
(* what a restart resets.  The screen is the one of unixio.c, which shows  *)
(* the text window only.  What goes to the transcript is here the text     *)
(* script_char is given while scripting_disable is off.                    *)
(***************************************************************************)
EXTENDS Integers, Sequences, SequencesExt

CONSTANTS
    Width,      \* screen_cols - right_margin
    Letters,    \* the printable characters other than the space
    Tables,     \* the addresses of the tables for redirected text
    TableRoom,  \* the characters a table has room for
    Careful     \* the story selects the screen, or not, at a line's start only,
                \* and restarts with the text window selected

ASSUME TextOutputAssumption ==
    /\ Width \in Nat \ {0}
    /\ Letters \cap {"space", "return", "newline"} = {}
    /\ Tables \subseteq Nat
    /\ \A t, u \in Tables : t < u => t + 2 + TableRoom <= u
    /\ TableRoom \in Nat
    /\ Careful \in BOOLEAN

SP == "space"
CR == "return"
NL == "newline"
Chars == Letters \cup {SP, CR}
TEXT_WINDOW == "text"
STATUS_WINDOW == "status"
Windows == {TEXT_WINDOW, STATUS_WINDOW}

\* A table has the count, a word, in its first two bytes.
Cells == UNION {{t} \cup t + 2 .. t + 1 + TableRoom : t \in Tables}
StoryFileCells == [a \in Cells |-> IF a \in Tables THEN 0 ELSE SP]

VARIABLES
    line, char_count,               \* the buffer, and the columns left
    formatting, saved_formatting,
    outputting, scripting_disable, screen_window,
    redirect_depth, stash, story_buffer, story_pos, story_count,
    memory,                         \* the cells of the tables
    shown, scripted,                \* text the last step put on the screen,
                                    \* and gave to the transcript
    midline                         \* the screen's last line has text

buffer == <<line, char_count>>
modes == <<formatting, saved_formatting, outputting, scripting_disable, screen_window>>
redirection == <<redirect_depth, stash, story_buffer, story_pos, story_count, memory>>
vars == <<buffer, modes, redirection, shown, scripted, midline>>

-----------------------------------------------------------------------------
(* Characters on their way: flush_buffer, output_char, script_char *)

isprint(c) == c \in Letters \cup {SP}

\* What script_char writes of a text.
Written(s) ==
    LET written[t \in Seq(Chars \cup {NL})] ==
          IF t = <<>> THEN <<>>
          ELSE IF isprint(Last(t)) \/ Last(t) = NL THEN Append(written[Front(t)], Last(t))
          ELSE written[Front(t)]
    IN written[s]

\* sent is the text that leaves the buffer.
Puts(sent) ==
    /\ shown' = IF outputting /\ screen_window = TEXT_WINDOW THEN sent ELSE <<>>
    /\ scripted' = IF scripting_disable THEN <<>> ELSE Written(sent)
    /\ midline' = IF shown' = <<>> THEN midline ELSE Last(shown') # NL

PutsNothing == shown' = <<>> /\ scripted' = <<>> /\ UNCHANGED midline

flush_buffer(flag) ==
    /\ Puts(line)
    /\ line' = <<>>
    /\ char_count' = IF flag THEN Width ELSE char_count

\* What a character does to the buffer: its line, the columns left, and the
\* text sent so far.
Buffer == [line |-> line, count |-> char_count, sent |-> <<>>]
LineEnded(b) == [line |-> <<>>, count |-> Width, sent |-> b.sent \o Append(b.line, NL)]

\* Mutant: one character more than the line has columns.
Fits_exceeding(b) == Len(b.line) <= Width /\ b.count >= 1
\* Mutant: the length of the buffer is not tested.
Fits_counted(b) == b.count >= 1
Fits(b) == Len(b.line) < Width /\ b.count >= 1
LastSpace(s) == SelectLastInSeq(s, LAMBDA c : c = SP)

\* Mutant: the first character behind the space is lost.
Wrapped_short(b) ==
    LET cut == LastSpace(b.line)
    IN IF cut = 0 THEN LineEnded(b)
       ELSE [LineEnded([b EXCEPT !.line = SubSeq(@, 1, cut - 1)])
                EXCEPT !.line = SubSeq(b.line, cut + 2, Len(b.line))]
\* The wrap before a character that does not fit: the buffer ends at its last space.
Wrapped(b) ==
    LET cut == LastSpace(b.line)
    IN IF cut = 0 THEN LineEnded(b)
       ELSE [LineEnded([b EXCEPT !.line = SubSeq(@, 1, cut - 1)])
                EXCEPT !.line = SubSeq(b.line, cut + 1, Len(b.line))]

Appended(b, c) ==
    IF c = CR THEN LineEnded(b)
    ELSE [b EXCEPT !.line = Append(@, c), !.count = @ - 1]

Formatted(b, c) ==
    CASE Fits(b) -> Appended(b, c)
      [] ~Fits(b) /\ c = SP -> LineEnded(b)
      [] OTHER -> Appended(Wrapped(b), c)

SetBuffer(b) ==
    /\ line' = b.line
    /\ char_count' = b.count
    /\ Puts(b.sent)

-----------------------------------------------------------------------------
(* Printing *)

Redirected(c) ==
    /\ redirect_depth > 0
    /\ story_count < TableRoom
    /\ memory' = [memory EXCEPT ![story_pos] = c]
    /\ story_pos' = story_pos + 1
    /\ story_count' = story_count + 1
    /\ PutsNothing
    /\ UNCHANGED <<buffer, modes, redirect_depth, stash, story_buffer>>

write_char(c) ==
    \/ Redirected(c)
    \/ /\ redirect_depth = 0 /\ formatting /\ screen_window = TEXT_WINDOW
       /\ SetBuffer(Formatted(Buffer, c))
       /\ UNCHANGED <<modes, redirection>>
    \/ /\ redirect_depth = 0 /\ ~(formatting /\ screen_window = TEXT_WINDOW)
       /\ Puts(<<c>>)
       /\ UNCHANGED <<buffer, modes, redirection>>

z_new_line ==
    \/ Redirected(CR)
    \/ /\ redirect_depth = 0
       /\ SetBuffer(LineEnded(Buffer))
       /\ UNCHANGED <<modes, redirection>>

-----------------------------------------------------------------------------
(* Windows, modes and input *)

\* Mutant: the transcript is switched by the window left.
z_set_window_late(w) ==
    /\ flush_buffer(FALSE)
    /\ screen_window' = w
    /\ formatting' = (w = TEXT_WINDOW)
    /\ scripting_disable' = (screen_window = STATUS_WINDOW)
    /\ UNCHANGED <<saved_formatting, outputting, redirection>>

z_set_window(w) ==
    /\ flush_buffer(FALSE)
    /\ screen_window' = w
    /\ formatting' = (w = TEXT_WINDOW)
    /\ scripting_disable' = (w = STATUS_WINDOW)
    /\ UNCHANGED <<saved_formatting, outputting, redirection>>

z_buffer_mode(flag) ==
    /\ flush_buffer(FALSE)
    /\ formatting' = flag
    /\ UNCHANGED <<saved_formatting, outputting, scripting_disable, screen_window, redirection>>

z_erase_window == flush_buffer(TRUE) /\ UNCHANGED <<modes, redirection>>

z_read_char == flush_buffer(FALSE) /\ UNCHANGED <<modes, redirection>>

\* The line end that input_line shows is not output of the story: neither the
\* window nor stream 1 counts for it.
z_sread_aread ==
    /\ line' = <<>>
    /\ char_count' = Width
    /\ shown' = (IF outputting /\ screen_window = TEXT_WINDOW THEN line ELSE <<>>) \o <<NL>>
    /\ scripted' = IF scripting_disable THEN <<>> ELSE Written(Append(line, NL))
    /\ midline' = FALSE
    /\ UNCHANGED <<modes, redirection>>

-----------------------------------------------------------------------------
(* z_output_stream *)

SelectScreen(b) ==
    /\ Careful => line = <<>> /\ char_count = Width
    /\ outputting' = b
    /\ PutsNothing
    /\ UNCHANGED <<buffer, formatting, saved_formatting, scripting_disable, screen_window,
                   redirection>>

OpenTables == {story_buffer : i \in 1 .. redirect_depth}
              \cup {stash[i].buffer : i \in 1 .. redirect_depth - 1}

SelectTable(t) ==
    /\ t \notin OpenTables
    /\ IF redirect_depth = 0
       THEN /\ saved_formatting' = formatting
            /\ formatting' = FALSE
            /\ UNCHANGED stash
       ELSE /\ stash' = SubSeq(stash, 1, redirect_depth - 1) \o
                        <<[pos |-> story_pos, buffer |-> story_buffer, count |-> story_count]>>
            /\ UNCHANGED <<saved_formatting, formatting>>
    /\ redirect_depth' = redirect_depth + 1
    /\ story_count' = 0
    /\ story_buffer' = t
    /\ story_pos' = t + 2
    /\ PutsNothing
    /\ UNCHANGED <<buffer, outputting, scripting_disable, screen_window, memory>>

DeselectTable ==
    /\ redirect_depth > 0
    /\ memory' = [memory EXCEPT ![story_buffer] = story_count]
    /\ redirect_depth' = redirect_depth - 1
    /\ IF redirect_depth = 1
       THEN /\ formatting' = saved_formatting
            /\ UNCHANGED <<story_pos, story_buffer, story_count>>
       ELSE LET s == stash[redirect_depth - 1] IN
            /\ story_pos' = s.pos
            /\ story_buffer' = s.buffer
            /\ story_count' = s.count
            /\ UNCHANGED formatting
    /\ PutsNothing
    /\ UNCHANGED <<buffer, saved_formatting, outputting, scripting_disable, screen_window, stash>>

-----------------------------------------------------------------------------
\* The window selected stays selected.
z_restart ==
    /\ Careful => screen_window = TEXT_WINDOW
    /\ flush_buffer(TRUE)
    /\ formatting' = TRUE
    /\ outputting' = TRUE
    /\ redirect_depth' = 0
    /\ scripting_disable' = FALSE
    /\ memory' = StoryFileCells
    /\ UNCHANGED <<saved_formatting, screen_window, stash, story_buffer, story_pos, story_count>>

Init ==
    /\ line = <<>> /\ char_count = Width
    /\ formatting = TRUE /\ saved_formatting = TRUE
    /\ outputting = TRUE /\ scripting_disable = FALSE
    /\ screen_window = TEXT_WINDOW
    /\ redirect_depth = 0 /\ stash = <<>>
    /\ story_buffer = 0 /\ story_pos = 0 /\ story_count = 0
    /\ memory = StoryFileCells
    /\ shown = <<>> /\ scripted = <<>> /\ midline = FALSE

Next ==
    \/ \E c \in Chars : write_char(c)
    \/ z_new_line
    \/ \E w \in Windows : z_set_window(w)
    \/ \E b \in BOOLEAN : z_buffer_mode(b) \/ SelectScreen(b)
    \/ z_erase_window \/ z_read_char \/ z_sread_aread
    \/ \E t \in Tables : SelectTable(t)
    \/ DeselectTable
    \/ z_restart

Spec == Init /\ [][Next]_vars

-----------------------------------------------------------------------------
(* Properties *)

\* The line buffer has screen_cols + 1 bytes, a stash entry exists for every
\* outer table, and the text of a table stays in its room.
TypeOK ==
    /\ line \in BoundedSeq(Letters \cup {SP}, Width)
    /\ char_count \in Int /\ char_count <= Width
    /\ formatting \in BOOLEAN /\ saved_formatting \in BOOLEAN
    /\ outputting \in BOOLEAN /\ scripting_disable \in BOOLEAN
    /\ screen_window \in Windows
    /\ redirect_depth \in 0 .. Len(stash) + 1
    /\ redirect_depth > 0 => story_buffer \in Tables /\ story_pos = story_buffer + 2 + story_count
    /\ \A a \in Cells : IF a \in Tables THEN memory[a] \in 0 .. TableRoom ELSE memory[a] \in Chars

Tabled(i) ==
    LET text(t, end) == [a \in 1 .. end - t - 2 |-> memory[t + 1 + a]]
        outer == stash[i]
    IN IF i = redirect_depth
       THEN [table |-> story_buffer, text |-> text(story_buffer, story_pos)]
       ELSE [table |-> outer.buffer, text |-> text(outer.buffer, outer.pos)]

Selected == "selected"

Streams == INSTANCE TextStreams WITH
    pending <- IF outputting THEN line ELSE <<>>,
    on      <- outputting,
    window  <- screen_window,
    open    <- [i \in 1 .. redirect_depth |-> Tabled(i)],
    tables  <- [t \in Tables |-> IF t \in OpenTables THEN Selected
                                 ELSE [i \in 1 .. memory[t] |-> memory[t + 1 + i]]]

\* Every letter printed is shown once and in order, blanks only become line
\* ends, words are broken only for want of room, and a table gets the text
\* printed while it was the last one selected.
ImplementsTextStreams == Streams!Spec

\* The parts of the text shown that are lines of their own.
WholeLines(s) ==
    {SubSeq(s, i, j) : i \in {k \in DOMAIN s : k = 1 \/ s[k - 1] = NL},
                       j \in {k \in DOMAIN s : k = Len(s) \/ s[k + 1] = NL}}

\* A line that begins at the left of the screen and gets its text through the
\* buffer does not pass the right margin.
LinesFit ==
    [][formatting /\ ~midline => \A l \in WholeLines(shown') :
            (\A i \in DOMAIN l : l[i] # NL) => Len(l) <= Width]_vars

\* While the screen is selected the transcript gets what the screen shows.
CopiedAsShown ==
    [][outputting => Streams!Visible(scripted') = Streams!Visible(shown')]_vars
=============================================================================
