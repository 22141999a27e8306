------------------------------ MODULE Console ------------------------------
(***************************************************************************)
(* What the player types and the files the player names: standard input as *)
(* unixio.c reads it, the prompt for a file name with its question before  *)
(* a file is written over, and the command file of fileio.c that records   *)
(* input and plays it back.  The story empties its text buffer before it   *)
(* reads a line.                                                           *)
(***************************************************************************)
EXTENDS Integers, Sequences, SequencesExt, Functions

CONSTANTS
    Version,       \* h_type
    Lines,         \* what the player may type in a line, without its end
    Names,         \* the names of files
    Stale,         \* what may stand behind a line in the text buffer
    BufLen,        \* buflen of the story's reads
    NameLen,       \* buflen of the prompt
    OldGames,      \* the names of the saved games there are at the start
    SaveName, RecordName,  \* SAVE_NAME, RECORD_NAME
    MaxSession,    \* responses that are followed in a recording
    None

NL == "newline"
CR == "return"
NUL == "nul"
KeyCode == "code"     \* a key in the form <ooo>, read as text

WritingUses == {"save", "record"}
Uses == WritingUses \cup {"restore", "playback"}
DefaultFor(use) == IF use \in {"save", "restore"} THEN "save" ELSE "record"

Text(chars) == [i \in DOMAIN chars |-> [char |-> chars[i], key |-> FALSE]]
TapedLine(chars) == Text(Append(chars, NL))
TapedKey(key) == <<[char |-> key, key |-> TRUE]>> \o Text(<<NL>>)

\* A file that is asked for, and what the player said so far.
Questions == [use : Uses, name : Names, yes : BOOLEAN, again : BOOLEAN]

ASSUME ConsoleAssumption ==
    /\ BufLen \in Nat \ {0, 1} /\ NameLen \in Nat \ {0, 1}
    /\ MaxSession \in Nat
    /\ None \notin Questions

VARIABLES
    rest,               \* the rest of a line input_character took a part of
    eof, halt,          \* end of standard input; halt of interpre.c
    status,             \* "run", "prompt", "stopped" or "fatal"
    asking,             \* use and name of the file asked for, and consent to write it over
    files,              \* name -> a saved game, or a command file, and its text
    default,            \* save_name and record_name
    recording, replaying,
    playback,           \* what is left of the command file that is replayed
    answer,             \* what the last step gave
    session,            \* the file recorded last and what was answered meanwhile
    todo                \* the part of it that a replay of the file has still to give

keyboard == <<rest, eof, halt>>
stream == <<recording, replaying>>
history == <<session, todo>>
consoleVars == <<keyboard, status, asking, files, default, stream, playback, answer, history>>

-----------------------------------------------------------------------------
(* input_line and input_character; playback_line and playback_key *)

Cut(s, n) == IF Len(s) <= n THEN s ELSE SubSeq(s, 1, n)

\* Mutant: the end of the input is taken for an empty line.
EndOfInput_line == [eof |-> TRUE, halt |-> FALSE]
EndOfInput == [eof |-> TRUE, halt |-> TRUE]

\* A line from the keyboard into a buffer of n characters.
TypedLines(n) ==
    IF rest # <<>> THEN {[line |-> Cut(Front(rest), n), eof |-> eof, halt |-> halt]}
    ELSE {[line |-> Cut(l, n), eof |-> FALSE, halt |-> halt] : l \in IF eof THEN {} ELSE Lines}
         \cup {[line |-> <<>>, eof |-> EndOfInput.eof, halt |-> EndOfInput.halt]}

KeyFrom(s) ==
    [key |-> IF Head(s) = NL THEN CR ELSE Head(s), rest |-> Tail(s), eof |-> eof, halt |-> halt]
TypedKeys ==
    IF rest # <<>> THEN {KeyFrom(rest)}
    ELSE {KeyFrom(Append(l, NL)) : l \in IF eof THEN {} ELSE Lines}
         \cup {[key |-> NUL, rest |-> <<>>, eof |-> TRUE, halt |-> TRUE]}

\* Mutant: the end of the line is left in the file.
PlayedLine_open(n) ==
    LET end   == SelectInSeq(playback, LAMBDA c : c.char = NL)
        whole == end < n
        read  == SubSeq(playback, 1, IF whole THEN end - 1 ELSE n - 1)
    IN [line |-> [i \in DOMAIN read |-> IF read[i].key THEN KeyCode ELSE read[i].char],
        left |-> SubSeq(playback, IF whole THEN end ELSE n, Len(playback))]
\* fgets takes n - 1 characters at most, the end of the line included.
PlayedLine(n) ==
    LET end   == SelectInSeq(playback, LAMBDA c : c.char = NL)
        whole == end < n
        read  == SubSeq(playback, 1, IF whole THEN end - 1 ELSE n - 1)
    IN [line |-> [i \in DOMAIN read |-> IF read[i].key THEN KeyCode ELSE read[i].char],
        left |-> SubSeq(playback, IF whole THEN end + 1 ELSE n, Len(playback))]

\* fscanf skips every blank behind a key.
SkipBlanks(s) ==
    LET other == SelectInSeq(s, LAMBDA c : c.char # NL)
    IN IF other = 0 THEN <<>> ELSE SubSeq(s, other, Len(s))

\* Before a line fscanf reads nothing and leaves the key unset: it may be any,
\* and -1, for which the keyboard is asked.
PlayedKeys ==
    IF Head(playback).key
    THEN {[key |-> Head(playback).char, left |-> SkipBlanks(Tail(playback))]}
    ELSE {[key |-> NUL, left |-> playback]}
KeyUnset == ~Head(playback).key

Plays == replaying /\ playback # <<>>

-----------------------------------------------------------------------------
(* record_line and record_key, with the history the properties look at *)

Response(kind, value, exact) == [kind |-> kind, value |-> value, exact |-> exact]

\* The bound: a recording with more than MaxSession responses is not followed.
Follows == recording /\ session.file # None
Full == Len(session.responses) >= MaxSession
NoSession == [file |-> None, responses |-> <<>>]

FilesWith(taped) ==
    IF Follows /\ ~Full THEN [files EXCEPT ![session.file].text = @ \o taped] ELSE files
SessionWith(response) ==
    IF ~Follows THEN session
    ELSE IF Full THEN NoSession
    ELSE [session EXCEPT !.responses = Append(@, response)]
Recorded(response, taped) == files' = FilesWith(taped) /\ session' = SessionWith(response)

NoAnswer == [kind |-> "none", value |-> <<>>]

\* close_record, when the command file is at its end.
Answered(kind, value) ==
    /\ answer' = [kind |-> kind, value |-> value]
    /\ replaying' = Plays
    /\ todo' = IF Plays /\ todo # <<>> /\ Head(todo).kind = kind THEN Tail(todo) ELSE <<>>

-----------------------------------------------------------------------------
(* Reads of the story *)

\* The string in the buffer behind a line.  From V5 on the line has its length
\* beside it and no null behind, and the string goes on with what is there.
BufferStrings(line) ==
    {line} \cup {line \o t : t \in IF Version < 5 THEN {}
                                   ELSE {t \in Stale : Len(line \o t) <= BufLen}}

z_sread_aread ==
    /\ status = "run" /\ ~halt
    /\ IF Plays
       THEN /\ Answered("line", PlayedLine(BufLen).line)
            /\ playback' = PlayedLine(BufLen).left
            /\ UNCHANGED <<keyboard, files, session>>
       ELSE \E t \in TypedLines(BufLen) :
            /\ Answered("line", t.line)
            /\ rest' = <<>> /\ eof' = t.eof /\ halt' = t.halt
            /\ \E string \in BufferStrings(t.line) :
                Recorded(Response("line", t.line, string = t.line), TapedLine(string))
            /\ UNCHANGED playback
    /\ UNCHANGED <<status, asking, default, recording>>

PlayKey ==
    /\ Plays
    /\ \E k \in PlayedKeys :
        /\ Answered("key", <<k.key>>)
        /\ playback' = k.left
    /\ UNCHANGED <<keyboard, files, session>>

TypeKey ==
    /\ Plays => KeyUnset
    /\ \E k \in TypedKeys :
        /\ Answered("key", <<k.key>>)
        /\ rest' = k.rest /\ eof' = k.eof /\ halt' = k.halt
        /\ Recorded(Response("key", <<k.key>>, TRUE), TapedKey(k.key))
    /\ UNCHANGED playback

z_read_char ==
    /\ status = "run" /\ ~halt
    /\ PlayKey \/ TypeKey
    /\ UNCHANGED <<status, asking, default, recording>>

-----------------------------------------------------------------------------
(* get_file_name, and what its callers do with the name *)

SavedGame == [game |-> TRUE, text |-> <<>>]
CommandFile == [game |-> FALSE, text |-> <<>>]
\* What an open for writing leaves, whether there was such a file or not.
Put(name, file, fs) == [n \in {name} \cup DOMAIN fs |-> IF n = name THEN file ELSE fs[n]]

\* Mutant: a command file is written over without a question.
Overwrites_unasked(use, name) == use = "save" /\ name \in DOMAIN files
Overwrites(use, name) == use \in WritingUses /\ name \in DOMAIN files

\* The player does not play a saved game back and does not write over the file
\* that is being recorded.  The bound: the names are Names, and there
\* is one command file at a time.
Sensible(use, name) ==
    /\ use = "playback" /\ name \in DOMAIN files => ~files[name].game
    /\ name \in Names
    /\ recording => name # default["record"]
    /\ use = "record" => \A n \in DOMAIN files \ {name} : files[n].game

Named(use, line) ==
    LET name == IF line = <<>> THEN default[DefaultFor(use)] ELSE line IN
    /\ Sensible(use, name)
    /\ Answered("name", name)
    /\ asking' = [use |-> use, name |-> name, yes |-> FALSE, again |-> FALSE]
    /\ status' = IF Overwrites(use, name) THEN "prompt" ELSE "named"

\* Mutant: recording may start while a file is played back.
MayAsk_playing(use) == use \in {"record", "playback"} => ~recording
\* "Recording or playback are already active."
MayAsk(use) == use \in {"record", "playback"} => ~(recording \/ replaying)

get_file_name(use) ==
    /\ status = "run" /\ ~halt
    /\ MayAsk(use)
    /\ IF Plays
       THEN /\ Named(use, PlayedLine(NameLen).line)
            /\ playback' = PlayedLine(NameLen).left
            /\ UNCHANGED keyboard
       ELSE \E t \in TypedLines(NameLen) :
            /\ Named(use, t.line)
            /\ rest' = <<>> /\ eof' = t.eof /\ halt' = t.halt
            /\ UNCHANGED playback
    /\ UNCHANGED <<files, default, recording, session>>

\* The question is put again until a key is y or n, also at the end of the input;
\* again only makes that a step.
Question ==
    /\ status = "prompt"
    /\ \E k \in TypedKeys :
        /\ answer' = [kind |-> "question", value |-> <<k.key>>]
        /\ rest' = k.rest /\ eof' = k.eof /\ halt' = k.halt
        /\ status' = CASE k.key = "y" -> "named" [] k.key = "n" -> "run" [] OTHER -> "prompt"
        /\ asking' = IF k.key = "n" THEN None
                     ELSE [asking EXCEPT !.yes = (k.key = "y"), !.again = ~@ /\ k.key # "y"]
        /\ session' = IF k.key = "n" THEN SessionWith(Response("name", asking.name, FALSE)) ELSE session
    /\ UNCHANGED <<files, default, stream, playback, todo>>

\* The name goes to the command file first.
NameTaped == FilesWith(TapedLine(asking.name))
NameAnswered == SessionWith(Response("name", asking.name, TRUE))
\* The history ends when its file is written over or removed.
Forget(s, name) ==
    IF s.file # name THEN s ELSE IF replaying THEN [s EXCEPT !.file = None] ELSE NoSession

Callers == <<default, stream, playback, todo>>

NotOpened ==
    /\ asking.use \in {"restore", "playback"} => asking.name \notin DOMAIN files
    /\ files' = NameTaped /\ session' = NameAnswered
    /\ status' = "run"
    /\ UNCHANGED Callers

SaveFails ==
    /\ asking.use = "save"
    /\ files' = Restrict(NameTaped, DOMAIN files \ {asking.name})
    /\ session' = Forget(NameAnswered, asking.name)
    /\ status' = "run"
    /\ UNCHANGED Callers

Saved ==
    /\ asking.use = "save"
    /\ files' = Put(asking.name, SavedGame, NameTaped)
    /\ session' = Forget(NameAnswered, asking.name)
    /\ default' = [default EXCEPT !["save"] = asking.name]
    /\ status' = "run"
    /\ UNCHANGED <<stream, playback, todo>>

\* A command file is no saved game, and refusing one is fatal.
Restored ==
    /\ asking.use = "restore" /\ asking.name \in DOMAIN files
    /\ files' = NameTaped /\ session' = NameAnswered
    /\ IF files[asking.name].game
       THEN /\ default' = [default EXCEPT !["save"] = asking.name]
            /\ status' = "run"
       ELSE status' = "fatal" /\ UNCHANGED default
    /\ UNCHANGED <<stream, playback, todo>>

open_record ==
    /\ asking.use = "record"
    /\ files' = Put(asking.name, CommandFile, files)
    /\ recording' = TRUE
    /\ default' = [default EXCEPT !["record"] = asking.name]
    /\ session' = [file |-> asking.name, responses |-> <<>>]
    /\ status' = "run"
    /\ UNCHANGED <<replaying, playback, todo>>

z_input_stream ==
    /\ asking.use = "playback" /\ asking.name \in DOMAIN files
    /\ replaying' = TRUE
    /\ playback' = files[asking.name].text
    /\ default' = [default EXCEPT !["record"] = asking.name]
    /\ todo' = IF session.file = asking.name THEN session.responses ELSE <<>>
    /\ status' = "run"
    /\ UNCHANGED <<files, recording, session>>

Finish ==
    /\ status = "named"
    /\ NotOpened \/ SaveFails \/ Saved \/ Restored \/ open_record \/ z_input_stream
    /\ asking' = None /\ answer' = NoAnswer
    /\ UNCHANGED keyboard

-----------------------------------------------------------------------------
close_record ==
    /\ status = "run" /\ ~halt
    /\ recording \/ replaying
    /\ recording' = FALSE /\ replaying' = FALSE
    /\ playback' = <<>> /\ todo' = <<>> /\ answer' = NoAnswer
    /\ UNCHANGED <<keyboard, status, asking, files, default, session>>

\* The loop of interpret ends before the next instruction.
Stop ==
    /\ status = "run" /\ halt
    /\ status' = "stopped" /\ answer' = NoAnswer
    /\ UNCHANGED <<keyboard, asking, files, default, stream, playback, history>>

ConsoleInit ==
    /\ rest = <<>> /\ eof = FALSE /\ halt = FALSE
    /\ status = "run" /\ asking = None
    /\ files = [n \in OldGames |-> SavedGame]
    /\ default = [save |-> SaveName, record |-> RecordName]
    /\ recording = FALSE /\ replaying = FALSE
    /\ playback = <<>>
    /\ answer = NoAnswer
    /\ session = NoSession /\ todo = <<>>

ConsoleNext ==
    \/ z_sread_aread \/ z_read_char
    \/ \E use \in Uses : get_file_name(use)
    \/ Question \/ Finish
    \/ close_record
    \/ Stop

\* The program runs on, and the story reads a line again and again.
Fairness ==
    /\ WF_consoleVars(Stop) /\ WF_consoleVars(Finish) /\ WF_consoleVars(Question)
    /\ WF_consoleVars(z_sread_aread)
ConsoleSpec == ConsoleInit /\ [][ConsoleNext]_consoleVars /\ Fairness

-----------------------------------------------------------------------------
(* Properties *)

\* Recording and replaying share the one file pointer and exclude each other,
\* and a question is about a file that is there.
ConsoleTypeOK ==
    /\ ~(recording /\ replaying)
    /\ replaying \/ playback = <<>>
    /\ status \in {"run", "prompt", "named", "stopped", "fatal"}
    /\ status = "prompt" => asking.name \in DOMAIN files
    /\ eof => rest = <<>>

\* A recording that plays back as it was made: the text written for a line was
\* the line, fgets has room for it with its end, no name was refused, and no
\* empty line stands behind a key, where fscanf skips it.
Unambiguous(responses) ==
    \A i \in DOMAIN responses :
        LET r == responses[i] IN
        /\ r.exact
        /\ r.kind = "line" => Len(r.value) <= BufLen - 2
        /\ r.kind = "name" => Len(r.value) <= NameLen - 2
        /\ r.value = <<>> => i = 1 \/ responses[i - 1].kind # "key"

\* The story that reads again what it read while an unambiguous recording was
\* made is given the same responses.
Repeats ==
    todo # <<>> /\ answer'.kind = Head(todo).kind => answer'.value = Head(todo).value
ReplayRepeats == [][Unambiguous(session.responses) => Repeats]_consoleVars

\* No file is lost or written over unless the player said so, but for the
\* file being recorded.
OldFilesKept ==
    [][\A n \in DOMAIN files :
        (n \notin DOMAIN files' \/ files'[n] # files[n]) =>
            \/ asking # None /\ asking.name = n /\ asking.yes
            \/ recording /\ n = default["record"]]_consoleVars

\* At the end of the input the program ends, or asks again and again whether
\* it may write over a file.
EndOfInputSeen == eof ~> status \in {"stopped", "fatal", "prompt"}
=============================================================================
