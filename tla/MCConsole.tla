------------------------------ MODULE MCConsole ------------------------------
(***************************************************************************)
(* Three names and three lines; the longest line has no room for its end     *)
(* when it is played back into a buffer of three.                            *)
(***************************************************************************)
EXTENDS Console

ThreeLines == {<<>>, <<"y">>, <<"n", "y">>}
ThreeNames == {<<"s">>, <<"r">>, <<"y">>}
OneTail == {<<"y">>}
OneGame == {<<"s">>}
S == <<"s">>
R == <<"r">>

\* What a step gave has no future.
MCView == <<keyboard, status, asking, files, default, stream, playback, history>>
=============================================================================
