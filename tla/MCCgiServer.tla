---------------------------- MODULE MCCgiServer ----------------------------
(* Two sessions, the first with a per cent sign in its output: a line that *)
(* mentions exit and one that is exit, and a file that cannot be opened.   *)
EXTENDS CgiServer
MCFiles == {<< <<"run", "mention">>, <<"exit">> >>, << <<"run", "exit">>, << >> >>}
MCOutputs == <<{<<"L">>, <<"p">>}, {<< >>}>>
=============================================================================
