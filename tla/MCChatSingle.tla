---------------------------- MODULE MCChatSingle ----------------------------
(* Small instances of ChatSingle. *)
EXTENDS ChatSingle

Name1(n)   == [op |-> "name", name |-> n]
Setenv(v)  == [op |-> "setenv", path |-> v]
TellTo(i)  == [op |-> "tell", uid |-> i]
Run(r, w)  == [op |-> "run", from |-> r, to |-> w]
ExitLine   == [op |-> "exit"]
CatLine    == [op |-> "cat"]

CONSTANTS c1, c2, c3, alice, longname, usrbin, sbin

ChatLines == (c1 :> {Run(0, 2), Name1(alice), Name1(longname), ExitLine})
          @@ (c2 :> {Run(1, 1), Setenv(usrbin), Name1(alice), ExitLine})
          @@ (c3 :> {Run(2, 0), Setenv(sbin), TellTo(0), CatLine})
PipeLines == [c \in Clients |-> {Run(0, 2), Run(1, 0), ExitLine}]
=============================================================================
