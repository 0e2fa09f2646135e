---------------------------- MODULE MCChatMulti ----------------------------
(* Small instances of ChatMulti. *)
EXTENDS ChatMulti, TLC

TellTo(i)  == [op |-> "tell", uid |-> i]
Yell       == [op |-> "yell"]
Run(r, w)  == [op |-> "run", from |-> r, to |-> w]
ExitCmd    == [op |-> "exit"]

MultiCommands == {TellTo(2), Yell, Run(0, 2), Run(1, 0), Run(2, 1), ExitCmd}
Processes == Permutations(Clients)
====
