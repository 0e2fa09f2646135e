----------------------------- MODULE CmdParser -----------------------------
(***************************************************************************)
(* CmdHandler::parseCommand of projects 1 and 2: the words of an input     *)
(* line become a queue of command lines.  Every numbered pipe ends a       *)
(* command line, so one input line may become several.  Project 2 adds the *)
(* user pipes, <n and >n, and the chat commands, which take the rest of    *)
(* the line as their message.                                              *)
(***************************************************************************)
EXTENDS Naturals, Sequences, SequencesExt

CONSTANT Words      \* the words that are neither connectors nor built-ins

\* A token with the words it takes along: ">" its file name, printenv and
\* setenv their arguments; "talk" is tell, yell or name.
Tokens(numbers, uids) ==
    [t : {"word"}, w : Words] \cup [t : {"|", ">", "exit", "env", "talk"}]
        \cup [t : {"num"}, n : numbers, err : BOOLEAN] \cup [t : {"from", "to"}, uid : uids]

ConnOf(tok) == CASE tok.t = "|"   -> [conn |-> "PIPE", n |-> 0, err |-> FALSE]
                 [] tok.t = ">"   -> [conn |-> "FILE_CMD", n |-> 0, err |-> FALSE]
                 [] tok.t = "num" -> [conn |-> "NUMBERED_PIPE", n |-> tok.n, err |-> tok.err]
                 [] tok.t = "to"  -> [conn |-> "USER_PIPE", n |-> tok.uid, err |-> FALSE]
NoConn == [conn |-> "END", n |-> 0, err |-> FALSE]
ExeCommand(argv, c) == [argv |-> argv, conn |-> c.conn, n |-> c.n, err |-> c.err]
Uids(r, w) == [read |-> r, write |-> w]

\* What the loop over the tokens carries.  argv and the commands of
\* npCommandLine are empty after a std::move; its _readUid and _writeUid are
\* numbers, which a move leaves as they are.
Start == [argv |-> << >>, line |-> << >>, uids |-> Uids(0, 0),
          ret |-> << >>, users |-> << >>, exit |-> FALSE, talk |-> FALSE]

EndLine(acc) == [acc EXCEPT !.line = << >>, !.ret = Append(@, acc.line),
                            !.users = Append(@, acc.uids)]
AddCommand(acc, tok) ==
    [acc EXCEPT !.argv = << >>, !.line = Append(@, ExeCommand(acc.argv, ConnOf(tok))),
                !.uids.write = IF tok.t = "to" THEN tok.uid ELSE @]

\* Mutant: the words are copied into the command instead of moved.
OnConnectorKeepArgv(acc, tok) ==
    LET next == [AddCommand(acc, tok) EXCEPT !.argv = acc.argv]
    IN  IF tok.t = "num" THEN EndLine(next) ELSE next
\* Mutant: every connector starts with a fresh line's uids.
OnConnectorClearUids(acc, tok) ==
    LET next == [AddCommand(acc, tok) EXCEPT !.uids.read = 0]
    IN  IF tok.t = "num" THEN EndLine(next) ELSE next
OnConnector(acc, tok) ==
    IF tok.t = "num" THEN EndLine(AddCommand(acc, tok)) ELSE AddCommand(acc, tok)

OnToken(acc, tok) ==
    CASE acc.talk         -> acc
      [] tok.t = "word"   -> [acc EXCEPT !.argv = Append(@, tok.w)]
      [] tok.t = "exit"   -> [acc EXCEPT !.exit = TRUE]
      [] tok.t = "env"    -> acc
      [] tok.t = "talk"   -> [acc EXCEPT !.talk = TRUE]
      [] tok.t = "from"   -> [acc EXCEPT !.uids.read = tok.uid]
      [] OTHER            -> OnConnector(acc, tok)

\* The command and the command line that the end of the input completes.
Finish(acc) ==
    LET all == IF acc.argv = << >> THEN acc
               ELSE [acc EXCEPT !.line = Append(@, ExeCommand(acc.argv, NoConn))]
        end == IF all.line = << >> THEN all ELSE EndLine(all)
    IN  [queue |-> end.ret, users |-> end.users, exit |-> end.exit]

ParseCommand(tokens) == Finish(FoldLeft(OnToken, Start, tokens))

-----------------------------------------------------------------------------
(* The reference: where the connectors are decides everything.             *)

IsConnector(tok) == tok.t \in {"|", ">", "num", "to"}

\* What stands before the first chat command.
BeforeTalk(tokens) ==
    LET talk == {k \in DOMAIN tokens : tokens[k].t = "talk"}
    IN  IF talk = {} THEN tokens ELSE SubSeq(tokens, 1, Min(talk) - 1)
WordsOf(tokens)  == LET ws == SelectSeq(tokens, LAMBDA tok : tok.t = "word")
                    IN  [k \in DOMAIN ws |-> ws[k].w]

\* Positions of the connectors in order, and the end of the line.
Cuts(tokens) ==
    SetToSortSeq({k \in DOMAIN tokens : IsConnector(tokens[k])}, LAMBDA a, b : a < b)

\* The k-th command is made of the words between two cuts.
Segment(tokens, k) ==
    LET cuts == Cuts(tokens)
        from == IF k = 1 THEN 1 ELSE cuts[k - 1] + 1
        to   == IF k > Len(cuts) THEN Len(tokens) ELSE cuts[k] - 1
    IN  ExeCommand(WordsOf(SubSeq(tokens, from, to)),
                   IF k > Len(cuts) THEN NoConn ELSE ConnOf(tokens[cuts[k]]))
Segments(tokens) ==
    LET n == Len(Cuts(tokens))
        all == [k \in 1 .. n + 1 |-> Segment(tokens, k)]
    IN  IF all[n + 1].argv = << >> THEN Front(all) ELSE all

\* The user pipes written in the part of the line that ends with the k-th
\* numbered pipe: the last <n and the last >n of it, 0 for none.
Parts(tokens) ==
    SetToSortSeq({k \in DOMAIN tokens : tokens[k].t = "num"} \cup {Len(tokens) + 1}, LAMBDA a, b : a < b)
LastUid(tokens, from, to, t) ==
    LET at == {k \in from .. to : tokens[k].t = t}
    IN  IF at = {} THEN 0 ELSE tokens[Max(at)].uid
UsersAsWritten(tokens) ==
    LET ends == Parts(tokens)
        from(k) == IF k = 1 THEN 1 ELSE ends[k - 1] + 1
    IN  [k \in DOMAIN ends |-> Uids(LastUid(tokens, from(k), ends[k] - 1, "from"),
                                    LastUid(tokens, from(k), ends[k] - 1, "to"))]
=============================================================================
