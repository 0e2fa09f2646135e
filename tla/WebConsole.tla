---------------------------- MODULE WebConsole ----------------------------
(***************************************************************************)
(* The web console, console.cgi of projects 3 and 4: one session per shell *)
(* server.  A session shows what the server sends; at every prompt it      *)
(* sends the next line of its file of commands.  Project 4 reaches the     *)
(* servers through a SOCKS server, with blocking calls, one session after  *)
(* the other, before the event loop starts.                                *)
(*                                                                         *)
(* What a server sends is a stream of tokens: "L" is text up to a newline, *)
(* and the prompt is the two tokens "%" and "blank".  The network delivers *)
(* it in pieces of any length.  The servers are external.                  *)
(***************************************************************************)
EXTENDS Integers, Sequences, FiniteSets, SequencesExt

CONSTANTS
    NSessions,   \* sessions 1 .. NSessions, in the order of the query
    File,        \* File[s]: the lines of the session's file: commands, "run", and
                 \* perhaps "exit" as the last one; empty if it cannot be opened
    Outputs      \* Outputs[s]: what a command at that server may print

Sessions == 1 .. NSessions
Newline == "L"
PromptTokens == <<"%", "blank">>

ASSUME SessionsAssumption ==
    /\ NSessions \in Nat
    /\ File \in [Sessions -> Seq({"run", "exit"})]
    /\ \A s \in Sessions : \A i \in DOMAIN File[s] : File[s][i] = "exit" => i = Len(File[s])
    /\ \A s \in Sessions : Outputs[s] \subseteq Seq({"L", "%", "blank"})

VARIABLES
    proxied,     \* project 4 (connectProxy) or project 3 (run)
    alive,       \* the console process
    st,          \* st[s]: where the session is
    shellOutput, \* shellOutput[s]: what async_read_until has read, not yet shown
    sent,        \* commands sent: lines of the file read
    wire,        \* on the way from the server
    inbox,       \* commands the server has not executed yet
    closed,      \* the server has closed the connection
    shown,       \* history: tokens shown
    produced,    \* history: tokens the server sent
    prompts,     \* history: prompts the server sent
    fake,        \* history: how often output looked like a prompt
    torn         \* history: a read ended between "%" and "blank" after a newline

server == <<wire, inbox, closed, produced, prompts, fake>>
console == <<st, shellOutput, sent, shown, torn>>
vars == <<proxied, alive, server, console>>

TypeOK ==
    /\ proxied \in BOOLEAN /\ alive \in BOOLEAN
    /\ st \in [Sessions -> {"new", "open", "done", "failed"}]
    /\ shellOutput \in [Sessions -> Seq({"L", "%", "blank"})]
    /\ sent \in [Sessions -> Nat] /\ \A s \in Sessions : sent[s] <= Len(File[s])
    /\ wire \in [Sessions -> Seq({"L", "%", "blank"})]
    /\ inbox \in [Sessions -> Seq({"run", "exit"})]
    /\ closed \in [Sessions -> BOOLEAN] /\ torn \in [Sessions -> BOOLEAN]
    /\ shown \in [Sessions -> Nat] /\ produced \in [Sessions -> Nat]
    /\ prompts \in [Sessions -> Nat] /\ fake \in [Sessions -> Nat]

Init ==
    /\ proxied \in BOOLEAN /\ alive = TRUE
    /\ st = [s \in Sessions |-> "new"]
    /\ shellOutput = [s \in Sessions |-> << >>]
    /\ sent = [s \in Sessions |-> 0]
    /\ wire = [s \in Sessions |-> << >>] /\ inbox = [s \in Sessions |-> << >>]
    /\ closed = [s \in Sessions |-> FALSE] /\ torn = [s \in Sessions |-> FALSE]
    /\ shown = [s \in Sessions |-> 0] /\ produced = [s \in Sessions |-> 0]
    /\ prompts = [s \in Sessions |-> 0] /\ fake = [s \in Sessions |-> 0]

Set(f, s, v) == [f EXCEPT ![s] = v]

\* How often "% " occurs in b.
Prompts(b) == Cardinality({i \in 1 .. Len(b) - 1 : b[i] = "%" /\ b[i + 1] = "blank"})

-----------------------------------------------------------------------------
(* The shell servers.                                                      *)

\* Server s sends out, and a prompt or the end of the connection.
Sends(s, out, last) ==
    LET new == IF last THEN out ELSE out \o PromptTokens
    IN  /\ wire' = [wire EXCEPT ![s] = @ \o new]
        /\ produced' = [produced EXCEPT ![s] = @ + Len(new)]
        /\ prompts' = [prompts EXCEPT ![s] = IF last THEN @ ELSE @ + 1]
        /\ fake' = [fake EXCEPT ![s] = @ + Prompts(out)]
        /\ closed' = Set(closed, s, last)

\* The server executes a command; "exit" prints nothing and closes.
ServerRuns(s) ==
    /\ inbox[s] # << >> /\ ~closed[s]
    /\ \/ Head(inbox[s]) = "exit" /\ Sends(s, << >>, TRUE)
       \/ Head(inbox[s]) = "run" /\ \E out \in Outputs[s] : Sends(s, out, FALSE)
    /\ inbox' = [inbox EXCEPT ![s] = Tail(@)]
    /\ UNCHANGED <<proxied, alive, console>>

-----------------------------------------------------------------------------
(* Connecting.                                                             *)

\* The server greets with a line and its prompt.
Greets(s) == Sends(s, <<Newline>>, FALSE) /\ UNCHANGED inbox

\* run: async_resolve and async_connect; a session that fails ends quietly.
Run(s) ==
    /\ alive /\ ~proxied /\ st[s] = "new"
    /\ \/ st' = Set(st, s, "open") /\ Greets(s)
       \/ st' = Set(st, s, "failed") /\ UNCHANGED server
    /\ UNCHANGED <<proxied, alive, shellOutput, sent, shown, torn>>

\* connectProxy: resolve, connect, write the request and read the reply, all
\* blocking.  Without a reply (the SOCKS server closes the connection when it
\* cannot reach the shell server) read_some throws, and nobody catches it.
ConnectProxy(s) ==
    /\ alive /\ proxied /\ st[s] = "new"
    /\ \A r \in 1 .. s - 1 : st[r] # "new"
    /\ \/ st' = Set(st, s, "open") /\ Greets(s) /\ UNCHANGED alive
       \/ st' = Set(st, s, "failed") /\ UNCHANGED <<alive, server>>
       \/ alive' = FALSE /\ UNCHANGED <<st, server>>
    /\ UNCHANGED <<proxied, shellOutput, sent, shown, torn>>

\* io_context.run() has been called.
Looping == alive /\ (proxied => \A s \in Sessions : st[s] # "new")

-----------------------------------------------------------------------------
(* handleShellInteraction.                                                 *)

\* Mutant: only a newline ends a read.
DelimNewline(b) == \E i \in DOMAIN b : b[i] = Newline
\* The delimiter of async_read_until, (\n)|(% ).
Delim(b) == (\E i \in DOMAIN b : b[i] = Newline) \/ Prompts(b) > 0

\* Mutant: only the part up to the first delimiter is shown.
ShownFirst(b) == CHOOSE n \in DOMAIN b :
    Delim(SubSeq(b, 1, n)) /\ \A k \in 1 .. n - 1 : ~Delim(SubSeq(b, 1, k))
\* All that was read is shown, also what follows the delimiter.
Shown(b) == Len(b)

\* Mutant: shellOutput is not cleared for the next read.
ClearedNot(b) == b
Cleared(b) == << >>

CommandLeft(s) == sent[s] < Len(File[s])

\* The next n tokens arrive: no delimiter yet.
ReadMore(s, b) ==
    /\ ~Delim(b)
    /\ shellOutput' = Set(shellOutput, s, b)
    /\ UNCHANGED <<st, sent, inbox, shown, torn>>
\* Output without a prompt is shown, and the next read starts afresh.
ShowOutput(s, b) ==
    /\ Delim(b) /\ Prompts(b) = 0
    /\ shown' = [shown EXCEPT ![s] = @ + Shown(b)]
    /\ shellOutput' = Set(shellOutput, s, Cleared(b))
    /\ torn' = [torn EXCEPT ![s] = @ \/ Last(b) = "%"]
    /\ UNCHANGED <<st, sent, inbox>>
\* Output with a prompt: the next command, or the end of the session.
AnswerPrompt(s, b) ==
    /\ Delim(b) /\ Prompts(b) > 0
    /\ shown' = [shown EXCEPT ![s] = @ + Shown(b)]
    /\ \/ /\ CommandLeft(s)
          /\ sent' = [sent EXCEPT ![s] = @ + 1]
          /\ inbox' = [inbox EXCEPT ![s] = Append(@, File[s][sent'[s]])]
          /\ shellOutput' = Set(shellOutput, s, Cleared(b))
          /\ torn' = [torn EXCEPT ![s] = @ \/ Last(b) = "%"]
          /\ UNCHANGED st
       \/ /\ ~CommandLeft(s)
          /\ st' = Set(st, s, "done")   \* shutdown_send: nothing reads again
          /\ shellOutput' = Set(shellOutput, s, << >>)
          /\ UNCHANGED <<sent, inbox, torn>>

Receive(s) ==
    /\ Looping /\ st[s] = "open"
    /\ \E n \in DOMAIN wire[s] :
         LET b == shellOutput[s] \o SubSeq(wire[s], 1, n)
         IN  /\ wire' = [wire EXCEPT ![s] = SubSeq(@, n + 1, Len(@))]
             /\ ReadMore(s, b) \/ ShowOutput(s, b) \/ AnswerPrompt(s, b)
    /\ UNCHANGED <<proxied, alive, closed, produced, prompts, fake>>

\* End of file: the session ends, with what it has read and not shown.
ReceiveEof(s) ==
    /\ Looping /\ st[s] = "open" /\ wire[s] = << >> /\ closed[s]
    /\ st' = Set(st, s, "done")
    /\ UNCHANGED <<proxied, alive, server, shellOutput, sent, shown, torn>>

Console(s) == Run(s) \/ ConnectProxy(s) \/ Receive(s) \/ ReceiveEof(s)
Next == \E s \in Sessions : Console(s) \/ ServerRuns(s)

\* The console and the servers run when they can; the SOCKS server answers or
\* closes (Socks4!EveryRequestAnswered).
Spec == /\ Init /\ [][Next]_vars
        /\ \A s \in Sessions : WF_vars(Console(s)) /\ WF_vars(ServerRuns(s))

-----------------------------------------------------------------------------
(* Properties.                                                             *)

\* All that a server sent is shown, is in the buffer or is still on the way,
\* however the network cuts it; a session that ends at the end of its file or
\* of the connection has left nothing unread, unless output that looks like a
\* prompt made it stop early (cgi_application.cpp:42-62).
NothingLost ==
    \A s \in Sessions :
        /\ st[s] = "open" => shown[s] + Len(shellOutput[s]) + Len(wire[s]) = produced[s]
        /\ st[s] = "done" /\ fake[s] = 0 => shown[s] + Len(shellOutput[s]) = produced[s]

\* Every command answers a prompt of its own that has arrived: none is sent for
\* a prompt that is still on the way, nor twice for one, however the network
\* cuts the stream.  Output that looks like a prompt is the only cause of a
\* command that is sent too early (cgi_application.cpp:42-57).
OneCommandPerPrompt ==
    \A s \in Sessions : sent[s] + Prompts(wire[s]) <= prompts[s] + fake[s]

\* A session that is open comes to its end, unless a read ended inside the
\* prompt after a newline, so that clear() dropped the "%", or the console died
\* for another session (cgi_application.cpp:39-63, console.cpp:29-32).
EverySessionEnds ==
    \A s \in Sessions : st[s] = "open" ~> st[s] = "done" \/ torn[s] \/ ~alive
====
