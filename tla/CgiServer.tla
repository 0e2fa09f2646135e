----------------------------- MODULE CgiServer -----------------------------
(***************************************************************************)
(* The Windows CGI server of project 3: one process that is both HTTP      *)
(* server and console.  A Session answers one browser connection; for a    *)
(* console it starts an NPShellApp per shell server, and these write to    *)
(* the browser's connection, which they share, whenever they have          *)
(* something to show.                                                      *)
(*                                                                         *)
(* A shell server's output is a stream of tokens <<t, k>> of its k-th      *)
(* command (0 is the greeting), with t = "L" for text, "p" for text that   *)
(* has a per cent sign, "%" for the prompt.  A column also has <<"echo",   *)
(* k>>, the k-th command as the console shows it, and bytes of the heap,   *)
(* "heap" or, with a per cent sign, "heap%".  The shell servers and the    *)
(* browser are external.  Connections do not affect each other, so there   *)
(* is one.                                                                 *)
(***************************************************************************)
EXTENDS Integers, Sequences

CONSTANTS
    NSessions,   \* entries of the query with host, port and file: 1 .. NSessions
    Files,       \* the files of the sessions may be: lines that are "run", "exit"
                 \* or "mention", a command with the letters exit in it; no
                 \* line if the file cannot be opened
    Outputs,     \* Outputs[s]: texts that a command at that server may print
    BufferSize,  \* tokens that fit into npShellOutput
    Room         \* writes that the browser's connection takes without waiting

Sessions == 1 .. NSessions
Paths == {"panel", "console", "other"}
Lines == {"run", "exit", "mention"}

ASSUME SessionsAssumption ==
    /\ NSessions \in Nat /\ BufferSize \in Nat \ {0} /\ Room \in Nat \ {0, 1}
    /\ Files \subseteq [Sessions -> Seq(Lines)]
    /\ \A s \in Sessions : Outputs[s] \subseteq Seq({"L", "p"})

VARIABLES
    phase,     \* where the Session is
    path,      \* what the browser asks for
    file,      \* the files of the sessions
    pending,   \* writes to the browser that it has not received
    column,    \* what each NPShellApp has written to the browser, in order
    gone,      \* the browser has left
    app,       \* where each NPShellApp is
    sent,      \* lines it has taken from its file
    npShellCommand, \* the line it is writing to its server, or "" for none
    wire,      \* tokens on the way from its server
    inbox,     \* commands its server has not executed
    ran,       \* commands its server has executed
    closed,    \* its server has closed the connection
    fake,      \* history: a read found a per cent sign that is not the prompt
    garbled    \* history: a write of it may have sent other bytes

session == <<phase, path, file>>
browser == <<pending, column, gone>>
server == <<inbox, ran, closed>>
history == <<fake, garbled>>
console == <<app, sent, npShellCommand>>
vars == <<session, browser, console, wire, server, history>>

Heap == {"heap", "heap%"}
Tokens == {"L", "p", "%"} \X Nat
Items == ({"L", "p", "%", "echo"} \cup Heap) \X Nat
TypeOK ==
    /\ phase \in {"listening", "accepted", "header", "page", "console", "over", "crashed"}
    /\ path \in Paths /\ file \in Files /\ gone \in BOOLEAN
    /\ pending \in Nat /\ column \in [Sessions -> Seq(Items)]
    /\ app \in [Sessions -> {"none", "connecting", "reading", "writing", "closed"}]
    /\ \A s \in Sessions : sent[s] \in 0 .. Len(file[s]) /\ ran[s] \in 0 .. sent[s]
    /\ wire \in [Sessions -> Seq(Tokens)] /\ inbox \in [Sessions -> Seq(Lines)]
    /\ closed \in [Sessions -> BOOLEAN]
    /\ npShellCommand \in [Sessions -> Lines \cup {""}]
    /\ fake \in [Sessions -> BOOLEAN] /\ garbled \in [Sessions -> BOOLEAN]

All(v) == [s \in Sessions |-> v]
Init ==
    /\ phase = "listening" /\ path \in Paths /\ file \in Files
    /\ pending = 0 /\ column = All(<< >>) /\ gone = FALSE
    /\ app = All("none") /\ sent = All(0) /\ npShellCommand = All("")
    /\ wire = All(<< >>) /\ inbox = All(<< >>) /\ ran = All(0) /\ closed = All(FALSE)
    /\ fake = All(FALSE) /\ garbled = All(FALSE)

-----------------------------------------------------------------------------
(* The network.                                                            *)

Set(f, x, v) == [f EXCEPT ![x] = v]

\* The shell server executes a command and prompts; exit closes.
ServerRuns(s) ==
    LET k == ran[s] + 1
    IN /\ inbox[s] # << >> /\ ~closed[s]
       /\ inbox' = [inbox EXCEPT ![s] = Tail(@)] /\ ran' = Set(ran, s, k)
       /\ \/ Head(inbox[s]) = "exit" /\ closed' = Set(closed, s, TRUE) /\ UNCHANGED wire
          \/ /\ Head(inbox[s]) # "exit" /\ UNCHANGED closed
             /\ \E out \in Outputs[s] :
                  wire' = [wire EXCEPT ![s] = @ \o [i \in DOMAIN out |-> <<out[i], k>>] \o << <<"%", k>> >>]
       /\ UNCHANGED <<session, browser, console, history>>

\* The shell server ends by itself.
ServerCloses(s) ==
    /\ app[s] \in {"reading", "writing"} /\ ~closed[s]
    /\ closed' = Set(closed, s, TRUE)
    /\ UNCHANGED <<session, browser, console, wire, inbox, ran, history>>

Deliver ==
    /\ pending > 0 /\ pending' = pending - 1
    /\ UNCHANGED <<session, gone, column, console, wire, server, history>>
Leave ==
    /\ ~gone /\ phase # "listening"
    /\ gone' = TRUE /\ pending' = 0
    /\ UNCHANGED <<session, column, console, wire, server, history>>

\* n times async_write to the browser; to one that has left, it only logs.
Writes(n) == pending' = IF gone THEN 0 ELSE pending + n

-----------------------------------------------------------------------------
(* HttpServer and Session.                                                 *)

\* do_accept, Session::start.
DoAccept ==
    /\ phase = "listening" /\ phase' = "accepted"
    /\ UNCHANGED <<path, file, browser, console, wire, server, history>>

\* handleHttpRequest takes one read for the whole request.  Cut inside the
\* path, it asks for another page; cut before it, httpQuery[1] does not exist.
HandleHttpRequest ==
    /\ phase = "accepted"
    /\ \/ phase' = "header" /\ path' \in {path, "other"} /\ Writes(1)
       \/ phase' = "crashed" /\ UNCHANGED <<path, pending>>
       \/ gone /\ phase' = "over" /\ UNCHANGED <<path, pending>>
    /\ UNCHANGED <<file, column, gone, console, wire, server, history>>

\* routeAPI, when the header is written: to a browser that has left, that fails
\* or not.  Of a query that was cut, parseQueryString reads past the last entry.
HeaderWritten ==
    /\ phase = "header"
    /\ \/ gone /\ phase' = "over" /\ UNCHANGED pending
       \/ path = "other" /\ phase' = "over" /\ UNCHANGED pending
       \/ path = "panel" /\ phase' = "over" /\ Writes(1)
       \/ path = "console" /\ phase' = "page" /\ Writes(1)
       \/ path = "console" /\ phase' = "crashed" /\ UNCHANGED pending
    /\ UNCHANGED <<path, file, column, gone, console, wire, server, history>>

\* routeAPI, when the console's page is written: an NPShellApp per entry.
PageWritten ==
    /\ phase = "page"
    /\ \/ gone /\ phase' = "over" /\ UNCHANGED app
       \/ phase' = "console" /\ app' = All("connecting")
    /\ UNCHANGED <<path, file, browser, sent, npShellCommand, wire, server, history>>

-----------------------------------------------------------------------------
(* NPShellApp.                                                             *)

\* start: resolve and connect, or end quietly.  The server greets.  When it has
\* reset the connection already, remote_endpoint throws and ends the process.
Start(s) ==
    /\ app[s] = "connecting"
    /\ \/ app' = Set(app, s, "closed") /\ UNCHANGED <<phase, wire>>
       \/ /\ app' = Set(app, s, "reading") /\ UNCHANGED phase
          /\ wire' = Set(wire, s, << <<"L", 0>>, <<"%", 0>> >>)
       \/ phase' = "crashed" /\ app' = All("none") /\ UNCHANGED wire
    /\ UNCHANGED <<path, file, browser, sent, npShellCommand, server, history>>

Has(b, ts) == \E i \in DOMAIN b : b[i][1] \in ts
CommandLeft(s) == sent[s] < Len(file[s])

\* n calls of handleHttpResp, with the parts of text.  It writes from a string
\* that is gone when it returns: what does not fit into the connection at once
\* may be sent as other bytes.
HandleHttpResp(s, n, text) ==
    /\ Writes(n)
    /\ column' = [column EXCEPT ![s] = @ \o text]
    /\ garbled' = [garbled EXCEPT ![s] = @ \/ pending' > Room]

\* Mutant: without a prompt it does not read again.
ShowAndStop(s, text) ==
    /\ HandleHttpResp(s, 1, text)
    /\ app' = Set(app, s, "none")
    /\ UNCHANGED <<sent, npShellCommand, inbox, fake>>
\* do_read without a per cent sign in the text.
ShowOutput(s, text) ==
    /\ HandleHttpResp(s, 1, text)
    /\ npShellCommand' = Set(npShellCommand, s, "")
    /\ UNCHANGED <<app, sent, inbox, fake>>

\* Mutant: the command is shown before the output that it answers.
ShowCommandFirst(shell, command) == command \o shell
ShowBoth(shell, command) == shell \o command

\* do_read with a per cent sign: the next line is shown and written to the
\* server.  At the end of the file, an empty command is written.
AnswerPrompt(s, text) ==
    /\ fake' = [fake EXCEPT ![s] = @ \/ Has(text, {"p"}) \/ ~Has(text, {"%"})]
    /\ app' = Set(app, s, "writing")
    /\ \/ /\ CommandLeft(s)
          /\ sent' = [sent EXCEPT ![s] = @ + 1]
          /\ npShellCommand' = Set(npShellCommand, s, file[s][sent'[s]])
          /\ inbox' = [inbox EXCEPT ![s] = Append(@, file[s][sent'[s]])]
          /\ HandleHttpResp(s, 2, ShowBoth(text, << <<"echo", sent'[s]>> >>))
       \/ /\ ~CommandLeft(s)
          /\ npShellCommand' = Set(npShellCommand, s, "")
          /\ HandleHttpResp(s, 1, text)
          /\ UNCHANGED <<sent, inbox>>

\* Mutant: bytes of the heap behind every read.
HeapAfterAll(b) == {<< >>} \cup {<< <<t, b[Len(b)][2]>> >> : t \in Heap}
\* A read that fills the buffer leaves no terminating zero in it: find and
\* cgi_output_shell go on into the heap behind it, up to a zero there.  What is
\* shown of it is tagged with the command behind whose output it stands.
OverRead(b) ==
    {<< >>} \cup {<< <<t, b[Len(b)][2]>> >> : t \in IF Len(b) = BufferSize THEN Heap ELSE {}}

\* do_read's callback, with the n tokens b.
DoRead(s) ==
    /\ app[s] = "reading"
    /\ \E n \in 1 .. BufferSize :
         LET b == SubSeq(wire[s], 1, n)
         IN /\ n <= Len(wire[s])
            /\ wire' = [wire EXCEPT ![s] = SubSeq(@, n + 1, Len(@))]
            /\ \E over \in OverRead(b) :
                 \/ ~Has(b \o over, {"%", "p", "heap%"}) /\ ShowOutput(s, b \o over)
                 \/ Has(b \o over, {"%", "p", "heap%"}) /\ AnswerPrompt(s, b \o over)
    /\ UNCHANGED <<session, gone, ran, closed>>

\* The server has closed: the callback does nothing, and the app is destroyed.
ReadEof(s) ==
    /\ app[s] = "reading" /\ wire[s] = << >> /\ closed[s]
    /\ app' = Set(app, s, "closed")
    /\ UNCHANGED <<session, browser, sent, npShellCommand, wire, server, history>>

\* handleBackendReq, when the command is written: a line with the letters exit
\* in it closes the connection to the server.  If it cannot be written, the app
\* is destroyed.
CommandWritten(s) ==
    /\ app[s] = "writing"
    /\ \/ app' = Set(app, s, IF npShellCommand[s] \in {"exit", "mention"} THEN "closed" ELSE "reading")
       \/ closed[s] /\ app' = Set(app, s, "closed")
    /\ UNCHANGED <<session, browser, sent, npShellCommand, wire, server, history>>

\* The browser's connection closes when no NPShellApp has it any more.
Over ==
    /\ phase = "console" /\ \A s \in Sessions : app[s] = "closed"
    /\ phase' = "over"
    /\ UNCHANGED <<path, file, browser, console, wire, server, history>>

-----------------------------------------------------------------------------

Serve == DoAccept \/ HandleHttpRequest \/ HeaderWritten \/ PageWritten \/ Over
Console(s) == Start(s) \/ DoRead(s) \/ ReadEof(s) \/ CommandWritten(s)
Next == Serve \/ Deliver \/ Leave \/ \E s \in Sessions : Console(s) \/ ServerRuns(s) \/ ServerCloses(s)

\* io_context.run() runs every callback whose operation is complete.
Spec ==
    /\ Init /\ [][Next]_vars
    /\ WF_vars(Serve) /\ WF_vars(Deliver)
    /\ \A s \in Sessions : WF_vars(Console(s)) /\ WF_vars(ServerRuns(s))

-----------------------------------------------------------------------------
(* Properties.                                                             *)

\* Where an item belongs in a column that reads like a terminal.
Rank(item) == 2 * item[2] - (IF item[1] = "echo" THEN 1 ELSE 0)

\* Item i of the column is of the heap: it is shown behind a whole buffer.
BehindFullBuffer(c, i) ==
    i > BufferSize /\ \A j \in i - BufferSize .. i - 1 : c[j][1] \in {"L", "p", "%"}

\* Although the sessions write to one connection as they please, each column
\* reads like a terminal: a command stands between the prompt that asked for it
\* and its own output, and a session that ends has shown all that its server
\* sent; what its server did not send stands in the column only behind a read
\* that filled the buffer (cgi_server.cpp:55-58).  The order and the end have
\* the exceptions of the code: a browser that has left, a per cent sign that was
\* not the prompt, be it in output or in the heap, a write the connection had no
\* room for, and, for the end, a line that only mentions exit and a server that
\* closes by itself (cgi_server.cpp:57-74, 81, 94).
ColumnsReadLikeTerminals ==
    \A s \in Sessions :
      /\ \A i \in DOMAIN column[s] : column[s][i][1] \in Heap => BehindFullBuffer(column[s], i)
      /\ ~gone /\ ~fake[s] /\ ~garbled[s] =>
           /\ \A i, j \in DOMAIN column[s] : i < j => Rank(column[s][i]) <= Rank(column[s][j])
           /\ app[s] = "closed" => wire[s] = << >> \/ npShellCommand[s] = "mention" \/ closed[s]

\* A session comes to its end, whatever the other sessions and the browser do,
\* unless its file has no line left for the prompt of a server that waits for
\* one (cgi_server.cpp:65-71 writes nothing then, and reads on), or another
\* session's server reset its connection at once (cgi_server.cpp:40).
EverySessionEnds ==
    \A s \in Sessions :
      app[s] = "reading" ~> (app[s] = "closed" \/ phase = "crashed" \/ (npShellCommand[s] = "" /\ ~CommandLeft(s)))
=============================================================================
