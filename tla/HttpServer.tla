----------------------------- MODULE HttpServer -----------------------------
(***************************************************************************)
(* The HTTP server of project 3 on Linux: HttpServer accepts, a            *)
(* CGI::Session reads a request, forks and waits; the child sends the      *)
(* status line and then executes the CGI program with the connection as    *)
(* its standard input and output.                                          *)
(*                                                                         *)
(* fork() copies the whole io_context: until it executes the program, the  *)
(* child is a second server with its parent's sessions, its pending accept *)
(* and whatever is in its queue.  The sockets themselves are shared.       *)
(*                                                                         *)
(* A queue holds "poll" (the turn of epoll), "accept" and "read" (the      *)
(* descriptor is ready, the call is made when the turn comes), and         *)
(* "accepted", "done", "closed", "write", "error" (the call was made when  *)
(* it was asked for, because it could be; the callback's turn will come).  *)
(* A request is abstracted to the moment when the last of it arrives.      *)
(***************************************************************************)
EXTENDS Integers, Sequences, FiniteSets, SequencesExt

CONSTANTS
    Clients,
    Requests,    \* what the clients may ask for: programs that are "ok",
                 \* "missing", "broken" (not executable) or "stuck" (never end)
    Closers,     \* the clients that may close (FIN) before they are answered
    Resetters,   \* the clients that may reset their connection
    MaxProcs     \* processes there can be at a time; fork() may fail sooner

Procs == 1 .. MaxProcs
Main == 1

ASSUME RequestsAssumption == Requests \subseteq [Clients -> {"ok", "missing", "broken", "stuck"}]
ASSUME ClientsAssumption == IsFiniteSet(Clients)
ASSUME ProcsAssumption == MaxProcs \in Nat \ {0}
ASSUME LeaversAssumption == Closers \subseteq Clients /\ Resetters \subseteq Clients

VARIABLES
    st,        \* what each process is doing
    serving,   \* the client it forked for, or was forked for
    child,     \* the process it waits for
    queue,     \* the queue of its io_context
    sess,      \* sess[p][c]: how far p's session of c is
    conn,      \* whether a client is connected, waits for accept, was accepted
    backlog,   \* connections that wait for accept
    program,   \* what each client asks for
    sent,      \* clients whose request was sent
    inq,       \* clients whose request is in the socket, unread
    gone,      \* clients that have closed their connection
    reset,     \* clients that have reset their connection
    got,       \* what each client received
    raced,     \* history: connections that a fork found in the queue, or that
               \* the event loop of a child has accepted or read
    crowded,   \* history: connections whose child found others in its queue
    refused    \* history: clients for which fork() failed

procs == <<st, serving, child>>
client == <<program, sent, gone, reset>>
history == <<raced, crowded, refused>>
vars == <<procs, queue, sess, conn, backlog, client, inq, got, history>>

NoClient == <<"none">>
Poll == <<"poll">>
Accept == <<"accept">>
Calls == {"accepted", "read", "done", "closed", "write", "error"}
Ops == {Poll, Accept} \cup (Calls \X Clients)
Status == <<"200">>
Output(c) == <<"output", c>>
Answer(c) == <<Status, Output(c)>>

TypeOK ==
    /\ st \in [Procs -> {"none", "forked", "loop", "wait", "program", "dead"}]
    /\ serving \in [Procs -> Clients \cup {NoClient}]
    /\ child \in [Procs -> Procs]
    /\ queue \in [Procs -> Seq(Ops)]
    /\ sess \in [Procs -> [Clients -> {"closed", "accepted", "reading", "request"}]]
    /\ conn \in [Clients -> {"off", "waiting", "accepted"}]
    /\ backlog \in Seq(Clients)
    /\ program \in Requests /\ sent \subseteq Clients /\ inq \subseteq sent
    /\ gone \subseteq Closers /\ reset \subseteq Resetters
    /\ got \in [Clients -> Seq({Status} \cup {Output(c) : c \in Clients})]
    /\ raced \subseteq Clients /\ crowded \subseteq Clients /\ refused \subseteq Clients

\* main: async_accept is pending, and io_context.run() has been called.
Init ==
    /\ st = [p \in Procs |-> IF p = Main THEN "loop" ELSE "none"]
    /\ serving = [p \in Procs |-> NoClient]
    /\ child = [p \in Procs |-> p]
    /\ queue = [p \in Procs |-> IF p = Main THEN <<Poll>> ELSE << >>]
    /\ sess = [p \in Procs |-> [c \in Clients |-> "closed"]]
    /\ conn = [c \in Clients |-> "off"] /\ backlog = << >>
    /\ program \in Requests /\ sent = {} /\ inq = {} /\ gone = {} /\ reset = {}
    /\ got = [c \in Clients |-> << >>]
    /\ raced = {} /\ crowded = {} /\ refused = {}

Set(f, x, v) == [f EXCEPT ![x] = v]
Turn(p, kind) == st[p] = "loop" /\ Head(queue[p])[1] = kind
Rest(p) == Tail(queue[p])

\* The connection's end at the server is closed once no process has it open.
\* Sockets are not close-on-exec: a program keeps those its process had.
Holds(p, c) == st[p] \in {"forked", "loop", "wait", "program"} /\ sess[p][c] # "closed"
Ended(c) == conn[c] = "accepted" /\ ~\E p \in Procs : Holds(p, c)

\* The sessions of a process whose event loop or program has ended.
NoSessions == [c \in Clients |-> "closed"]

-----------------------------------------------------------------------------
(* Clients.                                                                *)

Connect(c) ==
    /\ conn[c] = "off"
    /\ conn' = Set(conn, c, "waiting") /\ backlog' = Append(backlog, c)
    /\ UNCHANGED <<procs, queue, sess, client, inq, got, history>>
Send(c) ==
    /\ conn[c] # "off" /\ c \notin sent \cup gone \cup reset
    /\ sent' = sent \cup {c} /\ inq' = inq \cup {c}
    /\ UNCHANGED <<procs, queue, sess, conn, backlog, program, gone, reset, got, history>>
Close(c) ==
    /\ c \in Closers \ (gone \cup reset) /\ conn[c] # "off"
    /\ gone' = gone \cup {c}
    /\ UNCHANGED <<procs, queue, sess, conn, backlog, program, sent, reset, inq, got, history>>
Reset(c) ==
    /\ c \in Resetters \ (gone \cup reset) /\ conn[c] # "off"
    /\ reset' = reset \cup {c}
    /\ UNCHANGED <<procs, queue, sess, conn, backlog, program, sent, gone, inq, got, history>>

-----------------------------------------------------------------------------
(* The event loop.                                                         *)

\* What epoll reports of the pending operations of p.
Ready(p) == {op \in {Accept} : backlog # << >>}
            \cup {<<"read", c>> : c \in {d \in Clients : /\ sess[p][d] = "reading"
                                                         /\ d \in inq \cup gone \cup reset}}

\* epoll_wait blocks only if there is nothing else in the queue, and puts what
\* is ready behind what is there.
RunPoll(p) ==
    /\ Turn(p, "poll")
    /\ Rest(p) # << >> \/ Ready(p) # {}
    /\ \E ops \in SetToSeqs(Ready(p) \ Range(Rest(p))) :
         queue' = Set(queue, p, Rest(p) \o ops \o <<Poll>>)
    /\ UNCHANGED <<procs, sess, conn, backlog, client, inq, got, history>>

\* What the event loop of a child takes is taken from its parent.
Takes(p, cs) == IF p = Main THEN raced ELSE raced \cup cs

\* The callback of async_accept: a session for c starts to read, and the next
\* connection is accepted.  Both are tried at once.
StartSession(p, c, waiting) ==
    LET next == IF waiting = << >> THEN {} ELSE {Head(waiting)}
        read == IF c \in inq THEN << <<"done", c>> >>
                ELSE IF c \in gone \cup reset THEN << <<"closed", c>> >> ELSE << >>
        accepted == IF waiting = << >> THEN << >> ELSE << <<"accepted", Head(waiting)>> >>
    IN /\ sess' = [sess EXCEPT ![p] = [d \in Clients |-> IF d = c
                       THEN IF read = << >> THEN "reading" ELSE "request"
                       ELSE IF d \in next THEN "accepted" ELSE @[d]]]
       /\ conn' = [d \in Clients |-> IF d \in next \cup {c} THEN "accepted" ELSE conn[d]]
       /\ backlog' = IF waiting = << >> THEN << >> ELSE Tail(waiting)
       /\ inq' = inq \ {c}
       /\ queue' = Set(queue, p, Rest(p) \o read \o accepted)
       /\ raced' = Takes(p, next \cup {c})
       /\ UNCHANGED <<procs, client, got, crowded, refused>>

\* accept() finds nothing if another process took the connection.
RunAccept(p) ==
    /\ Turn(p, "accept")
    /\ \/ /\ backlog = << >>
          /\ queue' = Set(queue, p, Rest(p))
          /\ UNCHANGED <<procs, sess, conn, backlog, client, inq, got, history>>
       \/ backlog # << >> /\ StartSession(p, Head(backlog), Tail(backlog))
RunAccepted(p) == Turn(p, "accepted") /\ StartSession(p, Head(queue[p])[2], backlog)

-----------------------------------------------------------------------------
(* CGI::Session.                                                           *)

Dies(p) ==
    /\ st' = Set(st, p, "dead") /\ queue' = Set(queue, p, << >>)
    /\ sess' = Set(sess, p, NoSessions)

\* The connections whose operations a child inherits, when rest is the queue.
Inherited(rest) ==
    {c \in Clients : \E i \in DOMAIN rest : \/ rest[i] = Accept /\ conn[c] = "waiting"
                                            \/ rest[i] \in Calls \X {c}}

\* Mutant: the test is pid <= 0, so that the server becomes the child.
ForkFailsAsChild(p, c) ==
    /\ st' = Set(st, p, "forked") /\ serving' = Set(serving, p, c)
    /\ sess' = [sess EXCEPT ![p][c] = "request"] /\ queue' = Set(queue, p, Rest(p))
    /\ UNCHANGED <<child, history>>
\* fork() returns -1, which is not 0, and waitpid(-1) returns at once: there is
\* no child that was not waited for.
ForkFails(p, c) ==
    /\ refused' = refused \cup {c}
    /\ sess' = [sess EXCEPT ![p][c] = "closed"] /\ queue' = Set(queue, p, Rest(p))
    /\ UNCHANGED <<procs, raced, crowded>>

\* forkCGI in the parent, up to waitpid.  fork() may fail at any time.
ForkCGI(p, c) ==
    LET all == [sess[p] EXCEPT ![c] = "request"]
        inherited == Inherited(Rest(p))
    IN \/ ForkFails(p, c)
       \/ \E k \in Procs :
            /\ st[k] = "none" /\ \A q \in 1 .. k - 1 : st[q] # "none"
            /\ st' = [st EXCEPT ![p] = "wait", ![k] = "forked"]
            /\ serving' = [serving EXCEPT ![p] = c, ![k] = c]
            /\ child' = Set(child, p, k)
            /\ sess' = [sess EXCEPT ![p] = all, ![k] = all]
            /\ queue' = [queue EXCEPT ![p] = Rest(p), ![k] = Rest(p)]
            /\ raced' = Takes(p, {c}) \cup inherited
            /\ crowded' = IF inherited = {} THEN crowded ELSE crowded \cup {c}
            /\ UNCHANGED refused

\* handleHttpRequest.  saveParms asks for the address of the peer, which throws
\* if the connection was reset: the exception ends io_context.run() and main.
HandleHttpRequest(p, c) ==
    /\ inq' = inq \ {c}
    /\ \/ c \in reset /\ Dies(p) /\ UNCHANGED <<serving, child, history>>
       \/ c \notin reset /\ ForkCGI(p, c)
    /\ UNCHANGED <<conn, backlog, client, got>>

\* The end of the stream, or an error: the session is destroyed.
HandleHttpError(p, c) ==
    /\ sess' = [sess EXCEPT ![p][c] = "closed"] /\ queue' = Set(queue, p, Rest(p))
    /\ UNCHANGED <<procs, conn, backlog, client, inq, got, history>>

\* read() finds nothing if another process has read the request.
RunRead(p) ==
    LET c == Head(queue[p])[2]
    IN /\ Turn(p, "read")
       /\ \/ c \in inq /\ HandleHttpRequest(p, c)
          \/ c \in (gone \cup reset) \ inq /\ HandleHttpError(p, c)
          \/ /\ c \notin inq \cup gone \cup reset
             /\ queue' = Set(queue, p, Rest(p))
             /\ UNCHANGED <<procs, sess, conn, backlog, client, inq, got, history>>
RunDone(p) == Turn(p, "done") /\ HandleHttpRequest(p, Head(queue[p])[2])
RunClosed(p) == Turn(p, "closed") /\ HandleHttpError(p, Head(queue[p])[2])

\* Mutant: the child goes on in its event loop when there is no such program.
StopNot(k) == st' = Set(st, k, "loop") /\ UNCHANGED <<queue, sess>>
\* io_context.stop(): the event loop ends, and main with it.
Stop(k) == Dies(k)

\* Mutant: the program is executed before the status line is sent.
ChildExecutes(k) ==
    /\ st[k] = "forked"
    /\ st' = Set(st, k, "program") /\ queue' = Set(queue, k, << >>)
    /\ UNCHANGED <<serving, child, sess, conn, backlog, client, inq, got, history>>
\* forkCGI in the child: it opens the program and sends the status line.
ChildStarts(k) ==
    /\ st[k] = "forked"
    /\ LET c == serving[k] IN
       \/ program[c] = "missing" /\ Stop(k) /\ UNCHANGED got
       \/ /\ program[c] # "missing"
          /\ st' = Set(st, k, "loop")
          /\ queue' = [queue EXCEPT ![k] = Append(@, IF c \in reset THEN <<"error", c>> ELSE <<"write", c>>)]
          /\ got' = IF c \in reset THEN got ELSE [got EXCEPT ![c] = Append(@, Status)]
          /\ UNCHANGED sess
    /\ UNCHANGED <<serving, child, conn, backlog, client, inq, history>>

\* The status line was sent: the connection becomes standard input and output
\* and the program is executed.  If it cannot be, the child stops.
RunWrite(p) ==
    /\ Turn(p, "write")
    /\ \/ /\ program[Head(queue[p])[2]] = "broken"
          /\ Stop(p) /\ UNCHANGED serving
       \/ /\ program[Head(queue[p])[2]] # "broken"
          /\ st' = Set(st, p, "program") /\ queue' = Set(queue, p, << >>)
          /\ serving' = Set(serving, p, Head(queue[p])[2])
          /\ UNCHANGED sess
    /\ UNCHANGED <<child, conn, backlog, client, inq, got, history>>

\* It could not be sent: the callback does nothing, the session is destroyed,
\* and the child stays in its event loop.
RunWriteError(p) == Turn(p, "error") /\ HandleHttpError(p, Head(queue[p])[2])

ProgramEnds(p) ==
    /\ st[p] = "program" /\ program[serving[p]] # "stuck"
    /\ got' = [got EXCEPT ![serving[p]] = Append(@, Output(serving[p]))]
    /\ Dies(p)
    /\ UNCHANGED <<serving, child, conn, backlog, client, inq, history>>

\* waitpid returns, the callback of the read ends and its session with it.
Waitpid(p) ==
    /\ st[p] = "wait" /\ st[child[p]] = "dead"
    /\ st' = [st EXCEPT ![p] = "loop", ![child[p]] = "none"]
    /\ sess' = [sess EXCEPT ![p][serving[p]] = "closed"]
    /\ UNCHANGED <<serving, child, queue, conn, backlog, client, inq, got, history>>

-----------------------------------------------------------------------------

Step(p) ==
    \/ RunPoll(p) \/ RunAccept(p) \/ RunAccepted(p) \/ RunRead(p) \/ RunDone(p)
    \/ RunClosed(p) \/ ChildStarts(p) \/ RunWrite(p) \/ RunWriteError(p)
    \/ ProgramEnds(p) \/ Waitpid(p)
Next ==
    \/ \E c \in Clients : Connect(c) \/ Send(c) \/ Close(c) \/ Reset(c)
    \/ \E p \in Procs : Step(p)
Spec == Init /\ [][Next]_vars /\ \A p \in Procs : WF_vars(Step(p))

-----------------------------------------------------------------------------
(* Properties.                                                             *)

\* A connection that no fork found in the queue and no child took receives the
\* status line and then the output of its own program, in that order and once.
\* If the connection ends while the server lives and the client has not left, all
\* of the answer has come, unless fork() failed, there is no such program, it
\* cannot be executed, or the child found requests of other clients in its queue
\* and one of them was reset, which ends the child (cgi_session.cpp:75, 96-135).
RightAnswer ==
    \A c \in Clients \ raced :
      /\ IsPrefix(got[c], Answer(c))
      /\ Ended(c) /\ st[Main] # "dead" /\ c \in sent \ (gone \cup reset) =>
            \/ got[c] = Answer(c)
            \/ c \in refused \/ program[c] \in {"missing", "broken"}
            \/ c \in crowded /\ raced \cap reset # {}

\* The server itself ends only because a client reset its connection: children
\* that stop their event loop, and programs that fail, do not reach it, nor does
\* a fork that fails (cgi_session.cpp:75, 98-133).
OnlyResetsStop == st[Main] = "dead" => reset # {}

\* A child that could not send the status line is a server of its own now, and
\* its parent waits for it as long as it lives.
Abandoned(p) == st[p] = "wait" /\ sess[child[p]][serving[p]] = "closed" /\ st[child[p]] # "dead"
RunsForEver(p) == st[p] = "program" /\ program[serving[p]] = "stuck"
Blocked == st[Main] = "dead" \/ \E p \in Procs : Abandoned(p) \/ RunsForEver(p)

\* Every connection whose request was sent ends, although the server serves one
\* request at a time and waits for its program, unless a program that never ends
\* is running, a reset connection has left a parent waiting for ever or ended
\* the server, or the connection was caught by a fork (cgi_session.cpp:108, 133).
EveryRequestEnds ==
    \A c \in Clients : c \in sent ~> (Ended(c) \/ c \in raced \/ Blocked)
=============================================================================
