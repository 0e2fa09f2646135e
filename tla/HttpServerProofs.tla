-------------------------- MODULE HttpServerProofs --------------------------
(***************************************************************************)
(* Theorems about HttpServer, for every set of clients, every assignment   *)
(* of programs to them and every limit on the number of processes: first   *)
(* about types and the end of the server, with Inv, then about the answers *)
(* the clients get, with AnswerInv.                                        *)
(***************************************************************************)
EXTENDS HttpServer, ProofFacts

-----------------------------------------------------------------------------
(* The queues of the event loops.                                          *)

HasPoll(q) == \E i \in 1 .. Len(q) : q[i] = Poll
NoReply(q) == \A i \in 1 .. Len(q) : q[i][1] \notin {"write", "error"}

\* The operations are well-formed, and different kinds differ.
LEMMA OpTypes ==
    /\ Poll \in Ops /\ Accept \in Ops /\ Poll[1] = "poll" /\ Accept[1] = "accept"
    /\ \A kind \in Calls, c \in Clients : <<kind, c>> \in Ops /\ <<kind, c>>[1] = kind
    /\ \A op \in Ops : op[1] \in Calls => op = <<op[1], op[2]>> /\ op[2] \in Clients
    /\ Main \in Procs
<1>1. Poll \in Ops /\ Accept \in Ops /\ Poll[1] = "poll" /\ Accept[1] = "accept"
  BY DEF Ops, Poll, Accept
<1>2. \A kind \in Calls, c \in Clients : <<kind, c>> \in Ops /\ <<kind, c>>[1] = kind
  BY DEF Ops
<1>3. \A op \in Ops : op[1] \in Calls => op = <<op[1], op[2]>> /\ op[2] \in Clients
  BY <1>1 DEF Ops, Calls
<1>4. Main \in Procs
  BY ProcsAssumption DEF Main, Procs
<1> QED
  BY <1>1, <1>2, <1>3, <1>4

\* What is put behind a queue does not remove the turn of epoll from it.
LEMMA QueueConcat ==
    ASSUME NEW q \in Seq(Ops), NEW r \in Seq(Ops)
    PROVE  /\ q \o r \in Seq(Ops)
           /\ HasPoll(q) \/ HasPoll(r) => HasPoll(q \o r)
           /\ NoReply(q) /\ NoReply(r) => NoReply(q \o r)
<1>1. q \o r \in Seq(Ops)
  BY ConcatElements
<1>2. HasPoll(q) => HasPoll(q \o r)
  BY ConcatElements DEF HasPoll
<1>3. HasPoll(r) => HasPoll(q \o r)
  <2> SUFFICES ASSUME NEW i \in 1 .. Len(r), r[i] = Poll PROVE HasPoll(q \o r)
    BY DEF HasPoll
  <2>1. Len(q) + i \in 1 .. Len(q \o r) /\ (q \o r)[Len(q) + i] = Poll
    BY ConcatElements
  <2> QED
    BY <2>1 DEF HasPoll
<1>4. NoReply(q) /\ NoReply(r) => NoReply(q \o r)
  <2> SUFFICES ASSUME NoReply(q), NoReply(r), NEW i \in 1 .. Len(q \o r)
               PROVE  (q \o r)[i][1] \notin {"write", "error"}
    BY DEF NoReply
  <2>1. CASE i \in 1 .. Len(q) /\ (q \o r)[i] = q[i]
    BY <2>1 DEF NoReply
  <2>2. CASE i - Len(q) \in 1 .. Len(r) /\ (q \o r)[i] = r[i - Len(q)]
    BY <2>2 DEF NoReply
  <2> QED
    BY <2>1, <2>2, ConcatElements
<1> QED
  BY <1>1, <1>2, <1>3, <1>4

\* Taking the head off a queue, when it is not the turn of epoll.
LEMMA QueueTail ==
    ASSUME NEW q \in Seq(Ops), HasPoll(q)
    PROVE  /\ q # << >> /\ Head(q) \in Ops /\ Tail(q) \in Seq(Ops)
           /\ Head(q)[1] # "poll" => HasPoll(Tail(q))
           /\ NoReply(q) => NoReply(Tail(q)) /\ Head(q)[1] \notin {"write", "error"}
<1>1. q # << >> /\ Head(q) \in Ops /\ Tail(q) \in Seq(Ops) /\ Head(q) = q[1]
      /\ \A i \in 1 .. Len(Tail(q)) : i + 1 \in 1 .. Len(q) /\ Tail(q)[i] = q[i + 1]
  BY DEF HasPoll
<1>2. PICK i \in 1 .. Len(q) : q[i] = Poll
  BY DEF HasPoll
<1>3. Head(q)[1] # "poll" => HasPoll(Tail(q))
  <2> SUFFICES ASSUME Head(q)[1] # "poll" PROVE HasPoll(Tail(q))
    OBVIOUS
  <2>1. i # 1
    BY <1>1, <1>2, OpTypes
  <2>2. i - 1 \in 1 .. Len(Tail(q)) /\ Tail(q)[i - 1] = Poll
    BY <1>1, <1>2, <2>1
  <2> QED
    BY <2>2 DEF HasPoll
<1>4. NoReply(q) => NoReply(Tail(q)) /\ Head(q)[1] \notin {"write", "error"}
  <2>1. 1 \in 1 .. Len(q)
    BY <1>2
  <2> QED
    BY <1>1, <2>1 DEF NoReply
<1> QED
  BY <1>1, <1>3, <1>4

-----------------------------------------------------------------------------
(* The inductive invariant.  A process that is in its event loop, or will  *)
(* come back to it, has the turn of epoll in its queue, so that there is   *)
(* always a head to take (Polls).  A process that forked or was forked did *)
(* so for a client (Serves).  The server is not a child: it is never told  *)
(* to send a reply, and nobody waits for it (MainServes).                  *)

Polls == \A p \in Procs : st[p] \in {"forked", "loop", "wait"} => HasPoll(queue[p])

Serves == \A p \in Procs : st[p] \in {"forked", "wait", "program"} => serving[p] \in Clients

MainServes ==
    /\ st[Main] \in {"loop", "wait", "dead"}
    /\ NoReply(queue[Main])
    /\ \A p \in Procs : st[p] = "wait" => child[p] # Main

Inv == TypeOK /\ Polls /\ Serves /\ MainServes /\ OnlyResetsStop

\* The server starts in its event loop, with a pending accept.
LEMMA InvInit == Init => Inv
<1> SUFFICES ASSUME Init PROVE Inv
  OBVIOUS
<1>1. << >> \in Seq(Ops) /\ <<Poll>> \in Seq(Ops) /\ HasPoll(<<Poll>>) /\ NoReply(<<Poll>>)
  BY OpTypes DEF HasPoll, NoReply
<1>2. queue \in [Procs -> Seq(Ops)]
  BY <1>1 DEF Init
<1>3. TypeOK
  <2>1. /\ st \in [Procs -> {"none", "forked", "loop", "wait", "program", "dead"}]
        /\ serving \in [Procs -> Clients \cup {NoClient}] /\ child \in [Procs -> Procs]
    BY DEF Init
  <2>2. /\ sess \in [Procs -> [Clients -> {"closed", "accepted", "reading", "request"}]]
        /\ conn \in [Clients -> {"off", "waiting", "accepted"}] /\ backlog \in Seq(Clients)
    BY DEF Init
  <2>3. got \in [Clients -> Seq({Status} \cup {Output(c) : c \in Clients})]
    BY DEF Init
  <2> QED
    BY <1>2, <2>1, <2>2, <2>3 DEF Init, TypeOK
<1>4. queue[Main] = <<Poll>> /\ st[Main] = "loop"
      /\ \A p \in Procs : p # Main => st[p] = "none"
  BY OpTypes DEF Init
<1>5. Polls /\ Serves /\ MainServes /\ OnlyResetsStop
  BY <1>1, <1>4, OpTypes DEF Polls, Serves, MainServes, OnlyResetsStop
<1> QED
  BY <1>3, <1>5 DEF Inv

\* A process whose turn it is takes a well-formed operation off its queue.
LEMMA TurnTaken ==
    ASSUME Inv, NEW p \in Procs, NEW kind, Turn(p, kind)
    PROVE  /\ st[p] = "loop" /\ Rest(p) \in Seq(Ops)
           /\ kind # "poll" => HasPoll(Rest(p))
           /\ kind \in Calls => /\ Head(queue[p])[2] \in Clients
                                /\ Head(queue[p]) = <<kind, Head(queue[p])[2]>>
           /\ p = Main => NoReply(Rest(p)) /\ kind \notin {"write", "error"}
<1>1. st[p] = "loop" /\ queue[p] \in Seq(Ops) /\ HasPoll(queue[p]) /\ Head(queue[p])[1] = kind
  BY DEF Turn, Inv, TypeOK, Polls
<1>2. Head(queue[p]) \in Ops
  BY <1>1, QueueTail
<1> QED
  BY <1>1, <1>2, QueueTail, OpTypes DEF Rest, Inv, MainServes

\* A step of one process that stays in its event loop, with a new queue.
LEMMA LoopStep ==
    ASSUME Inv, NEW p \in Procs, st[p] = "loop",
           NEW q \in Seq(Ops), HasPoll(q), p = Main => NoReply(q),
           queue' = Set(queue, p, q), UNCHANGED procs, reset' = reset
    PROVE  /\ queue' \in [Procs -> Seq(Ops)]
           /\ Polls' /\ Serves' /\ MainServes' /\ OnlyResetsStop'
<1>1. st' = st /\ child' = child /\ serving' = serving
  BY DEF procs
<1>2. /\ queue' \in [Procs -> Seq(Ops)] /\ queue'[p] = q
      /\ \A r \in Procs : r # p => queue'[r] = queue[r]
  BY DEF Inv, TypeOK, Set
<1>3. Polls'
  BY <1>1, <1>2 DEF Inv, Polls
<1>4. NoReply(queue'[Main])
  BY <1>2, OpTypes DEF Inv, MainServes
<1> QED
  BY <1>1, <1>2, <1>3, <1>4 DEF Inv, Serves, MainServes, OnlyResetsStop

\* What epoll reports, in any order, is a sequence of operations.
LEMMA ReadyOps ==
    ASSUME Inv, NEW p \in Procs, NEW ops \in SetToSeqs(Ready(p) \ Range(Rest(p)))
    PROVE  ops \in Seq(Ops) /\ NoReply(ops)
<1> DEFINE S == Ready(p) \ Range(Rest(p))
<1>1. Ready(p) \subseteq {Accept} \cup ({"read"} \X Clients)
  BY DEF Ready
<1>2. IsFiniteSet({Accept} \cup ({"read"} \X Clients))
  BY ClientsAssumption, FS_Singleton, FS_Product, FS_Union
<1>3. Cardinality(S) \in Nat
  BY <1>1, <1>2, SubsetSize
<1>4. \A op \in S : op \in Ops /\ op[1] \notin {"write", "error"}
  BY <1>1, OpTypes DEF Calls
<1> HIDE DEF S
<1>5. ops \in [1 .. Cardinality(S) -> S]
  BY DEF SetToSeqs, S
<1>6. ops \in Seq(Ops) /\ Len(ops) = Cardinality(S)
  BY <1>3, <1>4, <1>5
<1> QED
  BY <1>4, <1>5, <1>6 DEF NoReply

\* epoll puts what is ready behind what is there.
LEMMA PollStep ==
    ASSUME Inv, NEW p \in Procs, RunPoll(p)
    PROVE  Inv'
<1>1. Turn(p, "poll") /\ UNCHANGED <<procs, sess, conn, backlog, client, inq, got, history>>
  BY DEF RunPoll
<1>2. PICK ops \in SetToSeqs(Ready(p) \ Range(Rest(p))) :
        queue' = Set(queue, p, Rest(p) \o ops \o <<Poll>>)
  BY DEF RunPoll
<1>3. ops \in Seq(Ops) /\ NoReply(ops)
  BY ReadyOps
<1>4. <<Poll>> \in Seq(Ops) /\ HasPoll(<<Poll>>) /\ NoReply(<<Poll>>)
  BY OpTypes DEF HasPoll, NoReply
<1>5. /\ st[p] = "loop" /\ Rest(p) \in Seq(Ops) /\ (p = Main => NoReply(Rest(p)))
  BY <1>1, TurnTaken
<1>6. Rest(p) \o ops \in Seq(Ops) /\ (p = Main => NoReply(Rest(p) \o ops))
  BY <1>3, <1>5, QueueConcat
<1> DEFINE q == (Rest(p) \o ops) \o <<Poll>>
<1>7. q \in Seq(Ops) /\ HasPoll(q) /\ (p = Main => NoReply(q))
  BY <1>4, <1>6, QueueConcat
<1>8. queue' = Set(queue, p, q) /\ reset' = reset /\ UNCHANGED procs
  BY <1>1, <1>2 DEF client
<1> HIDE DEF q
<1>9. queue' \in [Procs -> Seq(Ops)] /\ Polls' /\ Serves' /\ MainServes' /\ OnlyResetsStop'
  BY <1>5, <1>7, <1>8, LoopStep
<1> QED
  BY <1>1, <1>9 DEF Inv, TypeOK, procs, client, history

\* The callback of async_accept.
LEMMA AcceptStep ==
    ASSUME Inv, NEW p \in Procs, NEW kind, Turn(p, kind), kind # "poll",
           NEW c \in Clients, NEW waiting \in Seq(Clients), StartSession(p, c, waiting)
    PROVE  Inv'
<1> DEFINE next == IF waiting = << >> THEN {} ELSE {Head(waiting)}
           read == IF c \in inq THEN << <<"done", c>> >>
                   ELSE IF c \in gone \cup reset THEN << <<"closed", c>> >> ELSE << >>
           accepted == IF waiting = << >> THEN << >> ELSE << <<"accepted", Head(waiting)>> >>
           row == [d \in Clients |-> IF d = c
                       THEN IF read = << >> THEN "reading" ELSE "request"
                       ELSE IF d \in next THEN "accepted" ELSE sess[p][d]]
<1>1. /\ sess' = [sess EXCEPT ![p] = row]
      /\ conn' = [d \in Clients |-> IF d \in next \cup {c} THEN "accepted" ELSE conn[d]]
      /\ backlog' = IF waiting = << >> THEN << >> ELSE Tail(waiting)
      /\ inq' = inq \ {c}
      /\ queue' = Set(queue, p, Rest(p) \o read \o accepted)
      /\ raced' = Takes(p, next \cup {c})
      /\ UNCHANGED <<procs, client, got, crowded, refused>>
  BY DEF StartSession
<1>2. next \subseteq Clients /\ backlog' \in Seq(Clients)
  BY <1>1
<1>3. read \in Seq(Ops) /\ NoReply(read)
  <2>1. \A k \in {"done", "closed"} : << <<k, c>> >> \in Seq(Ops) /\ NoReply(<< <<k, c>> >>)
    BY OpTypes DEF NoReply, Calls
  <2>2. << >> \in Seq(Ops) /\ NoReply(<< >>)
    BY DEF NoReply
  <2> QED
    BY <2>1, <2>2
<1>4. accepted \in Seq(Ops) /\ NoReply(accepted)
  <2>1. ASSUME NEW d \in Clients
        PROVE  << <<"accepted", d>> >> \in Seq(Ops) /\ NoReply(<< <<"accepted", d>> >>)
    BY OpTypes DEF NoReply, Calls
  <2>2. << >> \in Seq(Ops) /\ NoReply(<< >>)
    BY DEF NoReply
  <2>3. waiting # << >> => Head(waiting) \in Clients
    OBVIOUS
  <2> QED
    BY <2>1, <2>2, <2>3
<1>5. row \in [Clients -> {"closed", "accepted", "reading", "request"}]
  BY DEF Inv, TypeOK
<1> HIDE DEF next, read, accepted, row
<1>6. /\ st[p] = "loop" /\ Rest(p) \in Seq(Ops) /\ HasPoll(Rest(p))
      /\ (p = Main => NoReply(Rest(p)))
  BY TurnTaken
<1>7. /\ Rest(p) \o read \in Seq(Ops) /\ HasPoll(Rest(p) \o read)
      /\ (p = Main => NoReply(Rest(p) \o read))
  BY <1>3, <1>6, QueueConcat
<1> DEFINE q == (Rest(p) \o read) \o accepted
<1>8. q \in Seq(Ops) /\ HasPoll(q) /\ (p = Main => NoReply(q))
  BY <1>4, <1>7, QueueConcat
<1>9. queue' = Set(queue, p, q) /\ reset' = reset /\ UNCHANGED procs
  BY <1>1 DEF client
<1> HIDE DEF q
<1>10. queue' \in [Procs -> Seq(Ops)] /\ Polls' /\ Serves' /\ MainServes' /\ OnlyResetsStop'
  BY <1>6, <1>8, <1>9, LoopStep
<1>11. sess' \in [Procs -> [Clients -> {"closed", "accepted", "reading", "request"}]]
  BY <1>1, <1>5 DEF Inv, TypeOK
<1>12. conn' \in [Clients -> {"off", "waiting", "accepted"}] /\ inq' \subseteq sent'
  BY <1>1 DEF Inv, TypeOK, client
<1>13. raced' \subseteq Clients
  BY <1>1, <1>2 DEF Takes, Inv, TypeOK
<1>14. TypeOK'
  BY <1>1, <1>2, <1>10, <1>11, <1>12, <1>13 DEF Inv, TypeOK, procs, client
<1> QED
  BY <1>10, <1>14 DEF Inv

\* A session that ends leaves the event loop as it is.
LEMMA ErrorStep ==
    ASSUME Inv, NEW p \in Procs, NEW kind \in Calls, Turn(p, kind),
           NEW c \in Clients, HandleHttpError(p, c)
    PROVE  Inv'
<1>1. /\ sess' = [sess EXCEPT ![p][c] = "closed"] /\ queue' = Set(queue, p, Rest(p))
      /\ UNCHANGED <<procs, conn, backlog, client, inq, got, history>>
  BY DEF HandleHttpError
<1>2. /\ st[p] = "loop" /\ Rest(p) \in Seq(Ops) /\ HasPoll(Rest(p))
      /\ (p = Main => NoReply(Rest(p)))
  BY TurnTaken DEF Calls
<1>3. queue' \in [Procs -> Seq(Ops)] /\ Polls' /\ Serves' /\ MainServes' /\ OnlyResetsStop'
  <2>1. reset' = reset /\ UNCHANGED procs
    BY <1>1 DEF client
  <2> QED
    BY <1>1, <1>2, <2>1, LoopStep
<1>4. sess' \in [Procs -> [Clients -> {"closed", "accepted", "reading", "request"}]]
  BY <1>1 DEF Inv, TypeOK
<1> QED
  BY <1>1, <1>3, <1>4 DEF Inv, TypeOK, procs, client, history

\* A process ends; if it is the server, a client has reset its connection.
LEMMA DeathStep ==
    ASSUME Inv, NEW p \in Procs, Dies(p), p = Main => reset # {},
           UNCHANGED <<serving, child, reset>>
    PROVE  /\ st' \in [Procs -> {"none", "forked", "loop", "wait", "program", "dead"}]
           /\ queue' \in [Procs -> Seq(Ops)]
           /\ sess' \in [Procs -> [Clients -> {"closed", "accepted", "reading", "request"}]]
           /\ Polls' /\ Serves' /\ MainServes' /\ OnlyResetsStop'
<1>1. st' = [st EXCEPT ![p] = "dead"] /\ queue' = [queue EXCEPT ![p] = << >>]
      /\ sess' = [sess EXCEPT ![p] = NoSessions]
  BY DEF Dies, Set
<1>2. << >> \in Seq(Ops) /\ NoReply(<< >>)
  BY DEF NoReply
<1>3. /\ st' \in [Procs -> {"none", "forked", "loop", "wait", "program", "dead"}]
      /\ queue' \in [Procs -> Seq(Ops)]
  BY <1>1, <1>2 DEF Inv, TypeOK
<1>4. sess' \in [Procs -> [Clients -> {"closed", "accepted", "reading", "request"}]]
  BY <1>1 DEF Inv, TypeOK, NoSessions
<1>5. Polls' /\ Serves'
  BY <1>1 DEF Inv, TypeOK, Polls, Serves
<1>6. MainServes' /\ OnlyResetsStop'
  BY <1>1, <1>2, OpTypes DEF Inv, TypeOK, MainServes, OnlyResetsStop
<1> QED
  BY <1>3, <1>4, <1>5, <1>6

\* forkCGI in the parent: the child is not the server, and inherits a queue
\* with the turn of epoll in it.
LEMMA ForkStep ==
    ASSUME Inv, NEW p \in Procs, NEW kind \in Calls, Turn(p, kind), NEW c \in Clients,
           ForkCGI(p, c), UNCHANGED <<conn, backlog, client, got>>, inq' = inq \ {c}
    PROVE  Inv'
<1> DEFINE all == [sess[p] EXCEPT ![c] = "request"]
           inherited == Inherited(Rest(p))
<1>1. /\ st[p] = "loop" /\ Rest(p) \in Seq(Ops) /\ HasPoll(Rest(p))
      /\ (p = Main => NoReply(Rest(p)))
  BY TurnTaken DEF Calls
<1>2. all \in [Clients -> {"closed", "accepted", "reading", "request"}]
  BY DEF Inv, TypeOK
<1>3. inherited \subseteq Clients
  BY DEF Inherited
<1>4. UNCHANGED <<program, sent, gone, reset>> /\ inq' \subseteq sent'
  BY DEF client, Inv, TypeOK
<1>5. CASE ForkFails(p, c)
  <2>1. /\ refused' = refused \cup {c} /\ raced' = raced /\ crowded' = crowded
        /\ sess' = [sess EXCEPT ![p][c] = "closed"] /\ queue' = Set(queue, p, Rest(p))
        /\ UNCHANGED procs
    BY <1>5 DEF ForkFails
  <2>2. queue' \in [Procs -> Seq(Ops)] /\ Polls' /\ Serves' /\ MainServes' /\ OnlyResetsStop'
    BY <1>1, <1>4, <2>1, LoopStep
  <2>3. sess' \in [Procs -> [Clients -> {"closed", "accepted", "reading", "request"}]]
    BY <2>1 DEF Inv, TypeOK
  <2> QED
    BY <1>4, <2>1, <2>2, <2>3 DEF Inv, TypeOK, procs
<1>6. ASSUME NEW k \in Procs,
             /\ st[k] = "none"
             /\ st' = [st EXCEPT ![p] = "wait", ![k] = "forked"]
             /\ serving' = [serving EXCEPT ![p] = c, ![k] = c]
             /\ child' = Set(child, p, k)
             /\ sess' = [sess EXCEPT ![p] = all, ![k] = all]
             /\ queue' = [queue EXCEPT ![p] = Rest(p), ![k] = Rest(p)]
             /\ raced' = Takes(p, {c}) \cup inherited
             /\ crowded' = IF inherited = {} THEN crowded ELSE crowded \cup {c}
             /\ UNCHANGED refused
      PROVE  Inv'
  <2>1. k # p /\ k # Main
    BY <1>1, <1>6 DEF Inv, MainServes
  <2> HIDE DEF all, inherited
  <2>2. /\ st' \in [Procs -> {"none", "forked", "loop", "wait", "program", "dead"}]
        /\ serving' \in [Procs -> Clients \cup {NoClient}] /\ child' \in [Procs -> Procs]
    BY <1>6 DEF Inv, TypeOK, Set
  <2>3. queue' \in [Procs -> Seq(Ops)]
    BY <1>1, <1>6 DEF Inv, TypeOK
  <2>4. sess' \in [Procs -> [Clients -> {"closed", "accepted", "reading", "request"}]]
    BY <1>2, <1>6 DEF Inv, TypeOK
  <2>5. raced' \subseteq Clients /\ crowded' \subseteq Clients
    BY <1>3, <1>6 DEF Inv, TypeOK, Takes
  <2>6. TypeOK'
    BY <1>4, <1>6, <2>2, <2>3, <2>4, <2>5 DEF Inv, TypeOK
  <2>7. /\ queue'[p] = Rest(p) /\ queue'[k] = Rest(p)
        /\ \A r \in Procs : r \notin {p, k} => queue'[r] = queue[r] /\ st'[r] = st[r]
                                               /\ child'[r] = child[r]
        /\ st'[p] = "wait" /\ st'[k] = "forked" /\ child'[p] = k
    BY <1>6, <2>1 DEF Inv, TypeOK, Set
  <2>8. Polls' /\ Serves'
    BY <1>1, <1>6, <2>7 DEF Inv, TypeOK, Polls, Serves
  <2>9. MainServes'
    BY <1>1, <2>1, <2>7, OpTypes DEF Inv, MainServes
  <2>10. OnlyResetsStop'
    BY <1>4, <2>1, <2>7, OpTypes DEF Inv, OnlyResetsStop
  <2> QED
    BY <2>6, <2>8, <2>9, <2>10 DEF Inv
<1> QED
  BY <1>5, <1>6 DEF ForkCGI

\* A request was read: the process dies of a reset connection, or forks.
LEMMA RequestStep ==
    ASSUME Inv, NEW p \in Procs, NEW kind \in Calls, Turn(p, kind), NEW c \in Clients,
           HandleHttpRequest(p, c)
    PROVE  Inv'
<1>1. inq' = inq \ {c} /\ UNCHANGED <<conn, backlog, client, got>>
  BY DEF HandleHttpRequest
<1>2. CASE c \in reset /\ Dies(p) /\ UNCHANGED <<serving, child, history>>
  <2>1. /\ UNCHANGED <<serving, child, raced, crowded, refused, program, sent, gone, reset>>
        /\ reset # {} /\ inq' \subseteq sent'
    BY <1>1, <1>2 DEF history, client, Inv, TypeOK
  <2> QED
    BY <1>1, <1>2, <2>1, DeathStep DEF Inv, TypeOK
<1>3. CASE c \notin reset /\ ForkCGI(p, c)
  BY <1>1, <1>3, ForkStep
<1> QED
  BY <1>2, <1>3 DEF HandleHttpRequest

\* A read or accept that finds nothing only loses its turn.
LEMMA NothingStep ==
    ASSUME Inv, NEW p \in Procs, NEW kind, kind # "poll", Turn(p, kind),
           queue' = Set(queue, p, Rest(p)),
           UNCHANGED <<procs, sess, conn, backlog, client, inq, got, history>>
    PROVE  Inv'
<1>1. /\ st[p] = "loop" /\ Rest(p) \in Seq(Ops) /\ HasPoll(Rest(p))
      /\ (p = Main => NoReply(Rest(p)))
  BY TurnTaken
<1>2. reset' = reset /\ UNCHANGED procs
  BY DEF client
<1>3. queue' \in [Procs -> Seq(Ops)] /\ Polls' /\ Serves' /\ MainServes' /\ OnlyResetsStop'
  BY <1>1, <1>2, LoopStep
<1> QED
  BY <1>3 DEF Inv, TypeOK, procs, client, history

\* The child sends the status line, or ends; it is not the server.
LEMMA ChildStep ==
    ASSUME Inv, NEW k \in Procs, ChildStarts(k)
    PROVE  Inv'
<1> DEFINE c == serving[k]
           op == IF c \in reset THEN <<"error", c>> ELSE <<"write", c>>
<1>1. /\ st[k] = "forked" /\ k # Main
      /\ UNCHANGED <<serving, child, conn, backlog, program, sent, gone, reset, inq, raced, crowded, refused>>
  BY DEF ChildStarts, client, history, Inv, MainServes
<1>2. CASE Stop(k) /\ UNCHANGED got
  BY <1>1, <1>2, DeathStep DEF Stop, Inv, TypeOK
<1>3. CASE /\ program[c] # "missing"
           /\ st' = Set(st, k, "loop")
           /\ queue' = [queue EXCEPT ![k] = Append(@, op)]
           /\ got' = IF c \in reset THEN got ELSE [got EXCEPT ![c] = Append(@, Status)]
           /\ UNCHANGED sess
  <2>1. queue[k] \in Seq(Ops) /\ HasPoll(queue[k])
    BY <1>1 DEF Inv, TypeOK, Polls
  <2>2. c \in Clients
    BY <1>1 DEF Inv, Serves
  <2>3. op \in Ops
    BY <2>2, OpTypes DEF Calls
  <2> HIDE DEF op, c
  <2>4. Append(queue[k], op) \in Seq(Ops) /\ HasPoll(Append(queue[k], op))
    BY <2>1, <2>3 DEF HasPoll
  <2>5. /\ queue' \in [Procs -> Seq(Ops)] /\ queue'[k] = Append(queue[k], op)
        /\ st' \in [Procs -> {"none", "forked", "loop", "wait", "program", "dead"}]
        /\ st'[k] = "loop"
        /\ \A r \in Procs : r # k => queue'[r] = queue[r] /\ st'[r] = st[r]
    BY <1>3, <2>4 DEF Inv, TypeOK, Set
  <2>6. got' \in [Clients -> Seq({Status} \cup {Output(d) : d \in Clients})]
    <3> DEFINE Replies == {Status} \cup {Output(d) : d \in Clients}
    <3>1. Status \in Replies /\ got \in [Clients -> Seq(Replies)]
      BY DEF Inv, TypeOK
    <3> HIDE DEF Replies
    <3>2. \A d \in Clients : Append(got[d], Status) \in Seq(Replies)
      BY <3>1
    <3>3. got' \in [Clients -> Seq(Replies)]
      BY <1>3, <3>1, <3>2
    <3> QED
      BY <3>3 DEF Replies
  <2>7. TypeOK'
    BY <1>1, <1>3, <2>5, <2>6 DEF Inv, TypeOK
  <2>8. Polls' /\ Serves'
    BY <1>1, <2>4, <2>5 DEF Inv, Polls, Serves
  <2>9. MainServes' /\ OnlyResetsStop'
    BY <1>1, <2>5, OpTypes, ZenonT(60) DEF Inv, MainServes, OnlyResetsStop
  <2> QED
    BY <2>7, <2>8, <2>9 DEF Inv
<1> QED
  BY <1>2, <1>3 DEF ChildStarts

\* The program is executed in the child, or the child stops.
LEMMA WriteStep ==
    ASSUME Inv, NEW p \in Procs, RunWrite(p)
    PROVE  Inv'
<1> DEFINE c == Head(queue[p])[2]
<1>1. /\ Turn(p, "write")
      /\ UNCHANGED <<child, conn, backlog, program, sent, gone, reset, inq, got, raced, crowded, refused>>
  BY DEF RunWrite, client, history
<1>2. p # Main /\ st[p] = "loop" /\ c \in Clients
  BY <1>1, TurnTaken DEF Calls
<1>3. CASE Stop(p) /\ UNCHANGED serving
  BY <1>1, <1>2, <1>3, DeathStep DEF Stop, Inv, TypeOK
<1>4. CASE /\ st' = Set(st, p, "program") /\ queue' = Set(queue, p, << >>)
           /\ serving' = Set(serving, p, c)
           /\ UNCHANGED sess
  <2>1. << >> \in Seq(Ops)
    OBVIOUS
  <2> HIDE DEF c
  <2>2. /\ queue' \in [Procs -> Seq(Ops)] /\ serving' \in [Procs -> Clients \cup {NoClient}]
        /\ st' \in [Procs -> {"none", "forked", "loop", "wait", "program", "dead"}]
        /\ st'[p] = "program" /\ serving'[p] = c
        /\ \A r \in Procs : r # p => /\ queue'[r] = queue[r] /\ st'[r] = st[r]
                                     /\ serving'[r] = serving[r]
    BY <1>2, <1>4, <2>1 DEF Inv, TypeOK, Set
  <2>3. TypeOK'
    BY <1>1, <1>4, <2>2 DEF Inv, TypeOK
  <2>4. Polls' /\ Serves'
    BY <1>2, <2>2 DEF Inv, Polls, Serves
  <2>5. MainServes' /\ OnlyResetsStop'
    BY <1>1, <1>2, <2>2, OpTypes, ZenonT(60) DEF Inv, MainServes, OnlyResetsStop
  <2> QED
    BY <2>3, <2>4, <2>5 DEF Inv
<1> QED
  BY <1>3, <1>4 DEF RunWrite

\* A program ends; it is not the server's process.
LEMMA ProgramStep ==
    ASSUME Inv, NEW p \in Procs, ProgramEnds(p)
    PROVE  Inv'
<1>1. /\ st[p] = "program" /\ p # Main /\ Dies(p)
      /\ got' = [got EXCEPT ![serving[p]] = Append(@, Output(serving[p]))]
      /\ UNCHANGED <<serving, child, conn, backlog, program, sent, gone, reset, inq, raced, crowded, refused>>
  BY DEF ProgramEnds, client, history, Inv, MainServes
<1>2. serving[p] \in Clients
  BY <1>1 DEF Inv, Serves
<1> DEFINE Replies == {Status} \cup {Output(d) : d \in Clients}
<1>3. Output(serving[p]) \in Replies /\ got \in [Clients -> Seq(Replies)]
  BY <1>2 DEF Inv, TypeOK
<1> HIDE DEF Replies
<1>4. Append(got[serving[p]], Output(serving[p])) \in Seq(Replies)
  BY <1>2, <1>3
<1>5. got' \in [Clients -> Seq(Replies)]
  BY <1>1, <1>3, <1>4
<1>6. got' \in [Clients -> Seq({Status} \cup {Output(d) : d \in Clients})]
  BY <1>5 DEF Replies
<1> QED
  BY <1>1, <1>6, DeathStep DEF Inv, TypeOK

\* waitpid returns: the child that ended is not the server.
LEMMA WaitStep ==
    ASSUME Inv, NEW p \in Procs, Waitpid(p)
    PROVE  Inv'
<1> DEFINE k == child[p]
<1>1. /\ st[p] = "wait" /\ st[k] = "dead" /\ k # Main /\ k \in Procs /\ k # p
      /\ st' = [st EXCEPT ![p] = "loop", ![k] = "none"]
      /\ sess' = [sess EXCEPT ![p][serving[p]] = "closed"]
      /\ UNCHANGED <<serving, child, queue, conn, backlog, program, sent, gone, reset, inq, got,
                     raced, crowded, refused>>
  BY DEF Waitpid, client, history, Inv, TypeOK, MainServes
<1> HIDE DEF k
<1>2. /\ st' \in [Procs -> {"none", "forked", "loop", "wait", "program", "dead"}]
      /\ st'[p] = "loop" /\ st'[k] = "none" /\ \A r \in Procs : r \notin {p, k} => st'[r] = st[r]
  BY <1>1 DEF Inv, TypeOK
<1>3. sess' \in [Procs -> [Clients -> {"closed", "accepted", "reading", "request"}]]
  BY <1>1 DEF Inv, TypeOK
<1>4. TypeOK'
  BY <1>1, <1>2, <1>3 DEF Inv, TypeOK
<1>5. Polls' /\ Serves'
  BY <1>1, <1>2 DEF Inv, Polls, Serves
<1>6. MainServes' /\ OnlyResetsStop'
  BY <1>1, <1>2, OpTypes DEF Inv, MainServes, OnlyResetsStop
<1> QED
  BY <1>4, <1>5, <1>6 DEF Inv

\* What the clients do leaves the processes alone.
LEMMA ClientStep ==
    ASSUME Inv, NEW c \in Clients, Connect(c) \/ Send(c) \/ Close(c) \/ Reset(c)
    PROVE  Inv'
<1>1. /\ UNCHANGED <<st, serving, child, queue, sess, program, got, raced, crowded, refused>>
      /\ conn' = conn \/ conn' = Set(conn, c, "waiting")
      /\ backlog' = backlog \/ backlog' = Append(backlog, c)
      /\ sent \subseteq sent' /\ sent' \subseteq Clients /\ inq' \subseteq sent'
      /\ gone' \subseteq Closers /\ reset' \subseteq Resetters /\ reset \subseteq reset'
  BY DEF Connect, Send, Close, Reset, procs, client, history, Inv, TypeOK
<1>2. backlog' \in Seq(Clients) /\ conn' \in [Clients -> {"off", "waiting", "accepted"}]
  <2>1. Append(backlog, c) \in Seq(Clients)
    BY DEF Inv, TypeOK
  <2>2. Set(conn, c, "waiting") \in [Clients -> {"off", "waiting", "accepted"}]
    BY DEF Inv, TypeOK, Set
  <2> QED
    BY <1>1, <2>1, <2>2 DEF Inv, TypeOK
<1> QED
  BY <1>1, <1>2 DEF Inv, TypeOK, Polls, Serves, MainServes, OnlyResetsStop

\* Every step preserves the invariant.
LEMMA InvNext == Inv /\ [Next]_vars => Inv'
<1> SUFFICES ASSUME Inv, [Next]_vars PROVE Inv'
  OBVIOUS
<1>1. ASSUME NEW p \in Procs, RunAccept(p) PROVE Inv'
  <2>1. backlog # << >> => Head(backlog) \in Clients /\ Tail(backlog) \in Seq(Clients)
    BY DEF Inv, TypeOK
  <2> QED
    BY <1>1, <2>1, AcceptStep, NothingStep DEF RunAccept
<1>2. ASSUME NEW p \in Procs, RunAccepted(p) PROVE Inv'
  <2>1. Head(queue[p])[2] \in Clients /\ backlog \in Seq(Clients) /\ Turn(p, "accepted")
    BY <1>2, TurnTaken DEF RunAccepted, Calls, Inv, TypeOK
  <2> QED
    BY <1>2, <2>1, AcceptStep DEF RunAccepted
<1>3. ASSUME NEW p \in Procs, RunRead(p) PROVE Inv'
  <2>1. Turn(p, "read") /\ Head(queue[p])[2] \in Clients /\ "read" \in Calls
    BY <1>3, TurnTaken DEF RunRead, Calls
  <2> QED
    BY <1>3, <2>1, RequestStep, ErrorStep, NothingStep DEF RunRead
<1>4. ASSUME NEW p \in Procs, RunDone(p) PROVE Inv'
  <2>1. Turn(p, "done") /\ Head(queue[p])[2] \in Clients /\ "done" \in Calls
    BY <1>4, TurnTaken DEF RunDone, Calls
  <2> QED
    BY <1>4, <2>1, RequestStep DEF RunDone
<1>5. ASSUME NEW p \in Procs, RunClosed(p) \/ RunWriteError(p) PROVE Inv'
  <2>1. PICK kind \in Calls : /\ Turn(p, kind) /\ HandleHttpError(p, Head(queue[p])[2])
                              /\ Head(queue[p])[2] \in Clients
    BY <1>5, TurnTaken DEF RunClosed, RunWriteError, Calls
  <2> QED
    BY <2>1, ErrorStep
<1>6. CASE UNCHANGED vars
  BY <1>6 DEF vars, procs, client, history, Inv, TypeOK, Polls, Serves, MainServes, OnlyResetsStop
<1>7. ASSUME NEW p \in Procs, Step(p) PROVE Inv'
  BY <1>1, <1>2, <1>3, <1>4, <1>5, <1>7, PollStep, ChildStep, WriteStep, ProgramStep, WaitStep
     DEF Step
<1> QED
  BY <1>6, <1>7, ClientStep DEF Next

-----------------------------------------------------------------------------
(* The theorems.                                                           *)

\* The inductive invariant holds in every reachable state.
THEOREM InvHolds == Spec => []Inv
BY InvInit, InvNext, PTL DEF Spec

\* The tables of the processes, their queues and sessions keep their types.
THEOREM TypeCorrect == Spec => []TypeOK
<1>1. Inv => TypeOK
  BY DEF Inv
<1> QED
  BY <1>1, InvHolds, PTL

\* Whatever children, programs and fork() do, the server ends only after a
\* client has reset its connection (cgi_session.cpp:75, 98-133).
THEOREM ServerSurvives == Spec => []OnlyResetsStop
<1>1. Inv => OnlyResetsStop
  BY DEF Inv
<1> QED
  BY <1>1, InvHolds, PTL

-----------------------------------------------------------------------------
(* The server answers every client rightly, unless the connection was      *)
(* caught by a fork: proof of RightAnswer.                                 *)
(*                                                                         *)
(* The invariant AnswerInv follows a connection through its life: it waits *)
(* in the backlog, the server accepts it and reads its request, the child  *)
(* on top of the stack of processes sends the status line and executes the *)
(* program, and the session is closed when that child has been waited for. *)
(* At each point it says which callbacks about the connection are in which *)
(* queue, because that is what a fork copies.                              *)

\* The processes are a stack: each waits for the one above it.
Chain == \A p \in Procs :
    /\ st[p] = "wait" => child[p] = p + 1 /\ p + 1 \in Procs /\ st[p + 1] # "none"
    /\ st[p] # "none" => \A q \in Procs : q < p => st[q] = "wait"

\* The callbacks about c in a queue: none, one of a kind, or reads only.
About(c) == Calls \X {c}
NoOps(q, c) == \A i \in 1 .. Len(q) : q[i] \notin About(c)
OneOp(q, c, kind) == \E i \in 1 .. Len(q) :
    q[i] = <<kind, c>> /\ \A j \in 1 .. Len(q) : j # i => q[j] \notin About(c)
Others(D) == {Poll, Accept} \cup (Calls \X D)
OnlyOthers(q, D) == \A i \in 1 .. Len(q) : q[i] \in Others(D)
\* The only write is about c; before it, the callbacks are about clients in D.
OneWrite(q, c, D) == \E i \in 1 .. Len(q) :
    /\ q[i] = <<"write", c>>
    /\ \A j \in 1 .. Len(q) : j # i => q[j] \notin About(c) /\ q[j][1] # "write"
    /\ \A j \in 1 .. Len(q) : j < i => q[j] \in Others(D)
NoWrites(q) == \A i \in 1 .. Len(q) : q[i][1] # "write"
OnlyReads(q, c) == \A i \in 1 .. Len(q) : q[i] \in About(c) => q[i] = <<"read", c>>

\* Before a connection is accepted, nothing is done about it; it waits once.
Opened == \A c \in Clients : conn[c] # "accepted" =>
    /\ got[c] = << >>
    /\ \A p \in Procs : /\ sess[p][c] = "closed" /\ NoOps(queue[p], c)
                        /\ st[p] \in {"forked", "wait", "program"} => serving[p] # c
Waiting == /\ \A i \in 1 .. Len(backlog) : conn[backlog[i]] = "waiting"
           /\ \A i, j \in 1 .. Len(backlog) : backlog[i] = backlog[j] => i = j

\* The session has ended as it should, unless the client, its program, fork() or
\* another client, whose request the child found in its queue, is to blame.
Finished(c) == \/ c \in gone \cup reset \cup refused
               \/ program[c] \in {"missing", "broken"}
               \/ c \in crowded /\ raced \cap reset # {}
               \/ got[c] = Answer(c)

\* The clients whose callbacks the child that serves c may have found in its queue.
Around(c) == IF c \in crowded THEN raced ELSE {}

\* The child k of the server serves c.
InChild(c, k) ==
    /\ st[k] = "forked" => /\ serving[k] = c /\ got[c] = << >> /\ NoOps(queue[k], c)
                           /\ NoWrites(queue[k]) /\ OnlyOthers(queue[k], Around(c))
    /\ st[k] = "loop" => \/ OneWrite(queue[k], c, Around(c)) /\ got[c] = <<Status>>
                         \/ /\ NoOps(queue[k], c) \/ OneOp(queue[k], c, "error")
                            /\ NoWrites(queue[k]) /\ c \in reset /\ got[c] = << >>
    /\ st[k] = "wait" => /\ NoOps(queue[k], c) /\ NoWrites(queue[k])
                         /\ serving[k] # c /\ c \in reset /\ got[c] = << >>
    /\ st[k] = "program" => serving[k] = c /\ got[c] = <<Status>>
    /\ st[k] = "dead" => queue[k] = << >> /\ Finished(c)
    /\ sess[k][c] # "reading"

\* The server has accepted c and lives.
AtServer(c) ==
    /\ sess[Main][c] = "accepted" =>
         OneOp(queue[Main], c, "accepted") /\ st[Main] = "loop" /\ got[c] = << >>
    /\ sess[Main][c] = "reading" =>
         /\ NoOps(queue[Main], c) \/ OneOp(queue[Main], c, "read")
         /\ ~(st[Main] = "wait" /\ serving[Main] = c) /\ got[c] = << >>
    /\ sess[Main][c] = "request" =>
         \/ /\ OneOp(queue[Main], c, "done") \/ (OneOp(queue[Main], c, "closed") /\ c \in gone \cup reset)
            /\ st[Main] = "loop" /\ got[c] = << >>
         \/ /\ NoOps(queue[Main], c) /\ st[Main] = "wait" /\ serving[Main] = c
            /\ InChild(c, Main + 1)
    /\ sess[Main][c] = "closed" =>
         /\ NoOps(queue[Main], c) /\ ~(st[Main] = "wait" /\ serving[Main] = c)
         /\ Finished(c)

\* The other processes know c at most as a session they could read from.
Elsewhere(c) == \A p \in Procs \ {Main} :
    \/ p = Main + 1 /\ st[Main] = "wait" /\ serving[Main] = c
    \/ OnlyReads(queue[p], c) /\ (st[p] \in {"forked", "program"} => serving[p] # c)

Life(c) ==
    /\ got[c] \in {<< >>, <<Status>>, Answer(c)}
    /\ conn[c] = "accepted" /\ st[Main] # "dead" => AtServer(c)
    /\ Elsewhere(c)

AnswerInv == Chain /\ Opened /\ Waiting /\ \A c \in Clients \ raced : Life(c)

-----------------------------------------------------------------------------
(* Queues and the callbacks about one client.                              *)

\* What changes in a queue is not about c.
Keeps(q, r, c) ==
    /\ NoOps(q, c) => NoOps(r, c)
    /\ OnlyReads(q, c) => OnlyReads(r, c)
    /\ NoWrites(q) => NoWrites(r)
    /\ \A kind \in Calls : OneOp(q, c, kind) => OneOp(r, c, kind)
    /\ \A D : OneWrite(q, c, D) => OneWrite(r, c, D)

\* What two changes of a queue keep one after the other.
LEMMA KeepsTwice ==
    ASSUME NEW q, NEW r, NEW s, NEW c, Keeps(q, r, c), Keeps(r, s, c)
    PROVE  Keeps(q, s, c)
BY DEF Keeps

\* The head of a queue is taken off, and it is not about c.
LEMMA TailKeeps ==
    ASSUME NEW q \in Seq(Ops), q # << >>, NEW c, Head(q) \notin About(c)
    PROVE  Keeps(q, Tail(q), c)
<1> DEFINE r == Tail(q)
<1>1. /\ Len(q) \in Nat \ {0} /\ Len(r) = Len(q) - 1 /\ Head(q) = q[1]
      /\ \A i \in 1 .. Len(r) : i + 1 \in 1 .. Len(q) /\ r[i] = q[i + 1]
  OBVIOUS
<1>2. \A i \in 1 .. Len(q) : i # 1 => i - 1 \in 1 .. Len(r) /\ r[i - 1] = q[i]
  BY <1>1
<1> HIDE DEF r
<1>3. ASSUME NEW kind \in Calls, NEW i \in 1 .. Len(q), q[i] = <<kind, c>>,
             \A j \in 1 .. Len(q) : j # i => q[j] \notin About(c)
      PROVE  /\ i - 1 \in 1 .. Len(r) /\ r[i - 1] = <<kind, c>>
             /\ \A j \in 1 .. Len(r) : j # i - 1 => r[j] \notin About(c)
  <2>1. <<kind, c>> \in About(c)
    BY DEF About
  <2>2. i # 1
    BY <1>1, <1>3, <2>1
  <2>3. ASSUME NEW j \in 1 .. Len(r), j # i - 1 PROVE r[j] \notin About(c)
    BY <1>1, <1>3, <2>3
  <2> QED
    BY <1>2, <1>3, <2>2, <2>3
<1>4. NoOps(q, c) => NoOps(r, c)
  BY <1>1 DEF NoOps
<1>5. OnlyReads(q, c) => OnlyReads(r, c)
  BY <1>1 DEF OnlyReads
<1>6. ASSUME NEW kind \in Calls, OneOp(q, c, kind) PROVE OneOp(r, c, kind)
  BY <1>3, <1>6, Zenon DEF OneOp
<1>7. ASSUME NEW D, OneWrite(q, c, D) PROVE OneWrite(r, c, D)
  <2>1. PICK i \in 1 .. Len(q) :
          /\ q[i] = <<"write", c>>
          /\ \A j \in 1 .. Len(q) : j # i => q[j] \notin About(c) /\ q[j][1] # "write"
          /\ \A j \in 1 .. Len(q) : j < i => q[j] \in Others(D)
    BY <1>7 DEF OneWrite
  <2>2. /\ i - 1 \in 1 .. Len(r) /\ r[i - 1] = <<"write", c>>
        /\ \A j \in 1 .. Len(r) : j # i - 1 => r[j] \notin About(c)
    <3>1. "write" \in Calls /\ \A j \in 1 .. Len(q) : j # i => q[j] \notin About(c)
      BY <2>1 DEF Calls
    <3> QED
      BY <1>3, <2>1, <3>1
  <2>3. ASSUME NEW j \in 1 .. Len(r)
        PROVE  (j # i - 1 => r[j][1] # "write") /\ (j < i - 1 => r[j] \in Others(D))
    <3>1. /\ j + 1 \in 1 .. Len(q) /\ r[j] = q[j + 1]
          /\ (j # i - 1 => j + 1 # i) /\ (j < i - 1 => j + 1 < i)
      BY <1>1
    <3> QED
      BY <2>1, <3>1
  <2> QED
    BY <2>2, <2>3, Zenon DEF OneWrite
<1>8. NoWrites(q) => NoWrites(r)
  BY <1>1 DEF NoWrites
<1> QED
  BY <1>4, <1>5, <1>6, <1>7, <1>8 DEF Keeps, r

\* Callbacks that are not about c come behind the others.
LEMMA ConcatKeeps ==
    ASSUME NEW q \in Seq(Ops), NEW ops \in Seq(Ops), NEW c, NoOps(ops, c), NoWrites(ops)
    PROVE  Keeps(q, q \o ops, c)
<1> DEFINE r == q \o ops
<1>1. /\ Len(q) \in Nat /\ Len(ops) \in Nat /\ Len(r) = Len(q) + Len(ops)
      /\ \A i \in 1 .. Len(q) : i \in 1 .. Len(r) /\ r[i] = q[i]
  BY ConcatElements
<1>2. \A i \in 1 .. Len(r) : \/ i \in 1 .. Len(q) /\ r[i] = q[i]
                             \/ i > Len(q) /\ r[i] \notin About(c)
  BY ConcatElements DEF NoOps
<1> HIDE DEF r
<1>3. NoOps(q, c) => NoOps(r, c)
  BY <1>2 DEF NoOps
<1>4. OnlyReads(q, c) => OnlyReads(r, c)
  BY <1>2 DEF OnlyReads
<1>5. ASSUME NEW kind \in Calls, NEW i \in 1 .. Len(q), q[i] = <<kind, c>>,
             \A j \in 1 .. Len(q) : j # i => q[j] \notin About(c)
      PROVE  /\ i \in 1 .. Len(r) /\ r[i] = <<kind, c>>
             /\ \A j \in 1 .. Len(r) : j # i => r[j] \notin About(c)
  BY <1>1, <1>2, <1>5
<1>6. ASSUME NEW kind \in Calls, OneOp(q, c, kind) PROVE OneOp(r, c, kind)
  BY <1>5, <1>6, Zenon DEF OneOp
<1>7. \A i \in 1 .. Len(r) : \/ i \in 1 .. Len(q) /\ r[i] = q[i]
                             \/ i > Len(q) /\ r[i][1] # "write"
  BY ConcatElements DEF NoWrites, r
<1>8. NoWrites(q) => NoWrites(r)
  BY <1>7 DEF NoWrites
<1>9. ASSUME NEW D, OneWrite(q, c, D) PROVE OneWrite(r, c, D)
  <2>1. PICK i \in 1 .. Len(q) :
          /\ q[i] = <<"write", c>>
          /\ \A j \in 1 .. Len(q) : j # i => q[j] \notin About(c) /\ q[j][1] # "write"
          /\ \A j \in 1 .. Len(q) : j < i => q[j] \in Others(D)
    BY <1>9 DEF OneWrite
  <2>2. i \in 1 .. Len(r) /\ r[i] = <<"write", c>>
    BY <1>1, <2>1
  <2>3. ASSUME NEW j \in 1 .. Len(r), j # i PROVE r[j] \notin About(c) /\ r[j][1] # "write"
    BY <1>2, <1>7, <2>1, <2>3
  <2>4. ASSUME NEW j \in 1 .. Len(r), j < i PROVE r[j] \in Others(D)
    BY <1>1, <1>2, <2>1, <2>4
  <2> QED
    BY <2>2, <2>3, <2>4, Zenon DEF OneWrite
<1> QED
  BY <1>3, <1>4, <1>6, <1>8, <1>9 DEF Keeps, r

\* The same for two sequences of callbacks.
LEMMA ConcatKeepsTwice ==
    ASSUME NEW q \in Seq(Ops), NEW r \in Seq(Ops), NEW a \in Seq(Ops), NEW b \in Seq(Ops),
           NEW c, Keeps(q, r, c), NoOps(a, c), NoOps(b, c), NoWrites(a), NoWrites(b)
    PROVE  Keeps(q, (r \o a) \o b, c) /\ (r \o a) \o b \in Seq(Ops)
<1>1. Keeps(r, r \o a, c) /\ r \o a \in Seq(Ops)
  BY ConcatKeeps, ConcatElements
<1>2. Keeps(r \o a, (r \o a) \o b, c) /\ (r \o a) \o b \in Seq(Ops)
  BY <1>1, ConcatKeeps, ConcatElements
<1> QED
  BY <1>1, <1>2, KeepsTwice

\* A callback about c comes behind a queue without one.
LEMMA ConcatAdds ==
    ASSUME NEW q \in Seq(Ops), NEW ops \in Seq(Ops), NEW c, NoOps(q, c),
           NEW kind, OneOp(ops, c, kind)
    PROVE  OneOp(q \o ops, c, kind)
<1> DEFINE r == q \o ops
<1>1. /\ Len(q) \in Nat /\ Len(ops) \in Nat /\ Len(r) = Len(q) + Len(ops)
      /\ \A i \in 1 .. Len(ops) : Len(q) + i \in 1 .. Len(r) /\ r[Len(q) + i] = ops[i]
  BY ConcatElements
<1>2. \A i \in 1 .. Len(r) : \/ i \in 1 .. Len(q) /\ r[i] \notin About(c)
                             \/ i - Len(q) \in 1 .. Len(ops) /\ r[i] = ops[i - Len(q)]
  BY ConcatElements DEF NoOps
<1> HIDE DEF r
<1>3. PICK n \in 1 .. Len(ops) : /\ ops[n] = <<kind, c>>
                                 /\ \A j \in 1 .. Len(ops) : j # n => ops[j] \notin About(c)
  BY DEF OneOp
<1>4. Len(q) + n \in 1 .. Len(r) /\ r[Len(q) + n] = <<kind, c>>
  BY <1>1, <1>3
<1>5. ASSUME NEW j \in 1 .. Len(r), j # Len(q) + n PROVE r[j] \notin About(c)
  <2>1. CASE j - Len(q) \in 1 .. Len(ops) /\ r[j] = ops[j - Len(q)]
    <3>1. j - Len(q) # n
      BY <1>1, <1>5
    <3> QED
      BY <1>3, <2>1, <3>1
  <2> QED
    BY <1>2, <2>1
<1> QED
  BY <1>4, <1>5 DEF OneOp, r

\* Reads behind a queue that has only reads about c.
LEMMA ConcatReads ==
    ASSUME NEW q \in Seq(Ops), NEW ops \in Seq(Ops), NEW c, OnlyReads(q, c), OnlyReads(ops, c)
    PROVE  OnlyReads(q \o ops, c)
<1> SUFFICES ASSUME NEW i \in 1 .. Len(q \o ops), (q \o ops)[i] \in About(c)
             PROVE  (q \o ops)[i] = <<"read", c>>
  BY DEF OnlyReads
<1>1. \/ i \in 1 .. Len(q) /\ (q \o ops)[i] = q[i]
      \/ i - Len(q) \in 1 .. Len(ops) /\ (q \o ops)[i] = ops[i - Len(q)]
  BY ConcatElements
<1> QED
  BY <1>1 DEF OnlyReads

\* The reply to c behind callbacks about others is the only write and about c.
LEMMA WriteAdded ==
    ASSUME NEW q \in Seq(Ops), NEW c, NEW D, NoOps(q, c), NoWrites(q), OnlyOthers(q, D)
    PROVE  OneWrite(Append(q, <<"write", c>>), c, D)
<1> DEFINE x == <<"write", c>>
           r == Append(q, x)
<1>1. /\ Len(q) \in Nat /\ Len(r) = Len(q) + 1 /\ r[Len(q) + 1] = x
      /\ \A j \in 1 .. Len(q) : r[j] = q[j]
  <2> HIDE DEF x
  <2> QED
    BY AppendElements
<1> HIDE DEF r
<1>2. Len(q) + 1 \in 1 .. Len(r) /\ r[Len(q) + 1] = <<"write", c>>
  BY <1>1
<1>3. ASSUME NEW j \in 1 .. Len(r), j # Len(q) + 1
      PROVE  r[j] \notin About(c) /\ r[j][1] # "write" /\ r[j] \in Others(D)
  <2>1. j \in 1 .. Len(q) /\ r[j] = q[j]
    BY <1>1, <1>3
  <2> QED
    BY <2>1 DEF NoOps, NoWrites, OnlyOthers
<1>4. \A j \in 1 .. Len(r) : j < Len(q) + 1 => r[j] \in Others(D)
  BY <1>1, <1>3
<1> QED
  BY <1>2, <1>3, <1>4, Zenon DEF OneWrite, r

\* More clients may be the others.
LEMMA MoreOthers ==
    ASSUME NEW q, NEW c, NEW D, NEW E, D \subseteq E
    PROVE  /\ OnlyOthers(q, D) => OnlyOthers(q, E)
           /\ OneWrite(q, c, D) => OneWrite(q, c, E)
<1>1. Others(D) \subseteq Others(E)
  BY DEF Others
<1> QED
  BY <1>1, Zenon DEF OnlyOthers, OneWrite

\* The only callback about c is at the head, and is taken off.
LEMMA HeadTaken ==
    ASSUME NEW q \in Seq(Ops), q # << >>, NEW c, NEW kind, Head(q) = <<kind, c>>, kind \in Calls
    PROVE  /\ \A k \in Calls : OneOp(q, c, k) => k = kind /\ NoOps(Tail(q), c)
           /\ ~NoOps(q, c)
           /\ OnlyReads(q, c) => kind = "read" /\ OnlyReads(Tail(q), c)
           /\ \A d, D : OneWrite(q, d, D) => \/ d = c /\ kind = "write"
                                             \/ d # c /\ kind # "write" /\ c \in D
<1>1. /\ Len(q) \in Nat \ {0} /\ q[1] = <<kind, c>> /\ 1 \in 1 .. Len(q)
      /\ Len(Tail(q)) = Len(q) - 1
      /\ \A i \in 1 .. Len(Tail(q)) : i + 1 \in 1 .. Len(q) /\ i + 1 # 1 /\ Tail(q)[i] = q[i + 1]
  OBVIOUS
<1>2. q[1] \in About(c)
  BY <1>1 DEF About
<1>3. ASSUME NEW k \in Calls, OneOp(q, c, k) PROVE k = kind /\ NoOps(Tail(q), c)
  <2>1. PICK i \in 1 .. Len(q) : /\ q[i] = <<k, c>>
                                 /\ \A j \in 1 .. Len(q) : j # i => q[j] \notin About(c)
    BY <1>3 DEF OneOp
  <2>2. i = 1
    BY <1>1, <1>2, <2>1
  <2> QED
    BY <1>1, <2>1, <2>2 DEF NoOps
<1>4. ~NoOps(q, c)
  BY <1>1, <1>2 DEF NoOps
<1>5. OnlyReads(q, c) => kind = "read" /\ OnlyReads(Tail(q), c)
  BY <1>1, <1>2 DEF OnlyReads
<1>6. ASSUME NEW d, NEW D, OneWrite(q, d, D)
      PROVE  \/ d = c /\ kind = "write"
             \/ d # c /\ kind # "write" /\ c \in D
  <2>1. PICK i \in 1 .. Len(q) :
          /\ q[i] = <<"write", d>>
          /\ \A j \in 1 .. Len(q) : j # i => q[j] \notin About(d) /\ q[j][1] # "write"
          /\ \A j \in 1 .. Len(q) : j < i => q[j] \in Others(D)
    BY <1>6 DEF OneWrite
  <2>2. CASE i = 1
    BY <1>1, <2>1, <2>2
  <2>3. CASE i # 1
    <3>1. q[1] \notin About(d) /\ q[1][1] # "write" /\ q[1] \in Others(D)
      BY <1>1, <2>1, <2>3
    <3>2. d # c /\ kind # "write"
      BY <1>1, <1>2, <3>1
    <3>3. q[1] \notin {Poll, Accept}
      BY <1>1, OpTypes DEF Calls
    <3> QED
      BY <1>1, <3>1, <3>2, <3>3 DEF Others
  <2> QED
    BY <2>2, <2>3
<1> QED
  BY <1>3, <1>4, <1>5, <1>6

\* A callback about another client, or none, is not about c.
LEMMA NotAbout ==
    ASSUME NEW c \in Clients
    PROVE  /\ Poll \notin About(c) /\ Accept \notin About(c)
           /\ \A kind, d : d # c => <<kind, d>> \notin About(c)
           /\ NoOps(<< >>, c) /\ NoOps(<<Poll>>, c) /\ OnlyReads(<< >>, c)
           /\ \A kind, d : d # c => NoOps(<< <<kind, d>> >>, c)
           /\ \A kind : OneOp(<< <<kind, c>> >>, c, kind)
<1>1. Poll \notin About(c) /\ Accept \notin About(c)
  BY OpTypes DEF About, Calls
<1>2. \A kind, d : d # c => <<kind, d>> \notin About(c)
  BY DEF About
<1>3. NoOps(<< >>, c) /\ NoOps(<<Poll>>, c) /\ OnlyReads(<< >>, c)
  BY <1>1 DEF NoOps, OnlyReads
<1>4. \A kind, d : d # c => NoOps(<< <<kind, d>> >>, c)
  BY <1>2 DEF NoOps
<1>5. ASSUME NEW kind PROVE OneOp(<< <<kind, c>> >>, c, kind)
  BY DEF OneOp
<1> QED
  BY <1>1, <1>2, <1>3, <1>4, <1>5

\* What epoll reports about c is that it can be read, once, if a process reads it.
LEMMA ReadyAbout ==
    ASSUME Inv, NEW p \in Procs, NEW ops \in SetToSeqs(Ready(p) \ Range(Rest(p))),
           NEW c \in Clients
    PROVE  /\ OnlyReads(ops, c)
           /\ sess[p][c] # "reading" => NoOps(ops, c)
           /\ OneOp(Rest(p), c, "read") => NoOps(ops, c)
           /\ NoOps(ops, c) \/ OneOp(ops, c, "read")
<1> DEFINE S == Ready(p) \ Range(Rest(p))
<1>1. ops \in Seq(Ops)
  BY ReadyOps
<1>2. \A i \in 1 .. Len(ops) : ops[i] \in S
  <2>1. ops \in [1 .. Cardinality(S) -> S]
    BY DEF SetToSeqs
  <2>2. 1 .. Len(ops) = DOMAIN ops
    BY <1>1
  <2> HIDE DEF S
  <2> QED
    BY <2>1, <2>2
<1>3. \A i, j \in 1 .. Len(ops) : i # j => ops[i] # ops[j]
  <2>1. ops \in [1 .. Cardinality(S) -> S]
    BY DEF SetToSeqs
  <2>2. 1 .. Len(ops) = 1 .. Cardinality(S)
    <3> HIDE DEF S
    <3> QED
      BY <1>1, <2>1
  <2> QED
    BY <2>2 DEF SetToSeqs
<1>4. \A op \in S : op \in About(c) => op = <<"read", c>> /\ sess[p][c] = "reading"
  BY OpTypes DEF Ready, About, Calls
<1>5. OneOp(Rest(p), c, "read") => <<"read", c>> \notin S
  BY DEF OneOp, Range
<1> HIDE DEF S
<1>6. OnlyReads(ops, c)
  BY <1>2, <1>4 DEF OnlyReads
<1>7. sess[p][c] # "reading" => NoOps(ops, c)
  BY <1>2, <1>4 DEF NoOps
<1>8. OneOp(Rest(p), c, "read") => NoOps(ops, c)
  BY <1>2, <1>4, <1>5 DEF NoOps
<1>9. NoOps(ops, c) \/ OneOp(ops, c, "read")
  <2> SUFFICES ASSUME ~NoOps(ops, c) PROVE OneOp(ops, c, "read")
    OBVIOUS
  <2>1. PICK i \in 1 .. Len(ops) : ops[i] \in About(c)
    BY DEF NoOps
  <2>2. ops[i] = <<"read", c>>
    BY <1>2, <1>4, <2>1
  <2>3. \A j \in 1 .. Len(ops) : j # i => ops[j] \notin About(c)
    BY <1>2, <1>3, <1>4, <2>2
  <2> QED
    BY <2>2, <2>3 DEF OneOp
<1> QED
  BY <1>6, <1>7, <1>8, <1>9

-----------------------------------------------------------------------------
(* The stack of processes.                                                 *)

\* The process that runs is the last one.
LEMMA OnTop ==
    ASSUME Inv, Chain, NEW p \in Procs, st[p] \notin {"none", "wait"}
    PROVE  /\ \A q \in Procs : q > p => st[q] = "none"
           /\ \A q \in Procs : q < p => st[q] = "wait"
           /\ p # Main => st[Main] = "wait"
<1>1. Procs \subseteq Int /\ Main \in Procs /\ \A q \in Procs : q >= Main
  BY OpTypes DEF Procs, Main
<1>2. ASSUME NEW q \in Procs, q > p PROVE st[q] = "none"
  <2>1. p < q
    BY <1>1, <1>2
  <2> QED
    BY <2>1 DEF Chain
<1>3. \A q \in Procs : q < p => st[q] = "wait"
  BY DEF Chain
<1>4. p # Main => Main < p
  BY <1>1
<1> QED
  BY <1>1, <1>2, <1>3, <1>4

\* A process that runs goes on to another state: the stack stays as it is.
LEMMA ChainRuns ==
    ASSUME Inv, Chain, NEW p \in Procs, st[p] \notin {"none", "wait"},
           NEW v, v \notin {"none", "wait"}, st' = [st EXCEPT ![p] = v], child' = child
    PROVE  Chain'
<1>1. st'[p] = v /\ \A q \in Procs : q # p => st'[q] = st[q]
  BY DEF Inv, TypeOK
<1> SUFFICES ASSUME NEW q \in Procs
             PROVE  /\ st'[q] = "wait" => child'[q] = q + 1 /\ q + 1 \in Procs /\ st'[q + 1] # "none"
                    /\ st'[q] # "none" => \A r \in Procs : r < q => st'[r] = "wait"
  BY DEF Chain
<1>2. st'[q] = "wait" => st[q] = "wait"
  BY <1>1
<1>3. st[q] = "wait" => child[q] = q + 1 /\ q + 1 \in Procs /\ st[q + 1] # "none"
  BY DEF Chain
<1>4. st[q] = "wait" => st'[q + 1] # "none"
  BY <1>1, <1>3
<1>5. ASSUME st'[q] # "none", NEW r \in Procs, r < q PROVE st'[r] = "wait"
  <2>1. st[q] # "none"
    BY <1>1, <1>5
  <2>2. st[r] = "wait"
    BY <1>5, <2>1 DEF Chain
  <2> QED
    BY <1>1, <2>2
<1> QED
  BY <1>2, <1>3, <1>4, <1>5

\* The child of a fork is put on top of its parent.
LEMMA ChainForks ==
    ASSUME Inv, Chain, NEW p \in Procs, st[p] = "loop", NEW k \in Procs, st[k] = "none",
           \A q \in 1 .. k - 1 : st[q] # "none",
           st' = [st EXCEPT ![p] = "wait", ![k] = "forked"], child' = Set(child, p, k)
    PROVE  k = p + 1 /\ Chain'
<1>1. /\ \A q \in Procs : q > p => st[q] = "none"
      /\ \A q \in Procs : q < p => st[q] = "wait"
  BY OnTop
<1>2. Procs \subseteq Int /\ \A q \in Procs, r \in Int : 1 <= r /\ r <= q => r \in Procs
  BY ProcsAssumption DEF Procs
<1>3. k # p /\ k > p
  BY <1>1, <1>2
<1>4. k = p + 1
  <2> SUFFICES ASSUME k # p + 1 PROVE FALSE
    OBVIOUS
  <2>1. p + 1 \in 1 .. k - 1 /\ p + 1 \in Procs /\ p + 1 > p
    BY <1>2, <1>3 DEF Procs
  <2> QED
    BY <1>1, <2>1
<1>5. /\ st'[p] = "wait" /\ st'[k] = "forked" /\ \A q \in Procs : q \notin {p, k} => st'[q] = st[q]
      /\ child'[p] = k /\ \A q \in Procs : q # p => child'[q] = child[q]
  BY <1>3 DEF Inv, TypeOK, Set
<1>6. ASSUME NEW q \in Procs, st'[q] = "wait"
      PROVE  child'[q] = q + 1 /\ q + 1 \in Procs /\ st'[q + 1] # "none"
  <2>1. CASE q = p
    BY <1>4, <1>5, <2>1
  <2>2. CASE q # p
    <3>1. st[q] = "wait" /\ q # k
      BY <1>5, <1>6, <2>2
    <3>2. child[q] = q + 1 /\ q + 1 \in Procs /\ st[q + 1] # "none"
      BY <3>1 DEF Chain
    <3>3. st'[q + 1] # "none"
      BY <1>5, <3>2
    <3> QED
      BY <1>5, <2>2, <3>2, <3>3
  <2> QED
    BY <2>1, <2>2
<1>7. ASSUME NEW q \in Procs, st'[q] # "none", NEW r \in Procs, r < q PROVE st'[r] = "wait"
  <2>1. q <= k
    BY <1>1, <1>2, <1>3, <1>4, <1>5, <1>7
  <2>2. r <= p
    BY <1>2, <1>4, <1>7, <2>1
  <2>3. CASE r = p
    BY <1>5, <2>3
  <2>4. CASE r < p
    BY <1>1, <1>2, <1>3, <1>5, <2>4
  <2> QED
    BY <1>2, <2>2, <2>3, <2>4
<1> QED
  BY <1>4, <1>6, <1>7 DEF Chain

\* waitpid takes the child off the stack, and its parent is on top again.
LEMMA ChainWaits ==
    ASSUME Inv, Chain, NEW p \in Procs, st[p] = "wait", st[child[p]] = "dead",
           st' = [st EXCEPT ![p] = "loop", ![child[p]] = "none"], child' = child
    PROVE  child[p] = p + 1 /\ p + 1 \in Procs /\ Chain'
<1>1. child[p] = p + 1 /\ p + 1 \in Procs
  BY DEF Chain
<1>2. Procs \subseteq Int
  BY DEF Procs
<1>3. /\ \A q \in Procs : q > p + 1 => st[q] = "none"
      /\ \A q \in Procs : q < p => st[q] = "wait"
  <2>1. \A q \in Procs : q > p + 1 => st[q] = "none"
    BY <1>1, OnTop
  <2>2. \A q \in Procs : q < p + 1 => st[q] = "wait"
    BY <1>1, OnTop
  <2>3. \A q \in Procs : q < p => q < p + 1
    BY <1>2
  <2> QED
    BY <2>1, <2>2, <2>3
<1>4. /\ st'[p] = "loop" /\ st'[p + 1] = "none"
      /\ \A q \in Procs : q \notin {p, p + 1} => st'[q] = st[q]
  <2>1. p # p + 1
    BY <1>2
  <2> QED
    BY <1>1, <2>1 DEF Inv, TypeOK
<1>5. ASSUME NEW q \in Procs, st'[q] # "none", NEW r \in Procs, r < q PROVE st'[r] = "wait"
  <2>1. q <= p
    BY <1>2, <1>3, <1>4, <1>5
  <2>2. r < p /\ r # p /\ r # p + 1
    BY <1>2, <1>5, <2>1
  <2> QED
    BY <1>3, <1>4, <2>2
<1>6. ASSUME NEW q \in Procs, st'[q] = "wait"
      PROVE  child'[q] = q + 1 /\ q + 1 \in Procs /\ st'[q + 1] # "none"
  <2>1. st[q] = "wait" /\ q # p /\ q # p + 1
    BY <1>4, <1>6
  <2>2. child[q] = q + 1 /\ q + 1 \in Procs /\ st[q + 1] # "none"
    BY <2>1 DEF Chain
  <2>3. q + 1 # p + 1
    BY <1>2, <2>1
  <2>4. st'[q + 1] # "none"
    BY <1>4, <2>2, <2>3
  <2> QED
    BY <2>2, <2>4
<1> QED
  BY <1>1, <1>5, <1>6 DEF Chain

-----------------------------------------------------------------------------
(* A connection that a step is not about.                                  *)

\* The server has a child that serves c.
ServedBy(c, p) == p = Main + 1 /\ st[Main] = "wait" /\ serving[Main] = c

\* Of what a client and fork() did, nothing is taken back.
Grows == /\ program' = program /\ gone \subseteq gone' /\ reset \subseteq reset'
         /\ refused \subseteq refused' /\ raced \subseteq raced' /\ crowded \subseteq crowded'

\* A session that has ended as it should remains so while nothing is received.
LEMMA FinishedKept ==
    ASSUME NEW c \in Clients, Grows, got'[c] = got[c], Finished(c)
    PROVE  Finished(c)'
BY DEF Grows, Finished

\* The clients whose callbacks the child of c may find are more and more.
LEMMA AroundKept ==
    ASSUME Grows, NEW c, NEW q
    PROVE  /\ OnlyOthers(q, Around(c)) => OnlyOthers(q, Around(c)')
           /\ OneWrite(q, c, Around(c)) => OneWrite(q, c, Around(c)')
<1>1. Around(c) \subseteq Around(c)'
  BY DEF Grows, Around
<1> QED
  BY <1>1, MoreOthers

\* A client whose server waits for the child that serves it.
LEMMA ServedInChild ==
    ASSUME Inv, Opened, NEW c \in Clients, Life(c), st[Main] = "wait", serving[Main] = c
    PROVE  /\ conn[c] = "accepted" /\ sess[Main][c] = "request"
           /\ NoOps(queue[Main], c) /\ InChild(c, Main + 1)
<1>1. Main \in Procs
  BY OpTypes
<1>2. conn[c] = "accepted"
  BY <1>1 DEF Opened
<1>3. AtServer(c)
  BY <1>2 DEF Life
<1>4. sess[Main][c] \in {"closed", "accepted", "reading", "request"}
  BY <1>1 DEF Inv, TypeOK
<1>5. sess[Main][c] = "request"
  BY <1>3, <1>4 DEF AtServer
<1> QED
  BY <1>2, <1>3, <1>5 DEF AtServer

\* A step of processes S that leaves the server alone: the child that serves c
\* does so afterwards, and the others know as little of c as before.
LEMMA LifeApart ==
    ASSUME Inv, Chain, Opened, NEW c \in Clients, Life(c),
           NEW S, S \subseteq Procs \ {Main}, Grows, conn'[c] = conn[c],
           \A q \in Procs \ S : /\ st'[q] = st[q] /\ serving'[q] = serving[q]
                                /\ queue'[q] = queue[q] /\ sess'[q][c] = sess[q][c],
           \A q \in S : ServedBy(c, q) => InChild(c, q)',
           \A q \in S : ~ServedBy(c, q) => /\ OnlyReads(queue'[q], c)
                                           /\ st'[q] \in {"forked", "program"} => serving'[q] # c,
           \/ got'[c] = got[c]
           \/ \E q \in S : ServedBy(c, q) /\ got'[c] \in {<< >>, <<Status>>, Answer(c)}
    PROVE  Life(c)'
<1>1. /\ Main \in Procs /\ Main \notin S /\ st'[Main] = st[Main] /\ serving'[Main] = serving[Main]
      /\ queue'[Main] = queue[Main] /\ sess'[Main][c] = sess[Main][c]
  BY OpTypes
<1>2. got'[c] \in {<< >>, <<Status>>, Answer(c)}
  BY DEF Life
<1>3. Elsewhere(c)'
  <2> SUFFICES ASSUME NEW p \in Procs \ {Main}, ~ServedBy(c, p)
               PROVE  OnlyReads(queue'[p], c) /\ (st'[p] \in {"forked", "program"} => serving'[p] # c)
    BY <1>1 DEF Elsewhere, ServedBy
  <2>1. CASE p \in S
    BY <2>1
  <2>2. CASE p \notin S
    BY <2>2 DEF Life, Elsewhere, ServedBy
  <2> QED
    BY <2>1, <2>2
<1>4. ASSUME conn'[c] = "accepted", st'[Main] # "dead" PROVE AtServer(c)'
  <2>1. AtServer(c)
    BY <1>1, <1>4 DEF Life
  <2>2. CASE st[Main] = "wait" /\ serving[Main] = c
    <3>1. Main + 1 \in Procs
      BY <1>1, <2>2 DEF Chain
    <3>2. /\ sess[Main][c] = "request" /\ NoOps(queue[Main], c) /\ InChild(c, Main + 1)
      BY <2>2, ServedInChild
    <3>3. ServedBy(c, Main + 1)
      BY <2>2 DEF ServedBy
    <3>4. InChild(c, Main + 1)'
      <4>1. CASE Main + 1 \in S
        BY <3>3, <4>1
      <4>2. CASE Main + 1 \notin S
        <5> DEFINE k == Main + 1
        <5>1. /\ st'[k] = st[k] /\ serving'[k] = serving[k] /\ queue'[k] = queue[k]
              /\ sess'[k][c] = sess[k][c]
          BY <3>1, <4>2
        <5>2. got'[c] = got[c]
          BY <4>2 DEF ServedBy
        <5>3. Finished(c) => Finished(c)'
          BY <5>2, FinishedKept
        <5>4. c \in reset => c \in reset'
          BY DEF Grows
        <5> HIDE DEF k
        <5>5. InChild(c, k) => InChild(c, k)'
          BY <5>1, <5>2, <5>3, <5>4, AroundKept DEF InChild
        <5> QED
          BY <3>2, <5>5 DEF k
      <4> QED
        BY <4>1, <4>2
    <3> QED
      BY <1>1, <2>2, <3>2, <3>4 DEF AtServer
  <2>3. CASE ~(st[Main] = "wait" /\ serving[Main] = c)
    <3>1. got'[c] = got[c]
      BY <2>3 DEF ServedBy
    <3>2. (Finished(c) => Finished(c)') /\ gone \subseteq gone' /\ reset \subseteq reset'
      BY <3>1, FinishedKept DEF Grows
    <3> QED
      BY <1>1, <2>1, <2>3, <3>1, <3>2 DEF AtServer
  <2> QED
    BY <2>2, <2>3
<1> QED
  BY <1>2, <1>3, <1>4 DEF Life

\* A step of the server in its event loop, by what it does about c.
LEMMA LifeAtServer ==
    ASSUME Inv, NEW c \in Clients, Life(c), st[Main] = "loop", Grows,
           got'[c] = got[c],
           \A q \in Procs \ {Main} : /\ st'[q] = st[q] /\ serving'[q] = serving[q]
                                     /\ queue'[q] = queue[q],
           st'[Main] # "wait",
           conn'[c] = "accepted" /\ st'[Main] # "dead" => AtServer(c)'
    PROVE  Life(c)'
<1>1. Elsewhere(c)'
  <2> SUFFICES ASSUME NEW p \in Procs \ {Main}
               PROVE  OnlyReads(queue'[p], c) /\ (st'[p] \in {"forked", "program"} => serving'[p] # c)
    BY DEF Elsewhere
  <2> QED
    BY DEF Life, Elsewhere
<1> QED
  BY <1>1 DEF Life

\* A process takes a turn of its event loop that is not about c.
LEMMA LoopKeeps ==
    ASSUME Inv, Chain, Opened, NEW c \in Clients, Life(c), NEW p \in Procs, st[p] = "loop",
           UNCHANGED procs, Grows, conn'[c] = conn[c], got'[c] = got[c],
           \A q \in Procs \ {p} : queue'[q] = queue[q] /\ sess'[q][c] = sess[q][c],
           Keeps(queue[p], queue'[p], c),
           sess'[p][c] = sess[p][c] \/ (p # Main /\ sess'[p][c] # "reading")
    PROVE  Life(c)'
<1>1. st' = st /\ serving' = serving
  BY DEF procs
<1>2. (Finished(c) => Finished(c)') /\ gone \subseteq gone' /\ reset \subseteq reset'
  BY FinishedKept DEF Grows
<1>3. /\ NoOps(queue[p], c) => NoOps(queue'[p], c)
      /\ OnlyReads(queue[p], c) => OnlyReads(queue'[p], c)
      /\ NoWrites(queue[p]) => NoWrites(queue'[p])
      /\ \A kind \in {"accepted", "read", "done", "closed", "error"} :
           OneOp(queue[p], c, kind) => OneOp(queue'[p], c, kind)
      /\ OneWrite(queue[p], c, Around(c)) => OneWrite(queue'[p], c, Around(c)')
  BY AroundKept DEF Keeps, Calls
<1>4. CASE p = Main
  <2>1. ASSUME conn'[c] = "accepted" PROVE AtServer(c)'
    <3>1. AtServer(c)
      BY <1>4, <2>1 DEF Life
    <3> QED
      BY <1>1, <1>2, <1>3, <1>4, <3>1 DEF AtServer
  <2> QED
    BY <1>1, <1>4, <2>1, LifeAtServer
<1>5. CASE p # Main
  <2>1. ServedBy(c, p) => InChild(c, p)'
    <3> SUFFICES ASSUME ServedBy(c, p) PROVE InChild(c, p)'
      OBVIOUS
    <3>1. InChild(c, p)
      BY ServedInChild DEF ServedBy
    <3> QED
      BY <1>1, <1>2, <1>3, <3>1 DEF InChild
  <2>2. ~ServedBy(c, p) => /\ OnlyReads(queue'[p], c)
                           /\ st'[p] \in {"forked", "program"} => serving'[p] # c
    BY <1>1, <1>3, <1>5 DEF Life, Elsewhere, ServedBy
  <2> DEFINE S == {p}
  <2>3. /\ S \subseteq Procs \ {Main}
        /\ \A q \in Procs \ S : /\ st'[q] = st[q] /\ serving'[q] = serving[q]
                                /\ queue'[q] = queue[q] /\ sess'[q][c] = sess[q][c]
        /\ \A q \in S : ServedBy(c, q) => InChild(c, q)'
        /\ \A q \in S : ~ServedBy(c, q) => /\ OnlyReads(queue'[q], c)
                                           /\ st'[q] \in {"forked", "program"} => serving'[q] # c
    BY <1>1, <1>5, <2>1, <2>2
  <2> HIDE DEF S
  <2> QED
    BY <2>3, LifeApart, Zenon
<1> QED
  BY <1>4, <1>5

\* A process ends.
LEMMA LifeEnds ==
    ASSUME Inv, Chain, Opened, NEW c \in Clients, Life(c), NEW p \in Procs,
           st[p] \in {"forked", "loop", "program"}, Dies(p), UNCHANGED serving, Grows, conn'[c] = conn[c],
           ServedBy(c, p) => Finished(c)' /\ got'[c] \in {<< >>, <<Status>>, Answer(c)},
           ~ServedBy(c, p) => got'[c] = got[c]
    PROVE  Life(c)'
<1>1. /\ st'[p] = "dead" /\ queue'[p] = << >> /\ sess'[p][c] = "closed"
      /\ \A q \in Procs : q # p => /\ st'[q] = st[q] /\ queue'[q] = queue[q]
                                   /\ sess'[q] = sess[q]
  BY DEF Dies, Set, NoSessions, Inv, TypeOK
<1>2. CASE p = Main
  <2>1. st[Main] # "wait" /\ ~ServedBy(c, p)
    BY <1>2 DEF ServedBy
  <2>2. st[Main] = "loop"
    BY <1>2 DEF Inv, MainServes
  <2> QED
    BY <1>1, <1>2, <2>1, <2>2, LifeAtServer
<1>3. CASE p # Main
  <2>1. ServedBy(c, p) => InChild(c, p)'
    BY <1>1 DEF InChild
  <2>2. OnlyReads(queue'[p], c)
    BY <1>1, NotAbout
  <2> DEFINE S == {p}
  <2>3. /\ S \subseteq Procs \ {Main}
        /\ \A q \in Procs \ S : /\ st'[q] = st[q] /\ serving'[q] = serving[q]
                                /\ queue'[q] = queue[q] /\ sess'[q][c] = sess[q][c]
        /\ \A q \in S : ServedBy(c, q) => InChild(c, q)'
        /\ \A q \in S : ~ServedBy(c, q) => /\ OnlyReads(queue'[q], c)
                                           /\ st'[q] \in {"forked", "program"} => serving'[q] # c
        /\ \/ got'[c] = got[c]
           \/ \E q \in S : ServedBy(c, q) /\ got'[c] \in {<< >>, <<Status>>, Answer(c)}
    BY <1>1, <1>3, <2>1, <2>2
  <2> HIDE DEF S
  <2> QED
    BY <2>3, LifeApart, Zenon
<1> QED
  BY <1>2, <1>3

-----------------------------------------------------------------------------
(* Whose turn it is.                                                       *)

\* The callback at the head is about an accepted connection, and not about others.
LEMMA HeadAbout ==
    ASSUME Inv, Opened, NEW p \in Procs, NEW kind \in Calls, Turn(p, kind)
    PROVE  LET c == Head(queue[p])[2]
           IN  /\ st[p] = "loop" /\ queue[p] \in Seq(Ops) /\ queue[p] # << >>
               /\ Rest(p) \in Seq(Ops)
               /\ c \in Clients /\ Head(queue[p]) = <<kind, c>> /\ conn[c] = "accepted"
               /\ \A d \in Clients \ {c} : Keeps(queue[p], Rest(p), d)
<1> DEFINE c == Head(queue[p])[2]
<1>1. /\ st[p] = "loop" /\ queue[p] \in Seq(Ops) /\ queue[p] # << >> /\ Rest(p) \in Seq(Ops)
      /\ c \in Clients /\ Head(queue[p]) = <<kind, c>>
  <2>1. queue[p] \in Seq(Ops) /\ HasPoll(queue[p])
    BY DEF Inv, TypeOK, Polls, Turn
  <2>2. queue[p] # << >>
    BY <2>1, QueueTail
  <2> QED
    BY <2>1, <2>2, TurnTaken DEF Calls
<1> HIDE DEF c
<1>2. ~NoOps(queue[p], c)
  BY <1>1, HeadTaken
<1>3. conn[c] = "accepted"
  BY <1>1, <1>2 DEF Opened
<1>4. ASSUME NEW d \in Clients \ {c} PROVE Keeps(queue[p], Rest(p), d)
  <2>1. Head(queue[p]) \notin About(d)
    BY <1>1, <1>4, NotAbout
  <2> QED
    BY <1>1, <2>1, TailKeeps DEF Rest
<1> QED
  BY <1>1, <1>3, <1>4 DEF c

\* The turn of epoll and of accept are about no connection.
LEMMA HeadFree ==
    ASSUME Inv, NEW p \in Procs, NEW kind \in {"poll", "accept"}, Turn(p, kind)
    PROVE  /\ st[p] = "loop" /\ queue[p] \in Seq(Ops) /\ Rest(p) \in Seq(Ops)
           /\ \A d \in Clients : Keeps(queue[p], Rest(p), d)
<1>1. st[p] = "loop" /\ queue[p] \in Seq(Ops) /\ queue[p] # << >> /\ Rest(p) \in Seq(Ops)
  <2>1. st[p] = "loop" /\ queue[p] \in Seq(Ops) /\ HasPoll(queue[p])
    BY DEF Inv, TypeOK, Polls, Turn
  <2> QED
    BY <2>1, QueueTail DEF Rest
<1>2. ASSUME NEW d \in Clients PROVE Keeps(queue[p], Rest(p), d)
  <2>1. Head(queue[p])[1] = kind
    BY DEF Turn
  <2>2. Head(queue[p]) \notin About(d)
    BY <2>1 DEF About, Calls
  <2> QED
    BY <1>1, <2>2, TailKeeps DEF Rest
<1> QED
  BY <1>1, <1>2

\* What the server has in its queue about c is the only one, and tells how far c is.
LEMMA ServerHead ==
    ASSUME Inv, Opened, NEW kind \in Calls, Turn(Main, kind),
           NEW c \in Clients, c = Head(queue[Main])[2], Life(c)
    PROVE  /\ NoOps(Rest(Main), c) /\ got[c] = << >>
           /\ kind \in {"accepted", "read", "done", "closed"}
           /\ kind = "closed" => c \in gone \cup reset
           /\ kind = "read" => sess[Main][c] = "reading"
<1>0. Main \in Procs
  BY OpTypes
<1>1. /\ st[Main] = "loop" /\ queue[Main] \in Seq(Ops) /\ queue[Main] # << >>
      /\ Head(queue[Main]) = <<kind, c>> /\ conn[c] = "accepted"
  BY <1>0, HeadAbout
<1>2. /\ \A k \in Calls : OneOp(queue[Main], c, k) => k = kind /\ NoOps(Tail(queue[Main]), c)
      /\ ~NoOps(queue[Main], c)
  BY <1>1, HeadTaken
<1>3. AtServer(c) /\ sess[Main][c] \in {"closed", "accepted", "reading", "request"}
  BY <1>0, <1>1 DEF Life, Inv, TypeOK
<1>4. \A k \in {"accepted", "read", "done", "closed"} :
        OneOp(queue[Main], c, k) => k = kind /\ NoOps(Tail(queue[Main]), c)
  BY <1>2 DEF Calls
<1> QED
  BY <1>1, <1>2, <1>3, <1>4 DEF AtServer, Rest

\* What another process has in its queue about c.
LEMMA OtherHead ==
    ASSUME Inv, Opened, NEW p \in Procs \ {Main}, NEW kind \in Calls, Turn(p, kind),
           NEW c \in Clients, c = Head(queue[p])[2], Life(c)
    PROVE  /\ ServedBy(c, p) => \/ kind = "write" /\ got[c] = <<Status>>
                                \/ /\ kind = "error" /\ c \in reset /\ got[c] = << >>
                                   /\ NoOps(Rest(p), c)
           /\ ~ServedBy(c, p) => kind = "read" /\ OnlyReads(Rest(p), c)
<1>1. /\ st[p] = "loop" /\ queue[p] \in Seq(Ops) /\ queue[p] # << >>
      /\ Head(queue[p]) = <<kind, c>> /\ conn[c] = "accepted"
  BY HeadAbout
<1>2. /\ \A k \in Calls : OneOp(queue[p], c, k) => k = kind /\ NoOps(Tail(queue[p]), c)
      /\ ~NoOps(queue[p], c)
      /\ OnlyReads(queue[p], c) => kind = "read" /\ OnlyReads(Tail(queue[p]), c)
      /\ \A D : OneWrite(queue[p], c, D) => kind = "write"
  BY <1>1, HeadTaken
<1>3. OneOp(queue[p], c, "error") => kind = "error" /\ NoOps(Rest(p), c)
  BY <1>2 DEF Calls, Rest
<1>4. ASSUME ServedBy(c, p)
      PROVE  \/ kind = "write" /\ got[c] = <<Status>>
             \/ kind = "error" /\ c \in reset /\ got[c] = << >> /\ NoOps(Rest(p), c)
  <2>1. InChild(c, p)
    BY <1>4, ServedInChild DEF ServedBy
  <2> QED
    BY <1>1, <1>2, <1>3, <2>1 DEF InChild
<1>5. ~ServedBy(c, p) => kind = "read" /\ OnlyReads(Rest(p), c)
  BY <1>2 DEF Life, Elsewhere, ServedBy, Rest
<1> QED
  BY <1>4, <1>5

\* A child that serves d and takes another turn than that of its reply: d has
\* reset its connection, or the turn is that of a client it found in its queue.
LEMMA ServedTurn ==
    ASSUME Inv, Opened, NEW p \in Procs \ {Main}, NEW kind \in Calls, Turn(p, kind),
           NEW d \in Clients, d # Head(queue[p])[2], Life(d), ServedBy(d, p)
    PROVE  /\ kind # "write"
           /\ \/ /\ d \in reset /\ got[d] = << >> /\ NoWrites(queue[p])
                 /\ NoOps(queue[p], d) \/ OneOp(queue[p], d, "error")
              \/ /\ OneWrite(queue[p], d, Around(d)) /\ d \in crowded
                 /\ Head(queue[p])[2] \in raced
<1> DEFINE c == Head(queue[p])[2]
<1>1. /\ st[p] = "loop" /\ queue[p] \in Seq(Ops) /\ queue[p] # << >>
      /\ Head(queue[p]) = <<kind, c>>
  BY HeadAbout
<1>2. OneWrite(queue[p], d, Around(d)) => kind # "write" /\ c \in Around(d)
  BY <1>1, HeadTaken
<1>3. c \in Around(d) => d \in crowded /\ c \in raced
  BY DEF Around
<1>4. InChild(d, p)
  BY ServedInChild DEF ServedBy
<1>5. CASE OneWrite(queue[p], d, Around(d))
  BY <1>2, <1>3, <1>5
<1>6. CASE ~OneWrite(queue[p], d, Around(d))
  <2>1. /\ d \in reset /\ got[d] = << >> /\ NoWrites(queue[p])
        /\ NoOps(queue[p], d) \/ OneOp(queue[p], d, "error")
    BY <1>1, <1>4, <1>6 DEF InChild
  <2>2. 1 \in 1 .. Len(queue[p]) /\ queue[p][1] = <<kind, c>>
    BY <1>1
  <2>3. kind # "write"
    BY <2>1, <2>2 DEF NoWrites
  <2> QED
    BY <2>1, <2>3
<1> QED
  BY <1>5, <1>6

-----------------------------------------------------------------------------
(* The second invariant is inductive: one lemma for each action.           *)

\* What a step of the event loop of p leaves alone, when only its queue and its
\* session of c may change.
LEMMA QuietStep ==
    ASSUME Inv, AnswerInv, NEW p \in Procs, UNCHANGED <<procs, backlog, conn, got>>,
           \A d \in Clients, q \in Procs \ {p} : queue'[q] = queue[q] /\ sess'[q][d] = sess[q][d],
           \A d \in Clients : conn[d] # "accepted" => sess'[p][d] = "closed" /\ NoOps(queue'[p], d)
    PROVE  Chain' /\ Opened' /\ Waiting'
<1>1. /\ st' = st /\ serving' = serving /\ child' = child /\ backlog' = backlog
      /\ conn' = conn /\ got' = got
  BY DEF procs
<1>2. Chain'
  BY <1>1 DEF AnswerInv, Chain
<1>3. Waiting'
  BY <1>1 DEF AnswerInv, Waiting
<1>4. ASSUME NEW d \in Clients, conn'[d] # "accepted", NEW q \in Procs
      PROVE  /\ sess'[q][d] = "closed" /\ NoOps(queue'[q], d)
             /\ st'[q] \in {"forked", "wait", "program"} => serving'[q] # d
  BY <1>1, <1>4 DEF AnswerInv, Opened
<1>5. Opened'
  BY <1>1, <1>4 DEF AnswerInv, Opened
<1> QED
  BY <1>2, <1>3, <1>5

\* The server's queue, without replies, has no write.
LEMMA NoReplyNoWrites ==
    ASSUME NEW q, NoReply(q)
    PROVE  NoWrites(q)
BY DEF NoReply, NoWrites

\* The turn of epoll.
LEMMA PollLife ==
    ASSUME Inv, AnswerInv, NEW p \in Procs, RunPoll(p)
    PROVE  AnswerInv'
<1>1. /\ Turn(p, "poll") /\ UNCHANGED <<procs, backlog, conn, got, raced>> /\ sess' = sess /\ Grows
  BY DEF RunPoll, client, history, Grows
<1>2. PICK ops \in SetToSeqs(Ready(p) \ Range(Rest(p))) :
        queue' = Set(queue, p, (Rest(p) \o ops) \o <<Poll>>)
  BY DEF RunPoll
<1> DEFINE q == (Rest(p) \o ops) \o <<Poll>>
<1>3. /\ st[p] = "loop" /\ queue[p] \in Seq(Ops) /\ Rest(p) \in Seq(Ops)
      /\ \A d \in Clients : Keeps(queue[p], Rest(p), d)
  BY <1>1, HeadFree
<1>4. ops \in Seq(Ops) /\ NoWrites(ops) /\ <<Poll>> \in Seq(Ops) /\ NoWrites(<<Poll>>)
  <2>1. NoReply(<<Poll>>) /\ <<Poll>> \in Seq(Ops)
    BY OpTypes DEF NoReply
  <2> QED
    BY <2>1, ReadyOps, NoReplyNoWrites
<1>5. Rest(p) \o ops \in Seq(Ops) /\ \A d \in Clients : NoOps(<<Poll>>, d)
  BY <1>3, <1>4, ConcatElements, NotAbout
<1>6. ASSUME NEW d \in Clients, NoOps(ops, d) PROVE Keeps(queue[p], q, d)
  BY <1>3, <1>4, <1>5, <1>6, ConcatKeepsTwice
<1>7. queue'[p] = q /\ \A r \in Procs \ {p} : queue'[r] = queue[r]
  BY <1>2 DEF Set, Inv, TypeOK
<1> HIDE DEF q
<1>8. ASSUME NEW d \in Clients, conn[d] # "accepted" PROVE sess'[p][d] = "closed" /\ NoOps(queue'[p], d)
  <2>1. sess[p][d] = "closed" /\ NoOps(queue[p], d)
    BY <1>8 DEF AnswerInv, Opened
  <2>2. NoOps(ops, d)
    BY <2>1, ReadyAbout
  <2> QED
    BY <1>1, <1>6, <1>7, <2>1, <2>2 DEF Keeps
<1>9. Chain' /\ Opened' /\ Waiting'
  BY <1>1, <1>7, <1>8, QuietStep
<1>10. ASSUME NEW d \in Clients \ raced' PROVE Life(d)'
  <2>0. Chain /\ Opened /\ Life(d) /\ conn'[d] = conn[d] /\ got'[d] = got[d]
    BY <1>1 DEF AnswerInv
  <2>1. CASE NoOps(ops, d)
    BY <1>1, <1>3, <1>6, <1>7, <2>0, <2>1, LoopKeeps
  <2>2. CASE ~NoOps(ops, d)
    <3>1. OneOp(ops, d, "read") /\ sess[p][d] = "reading" /\ ~OneOp(Rest(p), d, "read") /\ OnlyReads(ops, d)
      BY <2>2, ReadyAbout
    <3>2. /\ OneOp(queue[p], d, "read") => OneOp(Rest(p), d, "read")
          /\ NoOps(queue[p], d) => NoOps(Rest(p), d)
          /\ OnlyReads(queue[p], d) => OnlyReads(Rest(p), d)
      BY <1>3 DEF Keeps, Calls
    <3>3. Keeps(Rest(p) \o ops, q, d)
      BY <1>4, <1>5, ConcatKeeps DEF q
    <3>4. CASE p = Main
      <4>1. conn[d] = "accepted" /\ st[Main] = "loop"
        BY <1>3, <3>1, <3>4 DEF AnswerInv, Opened
      <4>2. AtServer(d)
        BY <2>0, <4>1 DEF Life
      <4>3. NoOps(queue[Main], d) /\ got[d] = << >>
        BY <3>1, <3>2, <3>4, <4>2 DEF AtServer
      <4>4. OneOp(Rest(p) \o ops, d, "read")
        BY <1>3, <1>4, <3>1, <3>2, <3>4, <4>3, ConcatAdds
      <4>5. OneOp(q, d, "read")
        BY <3>3, <4>4 DEF Keeps, Calls
      <4>6. /\ sess'[Main][d] = "reading" /\ OneOp(queue'[Main], d, "read")
            /\ st'[Main] = "loop" /\ got'[d] = << >>
        BY <1>1, <1>7, <2>0, <3>1, <3>4, <4>1, <4>3, <4>5 DEF procs
      <4>7. AtServer(d)'
        BY <4>6 DEF AtServer
      <4> QED
        BY <1>1, <1>7, <2>0, <3>4, <4>1, <4>6, <4>7, LifeAtServer DEF procs
    <3>5. CASE p # Main
      <4>1. ~ServedBy(d, p)
        <5> SUFFICES ASSUME ServedBy(d, p) PROVE FALSE
          OBVIOUS
        <5>1. InChild(d, p)
          BY <2>0, ServedInChild DEF ServedBy
        <5> QED
          BY <3>1, <5>1 DEF InChild
      <4>2. OnlyReads(queue[p], d)
        BY <2>0, <3>5, <4>1 DEF Life, Elsewhere, ServedBy
      <4>3. OnlyReads(queue'[p], d)
        BY <1>3, <1>4, <1>7, <3>1, <3>2, <3>3, <4>2, ConcatReads DEF Keeps
      <4> DEFINE S == {p}
      <4>4. /\ S \subseteq Procs \ {Main}
            /\ \A r \in Procs \ S : /\ st'[r] = st[r] /\ serving'[r] = serving[r]
                                    /\ queue'[r] = queue[r] /\ sess'[r][d] = sess[r][d]
            /\ \A r \in S : ServedBy(d, r) => InChild(d, r)'
            /\ \A r \in S : ~ServedBy(d, r) => /\ OnlyReads(queue'[r], d)
                                               /\ st'[r] \in {"forked", "program"} => serving'[r] # d
        BY <1>1, <1>3, <1>7, <3>5, <4>1, <4>3 DEF procs
      <4> HIDE DEF S
      <4> QED
        BY <1>1, <2>0, <4>4, LifeApart, Zenon
    <3> QED
      BY <3>4, <3>5
  <2> QED
    BY <2>1, <2>2
<1> QED
  BY <1>9, <1>10 DEF AnswerInv

\* The callback of async_accept: c and the next connection are the server's now,
\* or are raced.
LEMMA AcceptLife ==
    ASSUME Inv, AnswerInv, NEW p \in Procs, NEW c \in Clients, NEW waiting \in Seq(Clients),
           st[p] = "loop", Rest(p) \in Seq(Ops),
           \A d \in Clients \ {c} : Keeps(queue[p], Rest(p), d),
           \A i \in 1 .. Len(waiting) : conn[waiting[i]] = "waiting" /\ waiting[i] # c,
           \A i, j \in 1 .. Len(waiting) : waiting[i] = waiting[j] => i = j,
           p = Main /\ c \notin raced => NoOps(Rest(p), c) /\ got[c] = << >>,
           StartSession(p, c, waiting)
    PROVE  AnswerInv'
<1> DEFINE next == IF waiting = << >> THEN {} ELSE {Head(waiting)}
           read == IF c \in inq THEN << <<"done", c>> >>
                   ELSE IF c \in gone \cup reset THEN << <<"closed", c>> >> ELSE << >>
           accepted == IF waiting = << >> THEN << >> ELSE << <<"accepted", Head(waiting)>> >>
           row == [d \in Clients |-> IF d = c
                       THEN IF read = << >> THEN "reading" ELSE "request"
                       ELSE IF d \in next THEN "accepted" ELSE sess[p][d]]
           q == (Rest(p) \o read) \o accepted
<1>1. /\ sess' = [sess EXCEPT ![p] = row]
      /\ conn' = [d \in Clients |-> IF d \in next \cup {c} THEN "accepted" ELSE conn[d]]
      /\ backlog' = IF waiting = << >> THEN << >> ELSE Tail(waiting)
      /\ queue' = Set(queue, p, q)
      /\ raced' = Takes(p, next \cup {c})
      /\ UNCHANGED <<procs, client, got, crowded, refused>>
  BY DEF StartSession
<1>2. st' = st /\ serving' = serving /\ child' = child /\ got' = got /\ Grows /\ raced \subseteq raced'
      /\ UNCHANGED procs
  BY <1>1 DEF procs, client, Grows, Takes
<1>3. next \subseteq Clients /\ c \notin next /\ \A d \in next : conn[d] = "waiting"
  <2> SUFFICES ASSUME waiting # << >>
               PROVE  Head(waiting) \in Clients /\ Head(waiting) # c /\ conn[Head(waiting)] = "waiting"
    OBVIOUS
  <2>1. 1 \in 1 .. Len(waiting) /\ Head(waiting) = waiting[1] /\ Head(waiting) \in Clients
    OBVIOUS
  <2> QED
    BY <2>1
<1>4. /\ read \in Seq(Ops) /\ NoWrites(read) /\ \A d \in Clients \ {c} : NoOps(read, d)
      /\ \/ read = << >> /\ NoOps(read, c)
         \/ read # << >> /\ OneOp(read, c, "done")
         \/ read # << >> /\ OneOp(read, c, "closed") /\ c \in gone \cup reset
  <2>1. ASSUME NEW k \in {"done", "closed"}
        PROVE  /\ << <<k, c>> >> \in Seq(Ops) /\ NoWrites(<< <<k, c>> >>) /\ << <<k, c>> >> # << >>
               /\ OneOp(<< <<k, c>> >>, c, k) /\ \A d \in Clients \ {c} : NoOps(<< <<k, c>> >>, d)
    <3>1. <<k, c>> \in Ops
      BY OpTypes DEF Calls
    <3> QED
      BY <3>1, NotAbout DEF NoWrites
  <2>2. << >> \in Seq(Ops) /\ NoWrites(<< >>) /\ \A d \in Clients : NoOps(<< >>, d)
    BY NotAbout DEF NoWrites
  <2>3. CASE c \in inq
    BY <2>1, <2>3
  <2>4. CASE c \notin inq /\ c \in gone \cup reset
    BY <2>1, <2>4
  <2>5. CASE c \notin inq /\ c \notin gone \cup reset
    BY <2>2, <2>5
  <2> QED
    BY <2>3, <2>4, <2>5
<1>5. /\ accepted \in Seq(Ops) /\ NoWrites(accepted)
      /\ \A d \in Clients \ next : NoOps(accepted, d)
      /\ \A d \in next : OneOp(accepted, d, "accepted")
  <2>1. ASSUME waiting # << >>
        PROVE  LET h == Head(waiting)
               IN  /\ << <<"accepted", h>> >> \in Seq(Ops) /\ NoWrites(<< <<"accepted", h>> >>)
                   /\ OneOp(<< <<"accepted", h>> >>, h, "accepted")
                   /\ \A d \in Clients \ {h} : NoOps(<< <<"accepted", h>> >>, d)
    <3> DEFINE h == Head(waiting)
    <3>1. h \in Clients
      BY <2>1
    <3> HIDE DEF h
    <3>2. <<"accepted", h>> \in Ops
      BY <3>1, OpTypes DEF Calls
    <3>3. << <<"accepted", h>> >> \in Seq(Ops) /\ NoWrites(<< <<"accepted", h>> >>)
      BY <3>2 DEF NoWrites
    <3>4. /\ OneOp(<< <<"accepted", h>> >>, h, "accepted")
          /\ \A d \in Clients \ {h} : NoOps(<< <<"accepted", h>> >>, d)
      BY <3>1, NotAbout
    <3> QED
      BY <3>3, <3>4 DEF h
  <2>2. << >> \in Seq(Ops) /\ NoWrites(<< >>) /\ \A d \in Clients : NoOps(<< >>, d)
    BY NotAbout DEF NoWrites
  <2>3. CASE waiting = << >>
    BY <2>2, <2>3
  <2>4. CASE waiting # << >>
    BY <2>1, <2>4
  <2> QED
    BY <2>3, <2>4
<1>6. /\ \A d \in Clients : sess'[p][d] = row[d]
      /\ \A r \in Procs \ {p} : sess'[r] = sess[r]
  BY <1>1 DEF Inv, TypeOK
<1>7. queue'[p] = q /\ \A r \in Procs \ {p} : queue'[r] = queue[r]
  BY <1>1 DEF Set, Inv, TypeOK
<1>8. \A d \in Clients : d \notin next \cup {c} => row[d] = sess[p][d] /\ conn'[d] = conn[d]
  BY <1>1
<1>9. /\ row[c] = (IF read = << >> THEN "reading" ELSE "request") /\ conn'[c] = "accepted"
      /\ \A d \in next : row[d] = "accepted" /\ conn'[d] = "accepted"
  BY <1>1, <1>3
<1>10. Rest(p) \o read \in Seq(Ops) /\ q \in Seq(Ops)
  BY <1>4, <1>5, ConcatElements
<1>11. ASSUME NEW d \in Clients, d \notin next \cup {c} PROVE Keeps(queue[p], q, d)
  <2>1. Keeps(queue[p], Rest(p), d) /\ NoOps(read, d) /\ NoOps(accepted, d)
    BY <1>4, <1>5, <1>11
  <2>2. queue[p] \in Seq(Ops)
    BY DEF Inv, TypeOK
  <2> HIDE DEF read, accepted, next
  <2> QED
    BY <1>4, <1>5, <2>1, <2>2, ConcatKeepsTwice
<1>12. Waiting'
  <2>1. ASSUME waiting # << >>
        PROVE  /\ \A i \in 1 .. Len(Tail(waiting)) :
                    /\ i + 1 \in 1 .. Len(waiting) /\ Tail(waiting)[i] = waiting[i + 1]
                    /\ waiting[i + 1] # Head(waiting)
               /\ \A i, j \in 1 .. Len(Tail(waiting)) : Tail(waiting)[i] = Tail(waiting)[j] => i = j
    <3>1. /\ Head(waiting) = waiting[1] /\ 1 \in 1 .. Len(waiting)
          /\ \A i \in 1 .. Len(Tail(waiting)) :
               i + 1 \in 1 .. Len(waiting) /\ i + 1 # 1 /\ Tail(waiting)[i] = waiting[i + 1]
      BY <2>1
    <3>2. \A i \in 1 .. Len(Tail(waiting)) : waiting[i + 1] # Head(waiting)
      BY <3>1
    <3>3. ASSUME NEW i \in 1 .. Len(Tail(waiting)), NEW j \in 1 .. Len(Tail(waiting)),
                 Tail(waiting)[i] = Tail(waiting)[j]
          PROVE  i = j
      <4>1. i + 1 = j + 1
        BY <3>1, <3>3
      <4> QED
        BY <4>1
    <3> QED
      BY <3>1, <3>2, <3>3
  <2>2. CASE waiting = << >>
    BY <1>1, <2>2 DEF Waiting
  <2>3. CASE waiting # << >>
    <3>1. backlog' = Tail(waiting) /\ next = {Head(waiting)}
      BY <1>1, <2>3
    <3>2. ASSUME NEW i \in 1 .. Len(backlog') PROVE conn'[backlog'[i]] = "waiting"
      <4>1. /\ i + 1 \in 1 .. Len(waiting) /\ backlog'[i] = waiting[i + 1]
            /\ waiting[i + 1] # Head(waiting)
        BY <2>1, <2>3, <3>1
      <4>2. waiting[i + 1] \in Clients /\ waiting[i + 1] # c /\ conn[waiting[i + 1]] = "waiting"
        BY <4>1
      <4> QED
        BY <1>8, <3>1, <4>1, <4>2
    <3> QED
      BY <2>1, <2>3, <3>1, <3>2 DEF Waiting
  <2> QED
    BY <2>2, <2>3
<1> HIDE DEF next, read, accepted, row, q
<1>13. Chain'
  BY <1>2 DEF AnswerInv, Chain
<1>14. Opened'
  <2> SUFFICES ASSUME NEW d \in Clients, conn'[d] # "accepted"
               PROVE  /\ got'[d] = << >>
                      /\ \A r \in Procs : /\ sess'[r][d] = "closed" /\ NoOps(queue'[r], d)
                                          /\ st'[r] \in {"forked", "wait", "program"} => serving'[r] # d
    BY DEF Opened
  <2>1. d \notin next \cup {c} /\ conn[d] # "accepted"
    BY <1>8, <1>9
  <2>2. /\ got[d] = << >>
        /\ \A r \in Procs : /\ sess[r][d] = "closed" /\ NoOps(queue[r], d)
                            /\ st[r] \in {"forked", "wait", "program"} => serving[r] # d
    BY <2>1 DEF AnswerInv, Opened
  <2>3. NoOps(q, d) /\ row[d] = "closed"
    BY <1>8, <1>11, <2>1, <2>2 DEF Keeps
  <2> QED
    BY <1>2, <1>6, <1>7, <2>2, <2>3
<1>15. ASSUME NEW d \in Clients \ raced' PROVE Life(d)'
  <2>0. Chain /\ Opened /\ Life(d) /\ d \notin raced
    BY <1>2 DEF AnswerInv
  <2>1. CASE d \notin next \cup {c}
    <3>1. Keeps(queue[p], queue'[p], d) /\ sess'[p][d] = sess[p][d] /\ conn'[d] = conn[d]
      BY <1>6, <1>7, <1>8, <1>11, <2>1
    <3> QED
      BY <1>2, <1>6, <1>7, <2>0, <3>1, LoopKeeps
  <2>2. CASE d \in next \cup {c}
    <3>1. p = Main
      BY <1>1, <2>2 DEF Takes
    <3>2. st'[Main] = "loop" /\ sess'[Main][d] = row[d] /\ queue'[Main] = q
      BY <1>2, <1>6, <1>7, <3>1
    <3>3. AtServer(d)'
      <4>1. CASE d = c
        <5>1. NoOps(Rest(p), c) /\ got'[c] = << >> /\ NoOps(accepted, c)
          BY <1>2, <1>3, <1>5, <2>0, <3>1, <4>1
        <5>2. Keeps(Rest(p) \o read, q, c)
          BY <1>5, <1>10, <5>1, ConcatKeeps DEF q
        <5>3. CASE read = << >> /\ NoOps(read, c)
          <6>1. NoOps(Rest(p) \o read, c)
            BY <1>4, <5>1, <5>3, ConcatKeeps DEF Keeps
          <6>2. NoOps(q, c) /\ row[c] = "reading"
            BY <1>9, <5>2, <5>3, <6>1 DEF Keeps
          <6> QED
            BY <3>2, <4>1, <5>1, <6>2 DEF AtServer
        <5>4. CASE read # << >> /\ OneOp(read, c, "done")
          <6>1. OneOp(Rest(p) \o read, c, "done")
            BY <1>4, <5>1, <5>4, ConcatAdds
          <6>2. OneOp(q, c, "done") /\ row[c] = "request"
            BY <1>9, <5>2, <5>4, <6>1 DEF Keeps, Calls
          <6> QED
            BY <3>2, <4>1, <5>1, <6>2 DEF AtServer
        <5>5. CASE read # << >> /\ OneOp(read, c, "closed") /\ c \in gone \cup reset
          <6>1. OneOp(Rest(p) \o read, c, "closed")
            BY <1>4, <5>1, <5>5, ConcatAdds
          <6>2. OneOp(q, c, "closed") /\ row[c] = "request" /\ c \in gone' \cup reset'
            BY <1>2, <1>9, <5>2, <5>5, <6>1 DEF Keeps, Calls, Grows
          <6> QED
            BY <3>2, <4>1, <5>1, <6>2 DEF AtServer
        <5> QED
          BY <1>4, <5>3, <5>4, <5>5
      <4>2. CASE d \in next
        <5>1. conn[d] # "accepted" /\ d # c
          BY <1>3, <4>2
        <5>2. NoOps(queue[p], d) /\ got'[d] = << >>
          BY <1>2, <2>0, <5>1 DEF Opened
        <5>3. NoOps(Rest(p), d) /\ NoOps(read, d)
          BY <1>4, <5>1, <5>2 DEF Keeps
        <5>4. NoOps(Rest(p) \o read, d)
          BY <1>4, <5>3, ConcatKeeps DEF Keeps
        <5>5. OneOp(q, d, "accepted")
          BY <1>5, <1>10, <4>2, <5>4, ConcatAdds DEF q
        <5> QED
          BY <1>9, <3>2, <4>2, <5>2, <5>5 DEF AtServer
      <4> QED
        BY <2>2, <4>1, <4>2
    <3> QED
      BY <1>2, <1>7, <2>0, <3>1, <3>2, <3>3, LifeAtServer
  <2> QED
    BY <2>1, <2>2
<1> QED
  BY <1>12, <1>13, <1>14, <1>15 DEF AnswerInv

\* accept() takes the first connection of the backlog.
LEMMA RunAcceptLife ==
    ASSUME Inv, AnswerInv, NEW p \in Procs, RunAccept(p), backlog # << >>
    PROVE  AnswerInv'
<1> DEFINE c == Head(backlog)
           waiting == Tail(backlog)
<1>1. Turn(p, "accept") /\ StartSession(p, c, waiting)
  BY DEF RunAccept
<1>2. /\ st[p] = "loop" /\ Rest(p) \in Seq(Ops) /\ queue[p] \in Seq(Ops)
      /\ \A d \in Clients : Keeps(queue[p], Rest(p), d)
  BY <1>1, HeadFree
<1>3. /\ c \in Clients /\ waiting \in Seq(Clients) /\ c = backlog[1] /\ 1 \in 1 .. Len(backlog)
      /\ \A i \in 1 .. Len(waiting) :
           i + 1 \in 1 .. Len(backlog) /\ i + 1 # 1 /\ waiting[i] = backlog[i + 1]
  BY DEF Inv, TypeOK
<1>4. Waiting
  BY DEF AnswerInv
<1> HIDE DEF c, waiting
<1>5. conn[c] = "waiting" /\ \A i \in 1 .. Len(waiting) : conn[waiting[i]] = "waiting" /\ waiting[i] # c
  BY <1>3, <1>4 DEF Waiting
<1>6. ASSUME NEW i \in 1 .. Len(waiting), NEW j \in 1 .. Len(waiting), waiting[i] = waiting[j]
      PROVE  i = j
  <2>1. i + 1 = j + 1
    BY <1>3, <1>4, <1>6 DEF Waiting
  <2> QED
    BY <2>1
<1>7. NoOps(queue[p], c) /\ got[c] = << >>
  BY <1>3, <1>5 DEF AnswerInv, Opened
<1>8. NoOps(Rest(p), c)
  BY <1>2, <1>3, <1>7 DEF Keeps
<1> QED
  BY <1>1, <1>2, <1>3, <1>5, <1>6, <1>7, <1>8, AcceptLife

\* The callback of an accept that was made when it was asked for.
LEMMA RunAcceptedLife ==
    ASSUME Inv, AnswerInv, NEW p \in Procs, RunAccepted(p)
    PROVE  AnswerInv'
<1> DEFINE c == Head(queue[p])[2]
<1>1. Turn(p, "accepted") /\ "accepted" \in Calls /\ StartSession(p, c, backlog)
  BY DEF RunAccepted, Calls
<1>2. Opened /\ Waiting /\ backlog \in Seq(Clients)
  BY DEF AnswerInv, Inv, TypeOK
<1>3. /\ st[p] = "loop" /\ Rest(p) \in Seq(Ops) /\ c \in Clients /\ conn[c] = "accepted"
      /\ \A d \in Clients \ {c} : Keeps(queue[p], Rest(p), d)
  BY <1>1, <1>2, HeadAbout
<1>4. p = Main /\ c \notin raced => NoOps(Rest(p), c) /\ got[c] = << >>
  BY <1>1, <1>2, <1>3, ServerHead DEF AnswerInv
<1> HIDE DEF c
<1>5. /\ \A i \in 1 .. Len(backlog) : conn[backlog[i]] = "waiting" /\ backlog[i] # c
      /\ \A i, j \in 1 .. Len(backlog) : backlog[i] = backlog[j] => i = j
  BY <1>2, <1>3 DEF Waiting
<1> QED
  BY <1>1, <1>2, <1>3, <1>4, <1>5, AcceptLife

\* An accept or a read that finds nothing.
LEMMA NothingLife ==
    ASSUME Inv, AnswerInv, NEW p \in Procs, NEW kind \in {"accept", "read"}, Turn(p, kind),
           queue' = Set(queue, p, Rest(p)),
           UNCHANGED <<procs, sess, conn, backlog, client, inq, got, history>>
    PROVE  AnswerInv'
<1>0. Chain /\ Opened
  BY DEF AnswerInv
<1>1. UNCHANGED <<procs, backlog, conn, got, raced>> /\ sess' = sess /\ Grows
  BY DEF client, history, Grows
<1>2. queue'[p] = Rest(p) /\ \A r \in Procs \ {p} : queue'[r] = queue[r]
  BY DEF Set, Inv, TypeOK
<1> DEFINE c == Head(queue[p])[2]
<1>3. /\ st[p] = "loop" /\ kind = "read" => c \in Clients /\ conn[c] = "accepted"
      /\ \A d \in Clients : kind = "accept" \/ d # c => Keeps(queue[p], Rest(p), d)
  BY <1>0, HeadFree, HeadAbout DEF Calls
<1>4. st[p] = "loop"
  BY DEF Turn
<1>5. ASSUME NEW d \in Clients, conn[d] # "accepted" PROVE sess'[p][d] = "closed" /\ NoOps(queue'[p], d)
  <2>1. kind = "accept" \/ d # c
    BY <1>3, <1>4, <1>5
  <2> QED
    BY <1>0, <1>1, <1>2, <1>3, <1>5, <2>1 DEF Opened, Keeps
<1>6. Chain' /\ Opened' /\ Waiting'
  BY <1>1, <1>2, <1>5, QuietStep
<1>7. ASSUME NEW d \in Clients \ raced' PROVE Life(d)'
  <2>0. Life(d) /\ conn'[d] = conn[d] /\ got'[d] = got[d]
    BY <1>1 DEF AnswerInv
  <2>1. CASE kind = "accept" \/ d # c
    BY <1>0, <1>1, <1>2, <1>3, <1>4, <2>0, <2>1, LoopKeeps
  <2>2. CASE kind = "read" /\ d = c
    <3>1. kind \in Calls
      BY <2>2 DEF Calls
    <3>2. CASE p = Main
      <4>1. NoOps(Rest(Main), d) /\ got[d] = << >> /\ sess[Main][d] = "reading"
        BY <1>0, <2>0, <2>2, <3>1, <3>2, ServerHead
      <4>2. AtServer(d)'
        BY <1>1, <1>2, <1>4, <2>0, <3>2, <4>1 DEF AtServer, procs
      <4> QED
        BY <1>1, <1>2, <1>4, <2>0, <3>2, <4>2, LifeAtServer DEF procs
    <3>3. CASE p # Main
      <4>1. ~ServedBy(d, p) /\ OnlyReads(Rest(p), d)
        BY <1>0, <2>0, <2>2, <3>1, <3>3, OtherHead
      <4> DEFINE S == {p}
      <4>2. /\ S \subseteq Procs \ {Main}
            /\ \A r \in Procs \ S : /\ st'[r] = st[r] /\ serving'[r] = serving[r]
                                    /\ queue'[r] = queue[r] /\ sess'[r][d] = sess[r][d]
            /\ \A r \in S : ServedBy(d, r) => InChild(d, r)'
            /\ \A r \in S : ~ServedBy(d, r) => /\ OnlyReads(queue'[r], d)
                                               /\ st'[r] \in {"forked", "program"} => serving'[r] # d
        BY <1>1, <1>2, <1>4, <3>3, <4>1 DEF procs
      <4> HIDE DEF S
      <4> QED
        BY <1>0, <1>1, <2>0, <4>2, LifeApart, Zenon
    <3> QED
      BY <3>2, <3>3
  <2> QED
    BY <2>1, <2>2
<1> QED
  BY <1>6, <1>7 DEF AnswerInv

\* The session of the callback at the head is closed; the server does so only if
\* the client or fork() is to blame.
LEMMA CloseLife ==
    ASSUME Inv, AnswerInv, NEW p \in Procs, NEW kind \in Calls \ {"write"}, Turn(p, kind),
           NEW c \in Clients, c = Head(queue[p])[2],
           sess' = [sess EXCEPT ![p][c] = "closed"], queue' = Set(queue, p, Rest(p)),
           UNCHANGED <<procs, conn, backlog, got, raced>>, Grows,
           p = Main => c \in raced \cup gone' \cup reset' \cup refused'
    PROVE  AnswerInv'
<1>0. Chain /\ Opened /\ kind \in Calls
  BY DEF AnswerInv
<1>1. /\ queue'[p] = Rest(p) /\ \A r \in Procs \ {p} : queue'[r] = queue[r]
      /\ sess'[p][c] = "closed" /\ \A d \in Clients \ {c} : sess'[p][d] = sess[p][d]
      /\ \A r \in Procs \ {p} : sess'[r] = sess[r]
  BY DEF Set, Inv, TypeOK
<1>2. /\ st[p] = "loop" /\ conn[c] = "accepted"
      /\ \A d \in Clients \ {c} : Keeps(queue[p], Rest(p), d)
  BY <1>0, HeadAbout
<1>3. ASSUME NEW d \in Clients, conn[d] # "accepted" PROVE sess'[p][d] = "closed" /\ NoOps(queue'[p], d)
  BY <1>0, <1>1, <1>2, <1>3 DEF Opened, Keeps
<1>4. Chain' /\ Opened' /\ Waiting'
  BY <1>1, <1>3, QuietStep
<1>5. ASSUME NEW d \in Clients \ raced' PROVE Life(d)'
  <2>0. Life(d) /\ conn'[d] = conn[d] /\ got'[d] = got[d] /\ d \notin raced
    BY DEF AnswerInv
  <2>1. CASE d # c
    BY <1>0, <1>1, <1>2, <2>0, <2>1, LoopKeeps
  <2>2. CASE d = c
    <3>1. CASE p = Main
      <4>1. NoOps(Rest(Main), d)
        BY <1>0, <2>0, <2>2, <3>1, ServerHead
      <4>2. Finished(d)'
        BY <2>0, <2>2, <3>1 DEF Finished
      <4>3. AtServer(d)'
        BY <1>1, <1>2, <2>2, <3>1, <4>1, <4>2 DEF AtServer, procs
      <4> QED
        BY <1>1, <1>2, <2>0, <3>1, <4>3, LifeAtServer DEF procs
    <3>2. CASE p # Main
      <4>1. /\ ServedBy(d, p) => d \in reset /\ got[d] = << >> /\ NoOps(Rest(p), d)
            /\ ~ServedBy(d, p) => OnlyReads(Rest(p), d)
        BY <1>0, <2>0, <2>2, <3>2, OtherHead
      <4>2. ServedBy(d, p) => NoWrites(Rest(p))
        <5> SUFFICES ASSUME ServedBy(d, p) PROVE NoWrites(Rest(p))
          OBVIOUS
        <5>1. InChild(d, p) /\ got[d] = << >>
          BY <1>0, <2>0, <4>1, ServedInChild DEF ServedBy
        <5>2. NoWrites(queue[p])
          BY <1>2, <5>1 DEF InChild
        <5>3. queue[p] \in Seq(Ops) /\ queue[p] # << >>
          BY <1>0, HeadAbout
        <5>4. \A i \in 1 .. Len(Tail(queue[p])) :
                 i + 1 \in 1 .. Len(queue[p]) /\ Tail(queue[p])[i] = queue[p][i + 1]
          BY <5>3
        <5> QED
          BY <5>2, <5>4 DEF NoWrites, Rest
      <4>3. ServedBy(d, p) => InChild(d, p)'
        BY <1>1, <1>2, <2>0, <2>2, <4>1, <4>2 DEF InChild, Grows, procs
      <4> DEFINE S == {p}
      <4>4. /\ S \subseteq Procs \ {Main}
            /\ \A r \in Procs \ S : /\ st'[r] = st[r] /\ serving'[r] = serving[r]
                                    /\ queue'[r] = queue[r] /\ sess'[r][d] = sess[r][d]
            /\ \A r \in S : ServedBy(d, r) => InChild(d, r)'
            /\ \A r \in S : ~ServedBy(d, r) => /\ OnlyReads(queue'[r], d)
                                               /\ st'[r] \in {"forked", "program"} => serving'[r] # d
        BY <1>1, <1>2, <3>2, <4>1, <4>3 DEF procs
      <4> HIDE DEF S
      <4> QED
        BY <1>0, <2>0, <4>4, LifeApart, Zenon
    <3> QED
      BY <3>1, <3>2
  <2> QED
    BY <2>1, <2>2
<1> QED
  BY <1>4, <1>5 DEF AnswerInv

\* A process ends: a reset connection ended its event loop, or it did its work.
LEMMA DeathLife ==
    ASSUME Inv, AnswerInv, NEW p \in Procs, st[p] \in {"forked", "loop", "program"}, Dies(p),
           UNCHANGED <<serving, child, conn, backlog, raced>>, Grows,
           \A d \in Clients : conn[d] # "accepted" => got'[d] = got[d],
           \A d \in Clients \ raced : ServedBy(d, p) =>
               Finished(d)' /\ got'[d] \in {<< >>, <<Status>>, Answer(d)},
           \A d \in Clients \ raced : ~ServedBy(d, p) => got'[d] = got[d]
    PROVE  AnswerInv'
<1>0. Chain /\ Opened /\ Waiting
  BY DEF AnswerInv
<1>1. /\ st'[p] = "dead" /\ queue'[p] = << >> /\ \A d \in Clients : sess'[p][d] = "closed"
      /\ \A q \in Procs : q # p => /\ st'[q] = st[q] /\ queue'[q] = queue[q]
                                   /\ sess'[q] = sess[q]
  BY DEF Dies, Set, NoSessions, Inv, TypeOK
<1>2. Chain'
  <2>1. st' = [st EXCEPT ![p] = "dead"] /\ child' = child /\ st[p] \notin {"none", "wait"}
    BY DEF Dies, Set
  <2> QED
    BY <1>0, <2>1, ChainRuns
<1>3. Waiting'
  BY <1>0 DEF Waiting
<1>4. Opened'
  <2> SUFFICES ASSUME NEW d \in Clients, conn'[d] # "accepted"
               PROVE  /\ got'[d] = << >>
                      /\ \A q \in Procs : /\ sess'[q][d] = "closed" /\ NoOps(queue'[q], d)
                                          /\ st'[q] \in {"forked", "wait", "program"} => serving'[q] # d
    BY DEF Opened
  <2>1. NoOps(<< >>, d)
    BY NotAbout
  <2>2. /\ got[d] = << >> /\ got'[d] = got[d]
        /\ \A q \in Procs : /\ sess[q][d] = "closed" /\ NoOps(queue[q], d)
                            /\ st[q] \in {"forked", "wait", "program"} => serving[q] # d
    BY <1>0 DEF Opened
  <2>3. serving' = serving
    OBVIOUS
  <2> QED
    BY <1>1, <2>1, <2>2, <2>3
<1>5. ASSUME NEW d \in Clients \ raced' PROVE Life(d)'
  <2>1. d \in Clients \ raced /\ Life(d) /\ conn'[d] = conn[d]
    BY DEF AnswerInv
  <2> QED
    BY <1>0, <2>1, LifeEnds
<1> QED
  BY <1>2, <1>3, <1>4, <1>5 DEF AnswerInv

\* The request of a connection that was reset ends the event loop.
LEMMA ResetLife ==
    ASSUME Inv, AnswerInv, NEW p \in Procs, NEW kind \in {"read", "done"}, Turn(p, kind),
           NEW c \in Clients, c = Head(queue[p])[2], c \in reset, Dies(p),
           UNCHANGED <<serving, child, history, conn, backlog, client, got>>
    PROVE  AnswerInv'
<1>0. Opened /\ kind \in Calls /\ st[p] = "loop" /\ kind \notin {"write", "error"}
  BY DEF AnswerInv, Calls, Turn
<1>1. /\ UNCHANGED <<serving, child, conn, backlog, raced>> /\ Grows /\ got' = got /\ reset' = reset
  BY DEF Grows, history, client
<1>2. ASSUME NEW d \in Clients \ raced, ServedBy(d, p)
      PROVE  Finished(d)' /\ got'[d] \in {<< >>, <<Status>>, Answer(d)}
  <2>1. Life(d)
    BY DEF AnswerInv
  <2>2. p # Main
    BY <1>2 DEF ServedBy, Main
  <2>3. d # c
    BY <1>0, <1>2, <2>1, <2>2, OtherHead
  <2>4. d \in reset \/ (d \in crowded /\ c \in raced)
    BY <1>0, <1>2, <2>1, <2>2, <2>3, ServedTurn
  <2>5. raced' = raced /\ crowded' = crowded
    BY DEF history
  <2> QED
    BY <1>1, <2>1, <2>4, <2>5 DEF Finished, Life
<1> QED
  BY <1>0, <1>1, <1>2, DeathLife

\* What a fork does not find in the queue.
LEMMA NotInherited ==
    ASSUME Inv, Opened, NEW rest \in Seq(Ops)
    PROVE  /\ \A d \in Clients : d \notin Inherited(rest) => NoOps(rest, d)
           /\ OnlyOthers(rest, Inherited(rest))
<1>1. DOMAIN rest = 1 .. Len(rest) /\ \A i \in 1 .. Len(rest) : rest[i] \in Ops
  OBVIOUS
<1>2. ASSUME NEW d \in Clients, d \notin Inherited(rest) PROVE NoOps(rest, d)
  BY <1>1, <1>2 DEF Inherited, NoOps, About
<1>3. ASSUME NEW i \in 1 .. Len(rest) PROVE rest[i] \in Others(Inherited(rest))
  <2>1. CASE rest[i] \in {Poll, Accept}
    BY <2>1 DEF Others
  <2>2. CASE rest[i] \notin {Poll, Accept}
    <3>1. rest[i] \in Calls \X Clients
      BY <1>1, <2>2 DEF Ops
    <3>2. rest[i][2] \in Clients /\ rest[i] \in About(rest[i][2])
      BY <3>1 DEF About
    <3>3. rest[i][2] \in Inherited(rest)
      BY <1>2, <3>2 DEF NoOps
    <3> QED
      BY <3>1, <3>3 DEF Others
  <2> QED
    BY <2>1, <2>2
<1> QED
  BY <1>2, <1>3 DEF OnlyOthers

\* fork() succeeds: the child has the parent's queue.  A connection it finds there
\* is caught; the one it serves is the child's now.
LEMMA ForkLife ==
    ASSUME Inv, AnswerInv, NEW p \in Procs, NEW kind \in {"read", "done"}, Turn(p, kind),
           NEW c \in Clients, c = Head(queue[p])[2],
           NEW k \in Procs, st[k] = "none", \A q \in 1 .. k - 1 : st[q] # "none",
           st' = [st EXCEPT ![p] = "wait", ![k] = "forked"],
           serving' = [serving EXCEPT ![p] = c, ![k] = c], child' = Set(child, p, k),
           NEW all, all = [sess[p] EXCEPT ![c] = "request"],
           sess' = [sess EXCEPT ![p] = all, ![k] = all],
           queue' = [queue EXCEPT ![p] = Rest(p), ![k] = Rest(p)],
           raced' = Takes(p, {c}) \cup Inherited(Rest(p)),
           crowded' = IF Inherited(Rest(p)) = {} THEN crowded ELSE crowded \cup {c},
           UNCHANGED <<conn, backlog, client, got, refused>>
    PROVE  AnswerInv'
<1>0. Chain /\ Opened /\ Waiting /\ kind \in Calls /\ Main \in Procs
  BY OpTypes DEF AnswerInv, Calls
<1>1. /\ st[p] = "loop" /\ queue[p] \in Seq(Ops) /\ Rest(p) \in Seq(Ops) /\ conn[c] = "accepted"
      /\ \A d \in Clients \ {c} : Keeps(queue[p], Rest(p), d)
  BY <1>0, HeadAbout
<1>2. k = p + 1 /\ Chain'
  BY <1>0, <1>1, ChainForks
<1>3. k # p /\ k # Main /\ (p # Main => k # Main + 1) /\ (p = Main => k = Main + 1)
  BY <1>2 DEF Procs, Main
<1>4. /\ st'[p] = "wait" /\ st'[k] = "forked" /\ serving'[p] = c /\ serving'[k] = c
      /\ queue'[p] = Rest(p) /\ queue'[k] = Rest(p)
      /\ sess'[p][c] = "request" /\ sess'[k][c] = "request"
      /\ \A d \in Clients \ {c} : sess'[p][d] = sess[p][d] /\ sess'[k][d] = sess[p][d]
      /\ \A q \in Procs \ {p, k} : /\ st'[q] = st[q] /\ serving'[q] = serving[q]
                                   /\ queue'[q] = queue[q] /\ sess'[q] = sess[q]
  BY <1>3 DEF Inv, TypeOK
<1>5. Grows /\ conn' = conn /\ backlog' = backlog /\ got' = got /\ reset' = reset
  BY DEF Grows, client, Takes
<1>6. Waiting'
  BY <1>0, <1>5 DEF Waiting
<1>7. Opened'
  <2> SUFFICES ASSUME NEW d \in Clients, conn'[d] # "accepted"
               PROVE  /\ got'[d] = << >>
                      /\ \A q \in Procs : /\ sess'[q][d] = "closed" /\ NoOps(queue'[q], d)
                                          /\ st'[q] \in {"forked", "wait", "program"} => serving'[q] # d
    BY DEF Opened
  <2>1. d # c
    BY <1>1, <1>5
  <2>2. /\ got[d] = << >>
        /\ \A q \in Procs : /\ sess[q][d] = "closed" /\ NoOps(queue[q], d)
                            /\ st[q] \in {"forked", "wait", "program"} => serving[q] # d
    BY <1>0, <1>5 DEF Opened
  <2>3. NoOps(Rest(p), d)
    BY <1>1, <2>1, <2>2 DEF Keeps
  <2>4. ASSUME NEW q \in Procs
        PROVE  /\ sess'[q][d] = "closed" /\ NoOps(queue'[q], d)
               /\ st'[q] \in {"forked", "wait", "program"} => serving'[q] # d
    <3>0. /\ d \in Clients \ {c} /\ sess[p][d] = "closed"
          /\ sess[q][d] = "closed" /\ NoOps(queue[q], d)
          /\ st[q] \in {"forked", "wait", "program"} => serving[q] # d
      BY <2>1, <2>2
    <3>1. CASE q \in {p, k}
      <4>1. sess'[q][d] = sess[p][d]
        <5>1. sess'[p][d] = sess[p][d] /\ sess'[k][d] = sess[p][d]
          BY <1>4, <3>0, Zenon
        <5> QED
          BY <3>1, <5>1
      <4>2. queue'[q] = Rest(p) /\ serving'[q] = c
        BY <1>4, <3>1
      <4> QED
        BY <2>1, <2>3, <3>0, <4>1, <4>2
    <3>2. CASE q \notin {p, k}
      <4>1. /\ st'[q] = st[q] /\ serving'[q] = serving[q] /\ queue'[q] = queue[q]
            /\ sess'[q] = sess[q]
        BY <1>4, <3>2
      <4> QED
        BY <3>0, <4>1
    <3> QED
      BY <3>1, <3>2
  <2> QED
    BY <1>5, <2>2, <2>4
<1>8. ASSUME NEW d \in Clients \ raced' PROVE Life(d)'
  <2>1. /\ d \notin raced /\ d \notin Inherited(Rest(p))
        /\ d = c => p = Main
    BY DEF Takes
  <2>2. Life(d)
    BY <2>1 DEF AnswerInv
  <2>3. NoOps(Rest(p), d) /\ OnlyOthers(Rest(p), Inherited(Rest(p)))
    BY <1>0, <1>1, <2>1, NotInherited
  <2>4. OnlyReads(Rest(p), d)
    BY <2>3 DEF NoOps, OnlyReads
  <2>5. CASE p = Main /\ d = c
    <3>1. got[d] = << >>
      BY <1>0, <2>2, <2>5, ServerHead
    <3>2. st'[Main] = "wait" /\ serving'[Main] = d /\ k = Main + 1
      BY <1>3, <1>4, <2>5
    <3>3. InChild(d, k)'
      <4>1. Inherited(Rest(p)) \subseteq Around(d)'
        BY <2>5 DEF Around
      <4>2. NoWrites(Rest(p)) /\ OnlyOthers(Rest(p), Around(d)')
        BY <2>3, <2>5, <4>1, MoreOthers, TurnTaken, NoReplyNoWrites
      <4>3. /\ st'[k] = "forked" /\ serving'[k] = d /\ queue'[k] = Rest(p) /\ got'[d] = << >>
            /\ sess'[k][d] = "request"
        BY <1>4, <1>5, <2>5, <3>1, Zenon
      <4> QED
        BY <2>3, <4>2, <4>3 DEF InChild
    <3>4. AtServer(d)'
      BY <1>4, <2>3, <2>5, <3>2, <3>3 DEF AtServer
    <3>5. Elsewhere(d)'
      <4> SUFFICES ASSUME NEW q \in Procs \ {Main}, q # k
                   PROVE  OnlyReads(queue'[q], d) /\ (st'[q] \in {"forked", "program"} => serving'[q] # d)
        BY <3>2 DEF Elsewhere
      <4>1. OnlyReads(queue[q], d) /\ (st[q] \in {"forked", "program"} => serving[q] # d)
        BY <1>1, <2>2, <2>5 DEF Life, Elsewhere
      <4>2. q \in Procs \ {p, k}
        BY <2>5
      <4> QED
        BY <1>4, <4>1, <4>2
    <3> QED
      BY <1>5, <2>2, <3>4, <3>5 DEF Life
  <2>6. CASE p = Main /\ d # c
    <3>1. Elsewhere(d)'
      <4> SUFFICES ASSUME NEW q \in Procs \ {Main}
                   PROVE  OnlyReads(queue'[q], d) /\ (st'[q] \in {"forked", "program"} => serving'[q] # d)
        BY DEF Elsewhere
      <4>1. CASE q = k
        BY <1>4, <2>4, <2>6, <4>1
      <4>2. CASE q # k
        <5>1. OnlyReads(queue[q], d) /\ (st[q] \in {"forked", "program"} => serving[q] # d)
          BY <1>1, <2>2, <2>6 DEF Life, Elsewhere
        <5>2. q \in Procs \ {p, k}
          BY <2>6, <4>2
        <5> QED
          BY <1>4, <5>1, <5>2
      <4> QED
        BY <4>1, <4>2
    <3>2. ASSUME conn'[d] = "accepted" PROVE AtServer(d)'
      <4>1. AtServer(d)
        BY <1>1, <1>5, <2>2, <2>6, <3>2 DEF Life
      <4>2. ASSUME NEW call \in Calls PROVE ~OneOp(queue[Main], d, call)
        <5>1. ~OneOp(Rest(p), d, call)
          <6>1. <<call, d>> \in About(d)
            BY DEF About
          <6> QED
            BY <2>3, <6>1 DEF NoOps, OneOp
        <5> QED
          BY <1>1, <2>6, <5>1 DEF Keeps
      <4>3. /\ ~OneOp(queue[Main], d, "accepted") /\ ~OneOp(queue[Main], d, "done")
            /\ ~OneOp(queue[Main], d, "closed")
        BY <4>2 DEF Calls
      <4>4. sess'[Main][d] = sess[Main][d] /\ queue'[Main] = Rest(p) /\ serving'[Main] # d /\ got'[d] = got[d]
        <5>1. d \in Clients \ {c}
          BY <2>6
        <5>2. sess'[p][d] = sess[p][d]
          BY <1>4, <5>1
        <5> QED
          BY <1>4, <1>5, <2>6, <5>2
      <4>5. sess[Main][d] \notin {"accepted", "request"}
        BY <1>1, <2>6, <4>1, <4>3 DEF AtServer
      <4>6. Finished(d) => Finished(d)'
        BY <1>5, <4>4, FinishedKept
      <4> QED
        BY <2>3, <4>1, <4>4, <4>5, <4>6 DEF AtServer
    <3> QED
      BY <1>5, <2>2, <3>1, <3>2 DEF Life
  <2>7. CASE p # Main
    <3>0. d # c
      BY <2>1, <2>7
    <3>1. ServedBy(d, p) => InChild(d, p)'
      <4> SUFFICES ASSUME ServedBy(d, p) PROVE InChild(d, p)'
        OBVIOUS
      <4>0. ~OneWrite(queue[p], d, Around(d))
        <5>1. OneWrite(queue[p], d, Around(d)) => OneWrite(Rest(p), d, Around(d))
          BY <1>1, <3>0 DEF Keeps
        <5>2. <<"write", d>> \in About(d)
          BY DEF About, Calls
        <5> QED
          BY <2>3, <5>1, <5>2 DEF OneWrite, NoOps
      <4>1. d \in reset /\ got[d] = << >> /\ NoWrites(queue[p])
        BY <1>0, <2>2, <2>7, <3>0, <4>0, ServedTurn
      <4>2. InChild(d, p)
        BY <1>0, <2>2, ServedInChild DEF ServedBy
      <4>3. sess[p][d] # "reading" /\ NoWrites(Rest(p))
        BY <1>1, <3>0, <4>1, <4>2 DEF InChild, Keeps
      <4> QED
        BY <1>4, <1>5, <2>3, <3>0, <4>1, <4>3 DEF InChild
    <3>2. ~ServedBy(d, k)
      BY <1>3, <2>7 DEF ServedBy
    <3> DEFINE S == {p, k}
    <3>3. /\ S \subseteq Procs \ {Main}
          /\ \A r \in Procs \ S : /\ st'[r] = st[r] /\ serving'[r] = serving[r]
                                  /\ queue'[r] = queue[r] /\ sess'[r][d] = sess[r][d]
          /\ \A r \in S : ServedBy(d, r) => InChild(d, r)'
          /\ \A r \in S : ~ServedBy(d, r) => /\ OnlyReads(queue'[r], d)
                                             /\ st'[r] \in {"forked", "program"} => serving'[r] # d
      <4>1. S \subseteq Procs \ {Main}
        BY <1>3, <2>7
      <4>2. \A r \in Procs \ S : /\ st'[r] = st[r] /\ serving'[r] = serving[r]
                                 /\ queue'[r] = queue[r] /\ sess'[r][d] = sess[r][d]
        BY <1>4
      <4>3. ASSUME NEW r \in S PROVE OnlyReads(queue'[r], d) /\ serving'[r] # d
        BY <1>4, <2>4, <3>0, <4>3
      <4>4. \A r \in S : ServedBy(d, r) => InChild(d, r)'
        BY <3>1, <3>2
      <4> QED
        BY <4>1, <4>2, <4>3, <4>4
    <3>4. conn'[d] = conn[d] /\ got'[d] = got[d]
      BY <1>5
    <3> HIDE DEF S
    <3> QED
      BY <1>0, <1>5, <2>2, <3>3, <3>4, LifeApart, Zenon
  <2> QED
    BY <2>5, <2>6, <2>7
<1> QED
  BY <1>2, <1>6, <1>7, <1>8 DEF AnswerInv

\* A request was read: the process ends, forks, or closes because it cannot fork.
LEMMA RequestLife ==
    ASSUME Inv, AnswerInv, NEW p \in Procs, NEW kind \in {"read", "done"}, Turn(p, kind),
           NEW c \in Clients, c = Head(queue[p])[2], HandleHttpRequest(p, c)
    PROVE  AnswerInv'
<1>1. UNCHANGED <<conn, backlog, client, got>>
  BY DEF HandleHttpRequest
<1>2. CASE c \in reset /\ Dies(p) /\ UNCHANGED <<serving, child, history>>
  BY <1>1, <1>2, ResetLife
<1>3. CASE ForkFails(p, c)
  <2>1. /\ sess' = [sess EXCEPT ![p][c] = "closed"] /\ queue' = Set(queue, p, Rest(p))
        /\ UNCHANGED <<procs, conn, backlog, got, raced>> /\ Grows /\ c \in refused'
        /\ kind \in Calls \ {"write"}
    BY <1>1, <1>3 DEF ForkFails, Grows, client, Calls
  <2> QED
    BY <2>1, CloseLife
<1>4. CASE c \notin reset /\ ~ForkFails(p, c) /\ ForkCGI(p, c)
  <2> DEFINE all == [sess[p] EXCEPT ![c] = "request"]
  <2>1. PICK k \in Procs :
          /\ st[k] = "none" /\ \A q \in 1 .. k - 1 : st[q] # "none"
          /\ st' = [st EXCEPT ![p] = "wait", ![k] = "forked"]
          /\ serving' = [serving EXCEPT ![p] = c, ![k] = c]
          /\ child' = Set(child, p, k)
          /\ sess' = [sess EXCEPT ![p] = all, ![k] = all]
          /\ queue' = [queue EXCEPT ![p] = Rest(p), ![k] = Rest(p)]
          /\ raced' = Takes(p, {c}) \cup Inherited(Rest(p))
          /\ crowded' = IF Inherited(Rest(p)) = {} THEN crowded ELSE crowded \cup {c}
          /\ UNCHANGED refused
    BY <1>4, Zenon DEF ForkCGI
  <2> QED
    BY <1>1, <2>1, ForkLife
<1> QED
  BY <1>2, <1>3, <1>4 DEF HandleHttpRequest

\* The turn of a descriptor that was ready: a request, the end of the stream or
\* nothing is read.
LEMMA RunReadLife ==
    ASSUME Inv, AnswerInv, NEW p \in Procs, RunRead(p)
    PROVE  AnswerInv'
<1> DEFINE c == Head(queue[p])[2]
<1>0. Turn(p, "read") /\ Opened /\ "read" \in Calls \ {"write"}
  BY DEF RunRead, AnswerInv, Calls
<1>1. c \in Clients
  BY <1>0, HeadAbout
<1>2. CASE c \in inq /\ HandleHttpRequest(p, c)
  BY <1>0, <1>1, <1>2, RequestLife
<1>3. CASE c \in (gone \cup reset) \ inq /\ HandleHttpError(p, c)
  <2>1. /\ sess' = [sess EXCEPT ![p][c] = "closed"] /\ queue' = Set(queue, p, Rest(p))
        /\ UNCHANGED <<procs, conn, backlog, got, raced>> /\ Grows /\ c \in gone' \cup reset'
    BY <1>3 DEF HandleHttpError, Grows, client, history
  <2> QED
    BY <1>0, <1>1, <2>1, CloseLife
<1>4. CASE /\ queue' = Set(queue, p, Rest(p))
           /\ UNCHANGED <<procs, sess, conn, backlog, client, inq, got, history>>
  BY <1>0, <1>4, NothingLife
<1> QED
  BY <1>2, <1>3, <1>4 DEF RunRead

\* The callback of a read that was made when it was asked for.
LEMMA RunDoneLife ==
    ASSUME Inv, AnswerInv, NEW p \in Procs, RunDone(p)
    PROVE  AnswerInv'
<1>1. Turn(p, "done") /\ HandleHttpRequest(p, Head(queue[p])[2]) /\ Opened /\ "done" \in Calls
  BY DEF RunDone, AnswerInv, Calls
<1> QED
  BY <1>1, HeadAbout, RequestLife

\* The end of the stream was read, or the status line could not be sent.
LEMMA RunErrorLife ==
    ASSUME Inv, AnswerInv, NEW p \in Procs, RunClosed(p) \/ RunWriteError(p)
    PROVE  AnswerInv'
<1> DEFINE c == Head(queue[p])[2]
<1>1. PICK kind \in {"closed", "error"} : Turn(p, kind) /\ HandleHttpError(p, c)
  BY DEF RunClosed, RunWriteError
<1>2. Opened /\ kind \in Calls \ {"write"}
  BY DEF AnswerInv, Calls
<1>3. c \in Clients
  BY <1>1, <1>2, HeadAbout
<1>4. /\ sess' = [sess EXCEPT ![p][c] = "closed"] /\ queue' = Set(queue, p, Rest(p))
      /\ UNCHANGED <<procs, conn, backlog, got, raced>> /\ Grows /\ gone' = gone /\ reset' = reset
  BY <1>1 DEF HandleHttpError, Grows, client, history
<1>5. ASSUME p = Main, c \notin raced PROVE c \in gone \cup reset
  <2>1. Life(c) /\ Turn(Main, kind)
    BY <1>1, <1>3, <1>5 DEF AnswerInv
  <2> QED
    BY <1>2, <1>3, <1>5, <2>1, ServerHead
<1> QED
  BY <1>1, <1>2, <1>3, <1>4, <1>5, CloseLife

\* A callback about c is put behind a queue.
LEMMA AppendAbout ==
    ASSUME NEW q \in Seq(Ops), NEW kind \in Calls, NEW c \in Clients
    PROVE  LET r == Append(q, <<kind, c>>)
           IN  /\ \A d \in Clients \ {c} : /\ NoOps(q, d) => NoOps(r, d)
                                           /\ OnlyReads(q, d) => OnlyReads(r, d)
               /\ NoOps(q, c) => OneOp(r, c, kind)
               /\ NoWrites(q) /\ kind # "write" => NoWrites(r)
<1> DEFINE op == <<kind, c>>
           r == Append(q, op)
<1>1. op[1] = kind /\ op \in About(c)
  BY DEF About
<1>2. \A d \in Clients \ {c} : op \notin About(d)
  BY NotAbout
<1> HIDE DEF op
<1>3. /\ Len(q) \in Nat /\ Len(r) = Len(q) + 1 /\ r[Len(q) + 1] = op
      /\ \A i \in 1 .. Len(r) : \/ i = Len(q) + 1 /\ r[i] = op
                                \/ i \in 1 .. Len(q) /\ r[i] = q[i]
  <2>1. Len(q) \in Nat
    OBVIOUS
  <2>2. /\ Len(r) = Len(q) + 1 /\ DOMAIN r = 1 .. Len(q) + 1 /\ DOMAIN q = 1 .. Len(q)
        /\ \A i \in DOMAIN r : \/ i = Len(q) + 1 /\ r[i] = op
                               \/ i \in DOMAIN q /\ r[i] = q[i]
    BY AppendElements
  <2>3. Len(q) + 1 \in DOMAIN r /\ Len(q) + 1 \notin DOMAIN q
    BY <2>1, <2>2
  <2> HIDE DEF r
  <2> QED
    BY <2>1, <2>2, <2>3
<1> HIDE DEF r
<1>4. ASSUME NEW d \in Clients \ {c}
      PROVE  /\ NoOps(q, d) => NoOps(r, d)
             /\ OnlyReads(q, d) => OnlyReads(r, d)
  <2>1. op \notin About(d)
    BY <1>2
  <2>2. NoOps(q, d) => NoOps(r, d)
    BY <1>3, <2>1 DEF NoOps
  <2>3. OnlyReads(q, d) => OnlyReads(r, d)
    BY <1>3, <2>1 DEF OnlyReads
  <2> QED
    BY <2>2, <2>3
<1>5. ASSUME NoOps(q, c) PROVE OneOp(r, c, kind)
  <2>1. Len(q) + 1 \in 1 .. Len(r) /\ r[Len(q) + 1] = <<kind, c>>
    BY <1>3 DEF op
  <2>2. \A j \in 1 .. Len(r) : j # Len(q) + 1 => r[j] \notin About(c)
    BY <1>3, <1>5 DEF NoOps
  <2> QED
    BY <2>1, <2>2 DEF OneOp
<1>6. NoWrites(q) /\ kind # "write" => NoWrites(r)
  BY <1>1, <1>3 DEF NoWrites
<1> QED
  BY <1>4, <1>5, <1>6 DEF r, op

\* A process goes on to another state, with another queue.
LEMMA ProcessGoesOn ==
    ASSUME Inv, AnswerInv, NEW p \in Procs \ {Main}, st[p] \in {"forked", "loop"},
           NEW v \in {"loop", "program"}, st' = Set(st, p, v),
           \A q \in Procs \ {p} : serving'[q] = serving[q] /\ queue'[q] = queue[q],
           UNCHANGED <<child, sess, conn, backlog, raced>>, Grows,
           \A d \in Clients : conn[d] # "accepted" =>
               got'[d] = got[d] /\ NoOps(queue'[p], d) /\ serving'[p] # d,
           \A d \in Clients \ raced : ServedBy(d, p) =>
               InChild(d, p)' /\ got'[d] \in {<< >>, <<Status>>, Answer(d)},
           \A d \in Clients \ raced : ~ServedBy(d, p) =>
               OnlyReads(queue'[p], d) /\ serving'[p] # d /\ got'[d] = got[d]
    PROVE  AnswerInv'
<1>0. Chain /\ Opened /\ Waiting
  BY DEF AnswerInv
<1>1. /\ st'[p] = v /\ \A q \in Procs : q # p => st'[q] = st[q]
  BY DEF Set, Inv, TypeOK
<1>2. Chain'
  BY <1>0, ChainRuns DEF Set
<1>3. Waiting'
  BY <1>0 DEF Waiting
<1>4. Opened'
  <2> SUFFICES ASSUME NEW d \in Clients, conn'[d] # "accepted"
               PROVE  /\ got'[d] = << >>
                      /\ \A q \in Procs : /\ sess'[q][d] = "closed" /\ NoOps(queue'[q], d)
                                          /\ st'[q] \in {"forked", "wait", "program"} => serving'[q] # d
    BY DEF Opened
  <2>1. /\ got[d] = << >> /\ got'[d] = got[d] /\ NoOps(queue'[p], d) /\ serving'[p] # d
        /\ \A q \in Procs : /\ sess[q][d] = "closed" /\ NoOps(queue[q], d)
                            /\ st[q] \in {"forked", "wait", "program"} => serving[q] # d
    BY <1>0 DEF Opened
  <2> QED
    BY <1>1, <2>1
<1>5. ASSUME NEW d \in Clients \ raced' PROVE Life(d)'
  <2>1. d \in Clients \ raced /\ Life(d) /\ conn'[d] = conn[d]
    BY DEF AnswerInv
  <2> DEFINE S == {p}
  <2>2. /\ S \subseteq Procs \ {Main}
        /\ \A q \in Procs \ S : /\ st'[q] = st[q] /\ serving'[q] = serving[q]
                                /\ queue'[q] = queue[q] /\ sess'[q][d] = sess[q][d]
        /\ \A q \in S : ServedBy(d, q) => InChild(d, q)'
        /\ \A q \in S : ~ServedBy(d, q) => /\ OnlyReads(queue'[q], d)
                                           /\ st'[q] \in {"forked", "program"} => serving'[q] # d
        /\ \/ got'[d] = got[d]
           \/ \E q \in S : ServedBy(d, q) /\ got'[d] \in {<< >>, <<Status>>, Answer(d)}
    BY <1>1, <2>1
  <2> HIDE DEF S
  <2> QED
    BY <1>0, <2>1, <2>2, LifeApart, Zenon
<1> QED
  BY <1>2, <1>3, <1>4, <1>5 DEF AnswerInv

\* What the child of a fork is about: the client it serves, and no other.
LEMMA ChildServes ==
    ASSUME Inv, AnswerInv, NEW p \in Procs, st[p] \in {"forked", "program"}
    PROVE  /\ p # Main /\ serving[p] \in Clients /\ conn[serving[p]] = "accepted"
           /\ \A d \in Clients \ raced : /\ ServedBy(d, p) => serving[p] = d /\ InChild(d, p)
                                         /\ ~ServedBy(d, p) => serving[p] # d /\ OnlyReads(queue[p], d)
<1>1. p # Main /\ serving[p] \in Clients
  BY DEF Inv, MainServes, Serves
<1>2. Opened
  BY DEF AnswerInv
<1>3. conn[serving[p]] = "accepted"
  BY <1>1, <1>2 DEF Opened
<1>4. ASSUME NEW d \in Clients \ raced
      PROVE  /\ ServedBy(d, p) => serving[p] = d /\ InChild(d, p)
             /\ ~ServedBy(d, p) => serving[p] # d /\ OnlyReads(queue[p], d)
  <2>1. Life(d)
    BY DEF AnswerInv
  <2>2. ASSUME ServedBy(d, p) PROVE serving[p] = d /\ InChild(d, p)
    <3>1. InChild(d, p)
      BY <1>2, <2>1, <2>2, ServedInChild DEF ServedBy
    <3> QED
      BY <3>1 DEF InChild
  <2>3. ~ServedBy(d, p) => serving[p] # d /\ OnlyReads(queue[p], d)
    BY <1>1, <2>1 DEF Life, Elsewhere, ServedBy
  <2> QED
    BY <2>2, <2>3
<1> QED
  BY <1>1, <1>3, <1>4

\* The child sends the status line, or ends because there is no such program.
LEMMA ChildLife ==
    ASSUME Inv, AnswerInv, NEW k \in Procs, ChildStarts(k)
    PROVE  AnswerInv'
<1> DEFINE c == serving[k]
           q == queue[k]
<1>1. /\ st[k] = "forked" /\ Grows /\ reset' = reset
      /\ UNCHANGED <<serving, child, conn, backlog, raced, program>>
  BY DEF ChildStarts, client, history, Grows
<1>2. /\ k # Main /\ c \in Clients /\ conn[c] = "accepted" /\ q \in Seq(Ops)
      /\ \A d \in Clients \ raced : /\ ServedBy(d, k) => c = d /\ InChild(d, k)
                                    /\ ~ServedBy(d, k) => c # d /\ OnlyReads(q, d)
  BY <1>1, ChildServes DEF Inv, TypeOK
<1>3. \A d \in Clients \ raced : got[d] \in {<< >>, <<Status>>, Answer(d)}
  BY DEF AnswerInv, Life
<1>4. CASE program[c] = "missing" /\ Stop(k) /\ UNCHANGED got
  <2>1. ASSUME NEW d \in Clients \ raced, ServedBy(d, k) PROVE Finished(d)'
    BY <1>1, <1>2, <1>4, <2>1 DEF Finished
  <2> QED
    BY <1>1, <1>3, <1>4, <2>1, DeathLife DEF Stop
<1>5. CASE /\ st' = Set(st, k, "loop") /\ sess' = sess
           /\ queue' = [queue EXCEPT ![k] = Append(@, IF c \in reset THEN <<"error", c>> ELSE <<"write", c>>)]
           /\ got' = IF c \in reset THEN got ELSE [got EXCEPT ![c] = Append(@, Status)]
  <2>0. st'[k] = "loop"
    BY <1>5 DEF Set, Inv, TypeOK
  <2>1. PICK kind \in {"error", "write"} :
          /\ kind = IF c \in reset THEN "error" ELSE "write"
          /\ queue' = [queue EXCEPT ![k] = Append(q, <<kind, c>>)]
    BY <1>5
  <2>2. queue'[k] = Append(q, <<kind, c>>) /\ \A r \in Procs \ {k} : queue'[r] = queue[r]
    BY <2>1 DEF Inv, TypeOK
  <2>3. kind \in Calls
    BY DEF Calls
  <2>4. /\ \A d \in Clients \ {c} : /\ NoOps(q, d) => NoOps(queue'[k], d)
                                    /\ OnlyReads(q, d) => OnlyReads(queue'[k], d)
        /\ NoOps(q, c) => OneOp(queue'[k], c, kind)
        /\ NoWrites(q) /\ kind # "write" => NoWrites(queue'[k])
    BY <1>2, <2>2, <2>3, AppendAbout
  <2>5. \A d \in Clients \ {c} : got'[d] = got[d]
    BY <1>2, <1>5 DEF Inv, TypeOK
  <2>6. got[c] = << >> => got'[c] = IF c \in reset THEN << >> ELSE <<Status>>
    BY <1>2, <1>5 DEF Inv, TypeOK
  <2>7. ASSUME NEW d \in Clients, conn[d] # "accepted"
        PROVE  got'[d] = got[d] /\ NoOps(queue'[k], d) /\ serving'[k] # d
    <3>1. d \in Clients \ {c} /\ NoOps(q, d)
      BY <1>2, <2>7 DEF AnswerInv, Opened
    <3> QED
      BY <1>1, <2>4, <2>5, <3>1
  <2>8. ASSUME NEW d \in Clients \ raced, ServedBy(d, k)
        PROVE  InChild(d, k)' /\ got'[d] \in {<< >>, <<Status>>, Answer(d)}
    <3>1. c = d /\ InChild(d, k)
      BY <1>2, <2>8
    <3>2. got[d] = << >> /\ sess[k][d] # "reading"
      BY <1>1, <3>1 DEF InChild
    <3>3. NoOps(q, d) /\ NoWrites(q) /\ OnlyOthers(q, Around(d)')
      BY <1>1, <3>1, AroundKept DEF InChild
    <3>4. CASE d \in reset
      <4>1. kind = "error" /\ got'[d] = << >>
        BY <2>1, <2>6, <3>1, <3>2, <3>4
      <4>2. OneOp(queue'[k], d, "error") /\ NoWrites(queue'[k])
        BY <2>4, <3>1, <3>3, <4>1
      <4> QED
        BY <1>1, <1>5, <2>0, <3>2, <3>4, <4>1, <4>2 DEF InChild
    <3>5. CASE d \notin reset
      <4>1. kind = "write" /\ got'[d] = <<Status>>
        BY <2>1, <2>6, <3>1, <3>2, <3>5
      <4>2. OneWrite(queue'[k], d, Around(d)')
        BY <1>2, <2>2, <3>1, <3>3, <4>1, WriteAdded
      <4> QED
        BY <1>5, <2>0, <3>2, <4>1, <4>2 DEF InChild
    <3> QED
      BY <3>4, <3>5
  <2>9. ASSUME NEW d \in Clients \ raced, ~ServedBy(d, k)
        PROVE  OnlyReads(queue'[k], d) /\ serving'[k] # d /\ got'[d] = got[d]
    BY <1>1, <1>2, <2>4, <2>5, <2>9
  <2> HIDE DEF c, q
  <2> QED
    BY <1>1, <1>2, <1>5, <2>2, <2>7, <2>8, <2>9, ProcessGoesOn
<1> QED
  BY <1>4, <1>5 DEF ChildStarts

\* The status line was sent, and the program is executed if it can be.
LEMMA WriteLife ==
    ASSUME Inv, AnswerInv, NEW p \in Procs, RunWrite(p)
    PROVE  AnswerInv'
<1> DEFINE c == Head(queue[p])[2]
<1>1. /\ Turn(p, "write") /\ Grows /\ "write" \in Calls /\ Opened
      /\ UNCHANGED <<child, conn, backlog, got, raced, program>>
  BY DEF RunWrite, client, history, Grows, Calls, AnswerInv
<1>2. /\ st[p] = "loop" /\ c \in Clients /\ conn[c] = "accepted" /\ p # Main
  BY <1>1, HeadAbout, TurnTaken
<1>3. \A d \in Clients \ raced : got[d] \in {<< >>, <<Status>>, Answer(d)}
  BY DEF AnswerInv, Life
<1>4. ASSUME NEW d \in Clients \ raced
      PROVE  /\ ServedBy(d, p) <=> d = c
             /\ d = c => got[d] = <<Status>>
  <2>1. Life(d)
    BY DEF AnswerInv
  <2>2. CASE d = c
    BY <1>1, <1>2, <2>1, <2>2, OtherHead
  <2>3. CASE d # c
    BY <1>1, <1>2, <2>1, <2>3, ServedTurn
  <2> QED
    BY <2>2, <2>3
<1>5. CASE program[c] = "broken" /\ Stop(p) /\ UNCHANGED serving
  <2>1. ASSUME NEW d \in Clients \ raced, ServedBy(d, p) PROVE Finished(d)'
    BY <1>1, <1>4, <1>5, <2>1 DEF Finished
  <2> QED
    BY <1>1, <1>2, <1>3, <1>5, <2>1, DeathLife DEF Stop
<1>6. CASE /\ st' = Set(st, p, "program") /\ queue' = Set(queue, p, << >>)
           /\ serving' = Set(serving, p, c) /\ UNCHANGED sess
  <2>1. /\ queue'[p] = << >> /\ serving'[p] = c /\ st'[p] = "program"
        /\ \A q \in Procs \ {p} : serving'[q] = serving[q] /\ queue'[q] = queue[q]
    BY <1>6 DEF Set, Inv, TypeOK
  <2>2. \A d \in Clients : NoOps(<< >>, d) /\ OnlyReads(<< >>, d)
    BY NotAbout
  <2>3. ASSUME NEW d \in Clients, conn[d] # "accepted"
        PROVE  got'[d] = got[d] /\ NoOps(queue'[p], d) /\ serving'[p] # d
    BY <1>1, <1>2, <2>1, <2>2, <2>3
  <2>4. ASSUME NEW d \in Clients \ raced, ServedBy(d, p)
        PROVE  InChild(d, p)' /\ got'[d] \in {<< >>, <<Status>>, Answer(d)}
    <3>1. d = c /\ got'[d] = <<Status>>
      BY <1>1, <1>4, <2>4
    <3>2. Life(d)
      BY DEF AnswerInv
    <3>3. InChild(d, p)
      BY <1>1, <2>4, <3>2, ServedInChild DEF ServedBy
    <3>4. sess'[p][d] # "reading"
      BY <1>6, <3>3 DEF InChild
    <3> QED
      BY <2>1, <3>1, <3>4 DEF InChild
  <2>5. ASSUME NEW d \in Clients \ raced, ~ServedBy(d, p)
        PROVE  OnlyReads(queue'[p], d) /\ serving'[p] # d /\ got'[d] = got[d]
    BY <1>1, <1>4, <2>1, <2>2, <2>5
  <2> HIDE DEF c
  <2> QED
    BY <1>1, <1>2, <1>6, <2>1, <2>3, <2>4, <2>5, ProcessGoesOn
<1> QED
  BY <1>5, <1>6 DEF RunWrite

\* The program has written its output and ends.
LEMMA ProgramLife ==
    ASSUME Inv, AnswerInv, NEW p \in Procs, ProgramEnds(p)
    PROVE  AnswerInv'
<1> DEFINE c == serving[p]
<1>1. /\ st[p] = "program" /\ Grows /\ Dies(p)
      /\ got' = [got EXCEPT ![c] = Append(@, Output(c))]
      /\ UNCHANGED <<serving, child, conn, backlog, raced>>
  BY DEF ProgramEnds, client, history, Grows
<1>2. /\ p # Main /\ c \in Clients /\ conn[c] = "accepted"
      /\ \A d \in Clients \ raced : /\ ServedBy(d, p) => c = d /\ InChild(d, p)
                                    /\ ~ServedBy(d, p) => c # d
  BY <1>1, ChildServes
<1>3. \A d \in Clients : d # c => got'[d] = got[d]
  BY <1>1, <1>2 DEF Inv, TypeOK
<1>4. ASSUME NEW d \in Clients \ raced, ServedBy(d, p)
      PROVE  Finished(d)' /\ got'[d] \in {<< >>, <<Status>>, Answer(d)}
  <2>1. c = d /\ got[d] = <<Status>>
    BY <1>1, <1>2, <1>4 DEF InChild
  <2>2. got'[d] = Append(got[d], Output(d))
    BY <1>1, <2>1 DEF Inv, TypeOK
  <2>3. got'[d] = Answer(d)
    BY <2>1, <2>2, AppendPair DEF Answer
  <2> QED
    BY <2>3 DEF Finished, Answer
<1> HIDE DEF c
<1> QED
  BY <1>1, <1>2, <1>3, <1>4, DeathLife

\* waitpid returns: the session of the child that has ended is closed.
LEMMA WaitLife ==
    ASSUME Inv, AnswerInv, NEW p \in Procs, Waitpid(p)
    PROVE  AnswerInv'
<1> DEFINE c == serving[p]
           k == p + 1
<1>0. Chain /\ Opened /\ Waiting /\ Main \in Procs
  BY OpTypes DEF AnswerInv
<1>1. /\ st[p] = "wait" /\ st[child[p]] = "dead"
      /\ st' = [st EXCEPT ![p] = "loop", ![child[p]] = "none"]
      /\ sess' = [sess EXCEPT ![p][c] = "closed"]
      /\ UNCHANGED <<serving, child, queue, conn, backlog, got, raced>> /\ Grows /\ reset' = reset
  BY DEF Waitpid, client, history, Grows
<1>2. child[p] = k /\ k \in Procs /\ Chain'
  BY <1>0, <1>1, ChainWaits
<1>3. k # p /\ k # Main /\ (p # Main => k # Main + 1) /\ (p = Main => k = Main + 1)
  BY <1>2 DEF Procs, Main
<1> HIDE DEF k
<1>4. c \in Clients
  BY <1>1 DEF Inv, Serves
<1> HIDE DEF c
<1>5. /\ st'[p] = "loop" /\ st'[k] = "none" /\ st[k] = "dead"
      /\ \A q \in Procs \ {p, k} : st'[q] = st[q]
  BY <1>1, <1>2, <1>3 DEF Inv, TypeOK
<1>6. /\ sess'[p][c] = "closed" /\ \A d \in Clients \ {c} : sess'[p][d] = sess[p][d]
      /\ \A q \in Procs \ {p} : sess'[q] = sess[q]
  BY <1>1, <1>4 DEF Inv, TypeOK
<1>7. Waiting'
  BY <1>0, <1>1 DEF Waiting
<1>8. Opened'
  <2> SUFFICES ASSUME NEW d \in Clients, conn'[d] # "accepted", NEW q \in Procs
               PROVE  /\ got'[d] = << >> /\ sess'[q][d] = "closed" /\ NoOps(queue'[q], d)
                      /\ st'[q] \in {"forked", "wait", "program"} => serving'[q] # d
    BY <1>0 DEF Opened
  <2>1. /\ got[d] = << >> /\ sess[q][d] = "closed" /\ NoOps(queue[q], d)
        /\ st[q] \in {"forked", "wait", "program"} => serving[q] # d
    BY <1>0, <1>1 DEF Opened
  <2>2. sess'[q][d] = "closed"
    BY <1>6, <2>1
  <2>3. st'[q] \in {"forked", "wait", "program"} => st'[q] = st[q]
    BY <1>5
  <2> QED
    BY <1>1, <2>1, <2>2, <2>3
<1>9. ASSUME NEW d \in Clients \ raced' PROVE Life(d)'
  <2>1. Life(d) /\ conn'[d] = conn[d] /\ got'[d] = got[d] /\ (Finished(d) => Finished(d)')
    BY <1>1, FinishedKept DEF AnswerInv
  <2>2. CASE p = Main
    <3>1. Elsewhere(d)'
      <4> SUFFICES ASSUME NEW q \in Procs \ {Main}
                   PROVE  OnlyReads(queue'[q], d) /\ (st'[q] \in {"forked", "program"} => serving'[q] # d)
        BY DEF Elsewhere
      <4>1. st'[q] \in {"forked", "program"} => st'[q] = st[q] /\ q # k
        BY <1>5
      <4>2. CASE ServedBy(d, q)
        <5>1. q = k /\ InChild(d, k)
          BY <1>0, <1>3, <2>1, <2>2, <4>2, ServedInChild DEF ServedBy
        <5>2. queue'[q] = << >>
          BY <1>1, <1>5, <5>1 DEF InChild
        <5> QED
          BY <4>1, <5>1, <5>2, NotAbout
      <4>3. CASE ~ServedBy(d, q)
        BY <1>1, <2>1, <4>1, <4>3 DEF Life, Elsewhere, ServedBy
      <4> QED
        BY <4>2, <4>3
    <3>2. ASSUME conn'[d] = "accepted" PROVE AtServer(d)'
      <4>1. AtServer(d) /\ queue' = queue /\ st[Main] = "wait" /\ serving[Main] = c /\ st'[Main] = "loop"
        BY <1>1, <1>5, <2>1, <2>2, <3>2 DEF Life, c
      <4>2. CASE d = c
        <5>1. NoOps(queue[Main], d) /\ InChild(d, k)
          BY <1>0, <1>3, <2>1, <2>2, <4>1, <4>2, ServedInChild
        <5>2. Finished(d)'
          BY <1>5, <2>1, <5>1 DEF InChild
        <5>3. sess'[Main][d] = "closed"
          BY <1>6, <2>2, <4>2
        <5> QED
          BY <4>1, <5>1, <5>2, <5>3 DEF AtServer
      <4>3. CASE d # c
        <5>1. d \in Clients \ {c}
          BY <4>3
        <5>2. sess'[Main][d] = sess[Main][d]
          BY <1>6, <2>2, <5>1
        <5> QED
          BY <2>1, <4>1, <4>3, <5>2 DEF AtServer
      <4> QED
        BY <4>2, <4>3
    <3> QED
      BY <2>1, <3>1, <3>2 DEF Life
  <2>3. CASE p # Main
    <3>1. ServedBy(d, p) => InChild(d, p)'
      <4> SUFFICES ASSUME ServedBy(d, p) PROVE InChild(d, p)'
        OBVIOUS
      <4>1. InChild(d, p)
        BY <1>0, <2>1, ServedInChild DEF ServedBy
      <4>2. /\ NoOps(queue[p], d) /\ NoWrites(queue[p]) /\ c # d /\ d \in reset /\ got[d] = << >>
            /\ sess[p][d] # "reading"
        BY <1>1, <4>1 DEF InChild, c
      <4>3. sess'[p][d] = sess[p][d]
        BY <1>6, <4>2
      <4> QED
        BY <1>1, <1>5, <2>1, <4>2, <4>3 DEF InChild
    <3>2. ~ServedBy(d, k)
      BY <1>3, <2>3 DEF ServedBy
    <3> DEFINE S == {p, k}
    <3>3. S \subseteq Procs \ {Main}
      BY <1>2, <1>3, <2>3
    <3>4. \A q \in Procs \ S : /\ st'[q] = st[q] /\ serving'[q] = serving[q]
                               /\ queue'[q] = queue[q] /\ sess'[q][d] = sess[q][d]
      BY <1>1, <1>5, <1>6
    <3>5. ASSUME NEW q \in S, ~ServedBy(d, q)
          PROVE  /\ OnlyReads(queue'[q], d)
                 /\ st'[q] \in {"forked", "program"} => serving'[q] # d
      <4>1. q \in Procs \ {Main} /\ queue'[q] = queue[q] /\ st'[q] \notin {"forked", "program"}
        BY <1>1, <1>5, <3>3, <3>5
      <4>2. OnlyReads(queue[q], d)
        BY <2>1, <3>5, <4>1 DEF Life, Elsewhere, ServedBy
      <4> QED
        BY <4>1, <4>2
    <3>6. \A q \in S : ServedBy(d, q) => InChild(d, q)'
      BY <3>1, <3>2
    <3> HIDE DEF S
    <3> QED
      BY <1>0, <1>1, <2>1, <3>3, <3>4, <3>5, <3>6, LifeApart, Zenon
  <2> QED
    BY <2>2, <2>3
<1> QED
  BY <1>2, <1>7, <1>8, <1>9 DEF AnswerInv

\* What the clients do.
LEMMA ClientLife ==
    ASSUME Inv, AnswerInv, NEW c \in Clients, Connect(c) \/ Send(c) \/ Close(c) \/ Reset(c)
    PROVE  AnswerInv'
<1>0. Chain /\ Opened /\ Waiting
  BY DEF AnswerInv
<1>1. UNCHANGED <<st, serving, child, queue, sess, got, raced>> /\ Grows
  BY DEF Connect, Send, Close, Reset, procs, client, history, Grows
<1>2. Chain'
  BY <1>0, <1>1 DEF Chain
<1>3. ASSUME NEW d \in Clients, conn'[d] = conn[d], Life(d) PROVE Life(d)'
  <2> DEFINE S == {}
  <2>1. /\ S \subseteq Procs \ {Main}
        /\ \A q \in Procs \ S : /\ st'[q] = st[q] /\ serving'[q] = serving[q]
                                /\ queue'[q] = queue[q] /\ sess'[q][d] = sess[q][d]
        /\ \A q \in S : ServedBy(d, q) => InChild(d, q)'
        /\ \A q \in S : ~ServedBy(d, q) => /\ OnlyReads(queue'[q], d)
                                           /\ st'[q] \in {"forked", "program"} => serving'[q] # d
    BY <1>1
  <2>2. got'[d] = got[d]
    BY <1>1
  <2> HIDE DEF S
  <2> QED
    BY <1>0, <1>1, <1>3, <2>1, <2>2, LifeApart, Zenon
<1>4. CASE Connect(c)
  <2>1. /\ conn[c] = "off" /\ conn'[c] = "waiting" /\ backlog' = Append(backlog, c)
        /\ \A d \in Clients \ {c} : conn'[d] = conn[d]
    BY <1>4 DEF Connect, Set, Inv, TypeOK
  <2>2. /\ backlog \in Seq(Clients) /\ Len(backlog) \in Nat
        /\ \A i \in 1 .. Len(backlog) : backlog[i] \in Clients /\ backlog[i] # c
    BY <1>0, <2>1 DEF Inv, TypeOK, Waiting
  <2>3. /\ Len(backlog') = Len(backlog) + 1
        /\ \A i \in 1 .. Len(backlog') : \/ i = Len(backlog) + 1 /\ backlog'[i] = c
                                         \/ i \in 1 .. Len(backlog) /\ backlog'[i] = backlog[i]
    BY <2>1, <2>2, AppendElements
  <2>4. Waiting'
    <3>1. \A i \in 1 .. Len(backlog') : conn'[backlog'[i]] = "waiting"
      BY <1>0, <2>1, <2>2, <2>3 DEF Waiting
    <3>2. \A i, j \in 1 .. Len(backlog') : backlog'[i] = backlog'[j] => i = j
      BY <1>0, <2>2, <2>3 DEF Waiting
    <3> QED
      BY <3>1, <3>2 DEF Waiting
  <2>5. Opened'
    <3> SUFFICES ASSUME NEW d \in Clients, conn'[d] # "accepted"
                 PROVE  conn[d] # "accepted"
      BY <1>0, <1>1 DEF Opened
    <3> QED
      BY <2>1
  <2>6. ASSUME NEW d \in Clients \ raced' PROVE Life(d)'
    <3>1. Life(d)
      BY <1>1 DEF AnswerInv
    <3>2. CASE d # c
      BY <1>3, <2>1, <3>1, <3>2
    <3>3. CASE d = c
      BY <1>1, <2>1, <3>1, <3>3 DEF Life, Elsewhere
    <3> QED
      BY <3>2, <3>3
  <2> QED
    BY <1>2, <2>4, <2>5, <2>6 DEF AnswerInv
<1>5. CASE Send(c) \/ Close(c) \/ Reset(c)
  <2>1. conn' = conn /\ backlog' = backlog
    BY <1>5 DEF Send, Close, Reset
  <2>2. Opened' /\ Waiting'
    BY <1>0, <1>1, <2>1 DEF Opened, Waiting
  <2>3. ASSUME NEW d \in Clients \ raced' PROVE Life(d)'
    BY <1>1, <1>3, <2>1 DEF AnswerInv
  <2> QED
    BY <1>2, <2>2, <2>3 DEF AnswerInv
<1> QED
  BY <1>4, <1>5

\* At the start no client is connected and no queue has a callback.
LEMMA AnswerInit == Init => AnswerInv
<1> SUFFICES ASSUME Init PROVE AnswerInv
  OBVIOUS
<1>0. Main \in Procs /\ \A p \in Procs : p \in Int /\ ~(p < Main)
  BY OpTypes DEF Procs, Main
<1>1. /\ \A p \in Procs : /\ p # Main => st[p] = "none" /\ queue[p] = << >>
                          /\ st[p] \notin {"forked", "wait", "program"}
      /\ st[Main] = "loop" /\ queue[Main] = <<Poll>>
  BY <1>0 DEF Init
<1>2. /\ \A p \in Procs, c \in Clients : sess[p][c] = "closed"
      /\ \A c \in Clients : conn[c] = "off" /\ got[c] = << >>
      /\ backlog = << >>
  BY DEF Init
<1>3. \A p \in Procs, c \in Clients : NoOps(queue[p], c)
  BY <1>1, NotAbout
<1>4. Chain
  BY <1>0, <1>1 DEF Chain
<1>5. Opened /\ Waiting
  BY <1>1, <1>2, <1>3 DEF Opened, Waiting
<1>6. ASSUME NEW c \in Clients PROVE Life(c)
  <2>1. Elsewhere(c)
    BY <1>1, NotAbout DEF Elsewhere
  <2> QED
    BY <1>2, <2>1 DEF Life
<1> QED
  BY <1>4, <1>5, <1>6 DEF AnswerInv

\* Every step of Next keeps the second invariant: one lemma for each action.
LEMMA AnswerNext == Inv /\ AnswerInv /\ [Next]_vars => AnswerInv'
<1> SUFFICES ASSUME Inv, AnswerInv, [Next]_vars PROVE AnswerInv'
  OBVIOUS
<1>1. ASSUME NEW p \in Procs, RunAccept(p) PROVE AnswerInv'
  <2>1. CASE backlog # << >>
    BY <1>1, <2>1, RunAcceptLife
  <2>2. CASE backlog = << >>
    <3>1. /\ Turn(p, "accept") /\ queue' = Set(queue, p, Rest(p))
          /\ UNCHANGED <<procs, sess, conn, backlog, client, inq, got, history>>
      BY <1>1, <2>2 DEF RunAccept
    <3> QED
      BY <3>1, NothingLife
  <2> QED
    BY <2>1, <2>2
<1>2. ASSUME NEW p \in Procs, Step(p) PROVE AnswerInv'
  BY <1>1, <1>2, PollLife, RunAcceptedLife, RunReadLife, RunDoneLife, RunErrorLife,
     ChildLife, WriteLife, ProgramLife, WaitLife DEF Step
<1>3. ASSUME UNCHANGED vars PROVE AnswerInv'
  <2>1. UNCHANGED <<st, serving, child, queue, sess, got, raced, crowded, conn, backlog, program,
                    gone, reset, refused>>
    BY <1>3 DEF vars, procs, client, history
  <2>2. Chain' /\ Opened' /\ Waiting'
    BY <2>1 DEF AnswerInv, Chain, Opened, Waiting
  <2>3. \A c \in Clients : Life(c)' <=> Life(c)
    BY <2>1 DEF Life, AtServer, Elsewhere, InChild, Finished, Around
  <2> QED
    BY <2>1, <2>2, <2>3 DEF AnswerInv
<1> QED
  BY <1>2, <1>3, ClientLife DEF Next

\* What a client has received, by the second invariant, is a part of its answer.
LEMMA AnswerPrefixes ==
    ASSUME NEW c
    PROVE  /\ IsPrefix(<< >>, Answer(c)) /\ IsPrefix(<<Status>>, Answer(c))
           /\ IsPrefix(Answer(c), Answer(c))
<1> DEFINE out == Output(c)
           S == {Status, out}
<1>1. Answer(c) = <<Status, out>>
  BY DEF Answer
<1> HIDE DEF out
<1>2. /\ <<Status, out>> \in Seq(S) /\ Len(<<Status, out>>) = 2 /\ <<Status, out>>[1] = Status
      /\ <<Status>> \in Seq(S) /\ Len(<<Status>>) = 1 /\ <<Status>>[1] = Status /\ Len(<< >>) = 0
  OBVIOUS
<1>3. SubSeq(<< >>, 1, 0) = SubSeq(<<Status, out>>, 1, 0)
  OBVIOUS
<1>4. SubSeq(<<Status>>, 1, 1) = SubSeq(<<Status, out>>, 1, 1)
  OBVIOUS
<1> QED
  BY <1>1, <1>2, <1>3, <1>4 DEF IsPrefix

\* The second invariant says what was to be shown of a connection that has ended.
LEMMA AnswerRight == Inv /\ AnswerInv => RightAnswer
<1> SUFFICES ASSUME Inv, AnswerInv, NEW c \in Clients \ raced
             PROVE  /\ IsPrefix(got[c], Answer(c))
                    /\ Ended(c) /\ st[Main] # "dead" /\ c \in sent \ (gone \cup reset) =>
                         \/ got[c] = Answer(c)
                         \/ c \in refused \/ program[c] \in {"missing", "broken"}
                         \/ c \in crowded /\ raced \cap reset # {}
  BY DEF RightAnswer
<1>1. Life(c) /\ Main \in Procs /\ st[Main] \in {"loop", "wait", "dead"}
  BY OpTypes DEF AnswerInv, Inv, MainServes
<1>2. IsPrefix(got[c], Answer(c))
  BY <1>1, AnswerPrefixes DEF Life
<1>3. ASSUME Ended(c), st[Main] # "dead", c \notin gone \cup reset
      PROVE  \/ got[c] = Answer(c)
             \/ c \in refused \/ program[c] \in {"missing", "broken"}
             \/ c \in crowded /\ raced \cap reset # {}
  <2>1. conn[c] = "accepted" /\ sess[Main][c] = "closed"
    BY <1>1, <1>3 DEF Ended, Holds
  <2>2. Finished(c)
    BY <1>1, <1>3, <2>1 DEF Life, AtServer
  <2> QED
    BY <1>3, <2>2 DEF Finished
<1> QED
  BY <1>2, <1>3

\* Every client whose connection no fork found in the queue and no child took gets
\* the status line and then the output of its own program, once and in that order.
\* If its connection ends while the server lives and the client has not left, it has
\* all of it, unless fork() failed, the program is missing or cannot be executed, or
\* its child found requests of others in its queue and one of them was reset
\* (cgi_session.cpp:75, 96-135).
THEOREM AnswersAreRight == Spec => []RightAnswer
BY InvHolds, InvNext, AnswerInit, AnswerNext, AnswerRight, PTL DEF Spec
=============================================================================
