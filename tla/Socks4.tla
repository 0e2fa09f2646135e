------------------------------- MODULE Socks4 -------------------------------
(***************************************************************************)
(* The SOCKS 4 server of project 4: Socks4Server accepts and forks, and a  *)
(* Socks4Handler in the child reads the request, asks the firewall,        *)
(* connects or waits for a connection, replies and relays both ways.       *)
(*                                                                         *)
(* A child has one thread.  connect, accept and write_some block it; a     *)
(* relay is a chain of async_wait callbacks in each direction.  The four   *)
(* byte streams of a session are queues of units of bounded capacity.      *)
(* Clients and destinations are external; a destination is a program that  *)
(* sends back what it receives and handles one unit at a time.             *)
(***************************************************************************)
EXTENDS Integers, Sequences, FiniteSets, Firewall

CONSTANTS
    Clients,
    Requests,       \* the requests each client may send, with the number of
                    \* units of data that follow (a bound)
    Conf,           \* socks.conf
    Dns,            \* domain name -> address, or None
    Reachable,      \* the addresses that accept connections
    Capacity,       \* units a connection holds before write_some blocks
    MaxProcs,       \* processes there can be before fork() fails
    None,
    Granted, Rejected,  \* the replies
    Rest            \* the second half of a request

ASSUME BoundsAssumption == Capacity \in Nat \ {0} /\ MaxProcs \in Nat
ASSUME RequestsAssumption ==
    \A c \in Clients : \A r \in Requests[c] :
        /\ r.command \in {"CONNECT", "BIND", "other"} /\ r.data \in Nat
        /\ r.seg \in {"whole", "split", "early"}
        /\ r.seg = "early" => r.data > 0

VARIABLES
    up,        \* the listening process is alive
    armed,     \* async_accept is pending
    pc,        \* where each client's connection is
    req,       \* the request the client sent
    hdr,       \* the header the handler read
    remote,    \* whom remoteSocket is connected to
    link,      \* link[c][s] = what stream s holds
    fin,       \* the streams that have been shut down by their sender
    dir,       \* the relay chains: waiting or ended
    writing,   \* the chain that is in write_some, and its unit
    sent,      \* number of units the client sent (bounded by req.data)
    held,      \* the unit the destination has to send back
    got,       \* all the client received
    arrived,   \* all the destination received
    gone,      \* the client closed its socket
    rgone      \* the destination closed its socket

control == <<pc, req, hdr, remote>>
streams == <<link, fin>>
relay == <<dir, writing>>
ends == <<sent, held, got, arrived, gone, rgone>>
vars == <<up, armed, control, streams, relay, ends>>

Streams == {"cp", "pr", "rp", "pc"}     \* client, proxy, remote
Replies == {Granted, Rejected}
Data == Nat \cup {Rest}                  \* what a client sends
Items == Replies \cup Data
Peer == <<"peer">>                       \* whoever connects to a BIND port
Alive(c) == pc[c] \in {"wait", "connect", "accept", "relay", "idle"}

AllRequests == UNION {Requests[c] : c \in Clients}
Headers == {[command |-> r.command, dst |-> r.dst] : r \in AllRequests}
Writes == [d : {"up", "down"}, item : Data]

ASSUME ValuesAssumption ==
    /\ Granted # Rejected /\ Rest \notin Replies
    /\ Granted \notin Nat /\ Rejected \notin Nat
    /\ None \notin Items /\ None # Peer
    /\ None \notin AllRequests /\ None \notin Headers /\ None \notin Writes

TypeOK ==
    /\ up \in BOOLEAN /\ armed \in BOOLEAN
    /\ pc \in [Clients -> {"off", "queued", "wait", "connect", "accept", "relay", "idle", "dead"}]
    /\ req \in [Clients -> AllRequests \cup {None}]
    /\ \A c \in Clients : req[c] # None => req[c] \in Requests[c] /\ sent[c] <= req[c].data
    /\ hdr \in [Clients -> Headers \cup {None}]
    /\ remote \in [Clients -> Reachable \cup {Peer, None}]
    /\ link \in [Clients -> [Streams -> Seq(Items)]]
    /\ fin \in [Clients -> SUBSET Streams]
    /\ dir \in [Clients -> [{"up", "down"} -> {"off", "wait", "done"}]]
    /\ writing \in [Clients -> Writes \cup {None}]
    /\ sent \in [Clients -> Nat] /\ held \in [Clients -> Data \cup {None}]
    /\ got \in [Clients -> Seq(Items)] /\ arrived \in [Clients -> Seq(Data)]
    /\ gone \in [Clients -> BOOLEAN] /\ rgone \in [Clients -> BOOLEAN]

Init ==
    /\ up = TRUE /\ armed = TRUE
    /\ pc = [c \in Clients |-> "off"]
    /\ req = [c \in Clients |-> None] /\ hdr = [c \in Clients |-> None]
    /\ remote = [c \in Clients |-> None]
    /\ link = [c \in Clients |-> [s \in Streams |-> << >>]]
    /\ fin = [c \in Clients |-> {}]
    /\ dir = [c \in Clients |-> [d \in {"up", "down"} |-> "off"]]
    /\ writing = [c \in Clients |-> None]
    /\ sent = [c \in Clients |-> 0] /\ held = [c \in Clients |-> None]
    /\ got = [c \in Clients |-> << >>] /\ arrived = [c \in Clients |-> << >>]
    /\ gone = [c \in Clients |-> FALSE] /\ rgone = [c \in Clients |-> FALSE]

Set(f, c, v) == [f EXCEPT ![c] = v]
Put(l, c, s, x) == [l EXCEPT ![c][s] = Append(@, x)]

\* A sender does not block.
Room(c, s) == Len(link[c][s]) < Capacity

-----------------------------------------------------------------------------
(* Socks4Server: accept and fork.                                          *)

\* Mutant: the parent does not call run() again.
RearmedNot == FALSE
Rearmed == TRUE

\* The callback of async_accept.  When fork() fails the server exits.
Accept(c) ==
    /\ up /\ armed /\ pc[c] = "queued"
    /\ \/ /\ Cardinality({d \in Clients : Alive(d)}) < MaxProcs
          /\ pc' = Set(pc, c, "wait") /\ armed' = Rearmed
          /\ UNCHANGED <<up, fin>>
       \/ /\ Cardinality({d \in Clients : Alive(d)}) >= MaxProcs
          /\ up' = FALSE /\ UNCHANGED armed
          /\ pc' = Set(pc, c, "dead") /\ fin' = [fin EXCEPT ![c] = @ \cup {"pc"}]
    /\ UNCHANGED <<req, hdr, remote, link, relay, ends>>

-----------------------------------------------------------------------------
(* Socks4Handler: the request.                                             *)

\* The handler is destroyed, or the process ends: its sockets are closed.
Over(c, l) == /\ pc' = Set(pc, c, l)
              /\ fin' = [fin EXCEPT ![c] = @ \cup {"pc", "pr"}]
              /\ writing' = Set(writing, c, None)

\* The header in the buffer after one read_some.  When only a part of the
\* request has arrived, the rest of the buffer is not initialised.
HeaderRead(r, h) == r.seg # "split" => h = [command |-> r.command, dst |-> r.dst]

\* A destination 0.0.0.x is resolved by name.
ResolveEndpoint(dst) == IF dst \in DOMAIN Dns THEN Dns[dst] ELSE dst

\* handleRead up to the command.  read_some and resolve throw out of
\* context.run(), and the process ends; for a client that has closed its socket,
\* so do remote_endpoint and the reply.
HandleRead(c) ==
    /\ pc[c] = "wait"
    /\ \/ /\ (req[c] = None /\ "cp" \in fin[c]) \/ gone[c]
          /\ Over(c, "dead")
          /\ UNCHANGED <<hdr, link, dir>>
       \/ /\ req[c] # None
          /\ \E h \in {[command |-> r.command, dst |-> r.dst] : r \in Requests[c]} :
               LET ip == ResolveEndpoint(h.dst)
                   ok == IsDestinationIPAddressAllowed(Conf, ip, h.command = "CONNECT")
               IN  /\ HeaderRead(req[c], h)
                   /\ hdr' = Set(hdr, c, h)
                   /\ \/ /\ ip = None
                         /\ Over(c, "dead") /\ UNCHANGED link
                      \/ /\ ip # None /\ ~ok
                         /\ link' = Put(link, c, "pc", Rejected)
                         /\ Over(c, "idle")
                      \/ /\ ip # None /\ ok /\ h.command = "CONNECT"
                         /\ pc' = Set(pc, c, "connect")
                         /\ UNCHANGED <<streams, writing>>
                      \/ /\ ip # None /\ ok /\ h.command = "BIND"
                         /\ link' = Put(link, c, "pc", Granted)
                         /\ pc' = Set(pc, c, "accept")
                         /\ UNCHANGED <<fin, writing>>
                      \/ /\ ip # None /\ ok /\ h.command = "other"
                         /\ Over(c, "idle") /\ UNCHANGED link
          /\ UNCHANGED dir
    /\ UNCHANGED <<up, armed, req, remote, ends>>

\* relayTraffic starts both chains.
StartRelay(c) == /\ dir' = Set(dir, c, [d \in {"up", "down"} |-> "wait"])
                 /\ pc' = Set(pc, c, "relay")

\* Mutant: the reply is sent whether or not the connection was made.
ConnectReplyAlways(c, done) == Put(link, c, "pc", Granted)
ConnectReply(c, done) == IF done THEN Put(link, c, "pc", Granted) ELSE link

\* The reply throws: the client has closed its socket.
ReplyFails(c) == gone[c] /\ Over(c, "dead") /\ UNCHANGED <<remote, link, dir>>

\* connect: without a connection there is no reply, but the relay starts.
Connect(c) ==
    /\ pc[c] = "connect"
    /\ LET ip == ResolveEndpoint(hdr[c].dst)
       IN  \/ /\ remote' = Set(remote, c, IF ip \in Reachable THEN ip ELSE None)
              /\ link' = ConnectReply(c, ip \in Reachable)
              /\ StartRelay(c) /\ UNCHANGED <<fin, writing>>
           \/ ip \in Reachable /\ ReplyFails(c)
    /\ UNCHANGED <<up, armed, req, hdr, ends>>

\* bind: somebody connects to the port of the first reply.
BindAccept(c) ==
    /\ pc[c] = "accept"
    /\ \/ /\ remote' = Set(remote, c, Peer)
          /\ link' = Put(link, c, "pc", Granted)
          /\ StartRelay(c) /\ UNCHANGED <<fin, writing>>
       \/ ReplyFails(c)
    /\ UNCHANGED <<up, armed, req, hdr, ends>>

-----------------------------------------------------------------------------
(* Socks4Handler: asyncReadWrite, in the direction d.                      *)

Source(d) == IF d = "up" THEN "cp" ELSE "rp"
Target(d) == IF d = "up" THEN "pr" ELSE "pc"
Unconnected(c, s) == remote[c] = None /\ s \in {"rp", "pr"}
\* Whoever receives stream s has closed its socket.
Deserted(c, s) == (s = "pc" /\ gone[c]) \/ (s = "pr" /\ rgone[c])
Other(d) == IF d = "up" THEN "down" ELSE "up"

\* Mutant: end of file does not wait for the data before it.
AtEofAny(c, d) == Source(d) \in fin[c]
\* read_some fails: end of file, or the socket was never connected.
AtEof(c, d) == \/ link[c][Source(d)] = << >> /\ Source(d) \in fin[c]
               \/ Unconnected(c, Source(d))

\* The callback runs only when the thread is not in write_some.
Free(c, d) == pc[c] = "relay" /\ writing[c] = None /\ dir[c][d] = "wait"

ReadSome(c, d) ==
    /\ Free(c, d) /\ link[c][Source(d)] # << >>
    /\ writing' = Set(writing, c, [d |-> d, item |-> Head(link[c][Source(d)])])
    /\ link' = [link EXCEPT ![c][Source(d)] = Tail(@)]
    /\ UNCHANGED <<up, armed, control, fin, dir, ends>>

\* End of file is passed on with shutdown_send, which throws when the other
\* socket is not connected (any more).
PassEof(c, d) ==
    /\ Free(c, d) /\ AtEof(c, d)
    /\ \/ /\ Unconnected(c, Target(d)) \/ Deserted(c, Target(d))
          /\ Over(c, "dead") /\ UNCHANGED dir
       \/ /\ ~Unconnected(c, Target(d))
          /\ dir' = [dir EXCEPT ![c][d] = "done"]
          /\ \/ dir[c][Other(d)] = "done" /\ Over(c, "idle")
             \/ /\ dir[c][Other(d)] # "done"
                /\ fin' = [fin EXCEPT ![c] = @ \cup {Target(d)}]
                /\ UNCHANGED <<pc, writing>>
    /\ UNCHANGED <<up, armed, req, hdr, remote, link, ends>>

\* Mutant: the chain is not continued after a write.
ContinueNot(c, d) == [dir EXCEPT ![c][d] = "done"]
Continue(c, d) == dir

\* write_some returns when there is room.  To a socket that has been closed it
\* succeeds, and the unit is lost, or throws, as on one that was never connected.
\* It may take a part of the unit only; the rest is lost, and the unit in the
\* stream stands for the part that was taken.
WriteSome(c) ==
    /\ pc[c] = "relay" /\ writing[c] # None
    /\ LET d == writing[c].d
       IN  \/ /\ ~Unconnected(c, Target(d)) /\ ~Deserted(c, Target(d))
              /\ Room(c, Target(d))
              /\ link' = Put(link, c, Target(d), writing[c].item)
              /\ dir' = Continue(c, d) /\ writing' = Set(writing, c, None)
              /\ UNCHANGED <<pc, fin>>
           \/ /\ Deserted(c, Target(d))
              /\ dir' = Continue(c, d) /\ writing' = Set(writing, c, None)
              /\ UNCHANGED <<pc, streams>>
           \/ /\ Unconnected(c, Target(d)) \/ Deserted(c, Target(d))
              /\ Over(c, "dead")
              /\ UNCHANGED <<link, dir>>
    /\ UNCHANGED <<up, armed, req, hdr, remote, ends>>

-----------------------------------------------------------------------------
(* The clients and the destinations.                                       *)

ClientConnect(c) ==
    /\ up /\ pc[c] = "off"
    /\ pc' = Set(pc, c, "queued")
    /\ UNCHANGED <<up, armed, req, hdr, remote, streams, relay, ends>>

\* A request in one segment, in two, or with the first unit of data behind it;
\* the handler reads one segment and looks at the request only.
Request(c, r) ==
    /\ pc[c] \in {"queued", "wait"} /\ req[c] = None /\ "cp" \notin fin[c]
    /\ req' = Set(req, c, r)
    /\ \/ r.seg = "whole" /\ UNCHANGED <<link, sent>>
       \/ r.seg = "split" /\ link' = Put(link, c, "cp", Rest) /\ UNCHANGED sent
       \/ r.seg = "early" /\ sent' = [sent EXCEPT ![c] = 1] /\ UNCHANGED link
    /\ UNCHANGED <<up, armed, pc, hdr, remote, fin, relay, held, got, arrived, gone, rgone>>

\* The replies a client waits for before it sends data.
Number(q, x) == Cardinality({i \in 1 .. Len(q) : q[i] = x})
AllGranted(c) == Number(got[c], Granted) >= IF req[c].command = "BIND" THEN 2 ELSE 1

ClientSend(c) ==
    /\ req[c] # None /\ AllGranted(c) /\ "cp" \notin fin[c]
    /\ sent[c] < req[c].data /\ Room(c, "cp")
    /\ link' = Put(link, c, "cp", sent[c] + 1)
    /\ sent' = [sent EXCEPT ![c] = @ + 1]
    /\ UNCHANGED <<up, armed, control, fin, relay, held, got, arrived, gone, rgone>>
ClientRead(c) ==
    /\ ~gone[c] /\ link[c]["pc"] # << >>
    /\ got' = [got EXCEPT ![c] = Append(@, Head(link[c]["pc"]))]
    /\ link' = [link EXCEPT ![c]["pc"] = Tail(@)]
    /\ UNCHANGED <<up, armed, control, fin, relay, sent, held, arrived, gone, rgone>>
\* An end stops sending on stream s.  If it closes its socket, what it has not
\* read resets the connection, and of what it sent the last units may be lost.
Closes(c, s, all) ==
    /\ fin' = [fin EXCEPT ![c] = @ \cup {s}]
    /\ \E n \in 0 .. Len(link[c][s]) :
         /\ all \/ n = Len(link[c][s])
         /\ link' = [link EXCEPT ![c][s] = SubSeq(@, 1, n)]

\* The client ends its half of the connection, or closes all of it.
ClientClose(c) ==
    /\ pc[c] \notin {"off", "dead"} /\ "cp" \notin fin[c]
    /\ \E all \in BOOLEAN : gone' = Set(gone, c, all) /\ Closes(c, "cp", all)
    /\ UNCHANGED <<up, armed, control, relay, sent, held, got, arrived, rgone>>

RemoteRead(c) ==
    /\ remote[c] # None /\ ~rgone[c] /\ held[c] = None /\ link[c]["pr"] # << >>
    /\ arrived' = [arrived EXCEPT ![c] = Append(@, Head(link[c]["pr"]))]
    /\ held' = Set(held, c, IF "rp" \in fin[c] THEN None ELSE Head(link[c]["pr"]))
    /\ link' = [link EXCEPT ![c]["pr"] = Tail(@)]
    /\ UNCHANGED <<up, armed, control, fin, relay, sent, got, gone, rgone>>
RemoteWrite(c) ==
    /\ held[c] # None /\ Room(c, "rp")
    /\ link' = Put(link, c, "rp", held[c])
    /\ held' = Set(held, c, None)
    /\ UNCHANGED <<up, armed, control, fin, relay, sent, got, arrived, gone, rgone>>
\* The destination does the same: at end of file, or whenever it likes.
RemoteClose(c) ==
    /\ remote[c] # None /\ held[c] = None /\ "rp" \notin fin[c]
    /\ \E all \in BOOLEAN : rgone' = Set(rgone, c, all) /\ Closes(c, "rp", all)
    /\ UNCHANGED <<up, armed, control, relay, sent, held, got, arrived, gone>>
RemoteEof(c) == /\ link[c]["pr"] = << >> /\ "pr" \in fin[c]
                /\ RemoteClose(c)

-----------------------------------------------------------------------------
Child(c) == \/ HandleRead(c) \/ Connect(c) \/ WriteSome(c)
            \/ \E d \in {"up", "down"} : ReadSome(c, d) \/ PassEof(c, d)
Ends(c) == ClientRead(c) \/ RemoteRead(c) \/ RemoteWrite(c) \/ RemoteEof(c)
Next == \E c \in Clients :
    \/ Accept(c) \/ Child(c) \/ BindAccept(c)
    \/ ClientConnect(c) \/ (\E r \in Requests[c] : Request(c, r))
    \/ ClientSend(c) \/ ClientClose(c) \/ Ends(c) \/ RemoteClose(c)

\* Processes are scheduled, connect() ends (TCP gives up), a client reads what
\* it gets and a destination works off its input.
Fairness == \A c \in Clients : /\ WF_vars(Accept(c)) /\ WF_vars(Child(c))
                               /\ WF_vars(ClientRead(c)) /\ WF_vars(RemoteRead(c))
                               /\ WF_vars(RemoteWrite(c)) /\ WF_vars(RemoteEof(c))
Spec == Init /\ [][Next]_vars /\ Fairness

-----------------------------------------------------------------------------
(* Properties.                                                             *)

Orderly(c) == req[c] # None /\ req[c].seg = "whole"
ToClient(c) == got[c] \o link[c]["pc"]
ToRemote(c) == arrived[c] \o link[c]["pr"]

\* A rule for the operation covers the address, octet by octet.
Covered(command, ip) == \E i \in DOMAIN Conf : /\ (Conf[i].type = "c") = (command = "CONNECT")
                                               /\ Covers(Conf[i].rule, ip)
\* A CONNECT leads to a connection only when a rule for CONNECT covers the
\* address it is made to, after resolution; a request is rejected only when no
\* rule for it does (socks4_handler.cpp:28, 142-152, socks4_util.cpp:4-29).
FirewallObeyed ==
    \A c \in Clients :
        /\ remote[c] \notin {None, Peer} => Covered("CONNECT", remote[c])
        /\ Number(ToClient(c), Rejected) > 0 =>
             ~Covered(hdr[c].command, ResolveEndpoint(hdr[c].dst))

\* The granted replies of a session: for CONNECT one when the connection exists,
\* for BIND one for the port and one when the peer is there.
Owed(c) == LET bind == hdr[c] # None /\ hdr[c].command = "BIND"
           IN  (IF bind THEN 1 ELSE 0) + (IF remote[c] # None THEN 1 ELSE 0)
\* A client is never told "granted" more often than it is owed, whatever it
\* sends behind its request and however its connect ends; as soon as the
\* connection exists, or the handler waits at a port, it has been told all of
\* it; and a session that is rejected has no other reply
\* (socks4_handler.cpp:34, 85-106).
RepliesTell ==
    \A c \in Clients :
        LET n == Number(ToClient(c), Granted)
        IN  /\ n <= Owed(c)
            /\ remote[c] # None \/ pc[c] = "accept" => n = Owed(c)
            /\ n = 0 \/ Number(ToClient(c), Rejected) = 0

InOrder(c) ==
    /\ \A i \in DOMAIN ToRemote(c) : ToRemote(c)[i] = i
    /\ LET n == Number(ToClient(c), Granted) + Number(ToClient(c), Rejected)
       IN  \A i \in DOMAIN ToClient(c) :
             IF i <= n THEN ToClient(c)[i] \in Replies
                       ELSE ToClient(c)[i] = i - n
EofLast(c) ==
    pc[c] = "relay" /\ remote[c] # None =>
        /\ "pr" \in fin[c] => "cp" \in fin[c] /\ (Len(ToRemote(c)) = sent[c] \/ gone[c] \/ rgone[c])
        /\ "pc" \in fin[c] => "rp" \in fin[c] /\ link[c]["rp"] = << >>
\* What reaches a destination is what the client sent, in order, with no unit
\* missing between two that arrive; the same back to the client, after the
\* replies.  While a session is relayed, a destination that is there sees end of
\* file only after all that the client sent, unless the client has closed its
\* socket and with it dropped what was on the way, and the client only after all
\* that came back (socks4_handler.cpp:109-126).
RelayedInOrder == \A c \in Clients : Orderly(c) => InOrder(c) /\ EofLast(c)

\* The client has heard something: a reply, or the end of the connection.
Heard(c) == got[c] # << >> \/ "pc" \in fin[c]
\* Every request of a client that stays is answered by a reply or by the end
\* of the connection, while the server lives (socks_server.cpp:17-36,
\* socks4_handler.cpp:8-100): also after a connect that fails.
EveryRequestAnswered ==
    \A c \in Clients : req[c] # None ~> Heard(c) \/ gone[c] \/ ~up

\* The relay and the destination each wait for the other to read.
Crossed(c) == /\ writing[c] # None /\ writing[c].d = "up"
              /\ ~Room(c, "pr") /\ ~Room(c, "rp") /\ held[c] # None
\* What a client sends arrives, unless the session ends, the destination has
\* closed its socket, or the relay, whose one thread serves both directions, and
\* the destination block each other (socks4_handler.cpp:122).
DataArrives ==
    \A c \in Clients :
        Orderly(c) /\ sent[c] > 0 ~>
            Len(arrived[c]) = sent[c] \/ pc[c] # "relay" \/ rgone[c] \/ Crossed(c)
====
