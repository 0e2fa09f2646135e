----------------------------- MODULE ChatMulti -----------------------------
(***************************************************************************)
(* The multi-process chat server of project 2, np_multi_proc: one process  *)
(* per client, a table of users in shared memory that no lock protects,    *)
(* one message buffer per user with SIGUSR1 to announce it, and FIFOs as   *)
(* user pipes.                                                             *)
(*                                                                         *)
(* Every access of a process to the shared table that another process can  *)
(* interfere with is a step of its own.  As the project's specification    *)
(* assumes (5.7), two clients do not execute commands at the same time; a  *)
(* client may log in while another executes a command, and a signal may    *)
(* arrive between any two steps.  A process that has a signal pending      *)
(* handles it before it does anything else.  A client may also close its    *)
(* connection without exit: its process then dies of SIGPIPE.              *)
(***************************************************************************)
EXTENDS Naturals, FiniteSets, FiniteSetsExt

CONSTANTS
    Clients,        \* the connections, and the processes that serve them
    MaxUsers,       \* slots 1 .. MaxUsers of the shared memory (MAX_CONN - 1)
    Nobody,         \* no process, no message, no FIFO
    Commands,       \* the command lines that clients send
    Overlap,        \* whether a client may log in while another logs in or leaves
    MaxCommands,    \* bound: how many commands are executed
    MaxHangups      \* bound: how many clients close their connection without exit

Ids == 1 .. MaxUsers

\* tell, yell (uid 0), a command that reads the user pipe of `from' and writes
\* the one to `to' (0 for none), and exit.
CommandType == [op : {"tell"}, uid : Ids] \cup [op : {"yell", "exit"}]
               \cup [op : {"run"}, from : Ids \cup {0}, to : Ids \cup {0}]

ASSUME CommandsAssumption == Commands \subseteq CommandType
ASSUME BoundsAssumption == MaxUsers \in Nat /\ MaxCommands \in Nat /\ MaxHangups \in Nat
                            /\ Overlap \in BOOLEAN
ASSUME ClientsAssumption == IsFiniteSet(Clients) /\ Cardinality(Clients) <= MaxUsers

VARIABLES
    up,       \* the listening process is alive
    slot,     \* slot[i] = users[i]: isConnected, pid, buffer
    fifo,     \* fifo[i][j]: the process that made ./user_pipe/i-j, or Nobody
    pc,       \* where the process of each client is
    id,       \* the id addUser computes
    uid,      \* _uid, 0 until addUser sets it
    sig,      \* SIGUSR1: none, pending, in the handler, or both
    out,      \* the message being sent and the slots it still goes to
    todo,     \* the command being executed
    executed  \* number of commands so far (bounded by MaxCommands)

table == <<slot, fifo>>
local == <<id, uid, todo, executed>>
vars == <<up, table, pc, local, sig, out>>

\* A message by the clients it is meant for.
Messages == [for : SUBSET Clients]
ASSUME NobodyAssumption == Nobody \notin Clients \cup Messages
Free == [isConnected |-> FALSE, pid |-> Nobody, buffer |-> Nobody]
Welcoming == {"scan", "fill", "pid", "uid"}            \* addUser
Leaving == {"memset", "unlink"}                        \* removeUser
Out == [msg : Messages \cup {Nobody}, to : SUBSET Ids, then : {"idle", "welcome", "login", "write", "gone"}]
Quiet == [msg |-> Nobody, to |-> {}, then |-> "idle"]
NoCommand == [op |-> "none"]

TypeOK ==
    /\ up \in BOOLEAN
    /\ slot \in [Ids -> [isConnected : BOOLEAN, pid : Clients \cup {Nobody},
                         buffer : Messages \cup {Nobody}]]
    /\ fifo \in [Ids -> [Ids -> Clients \cup {Nobody}]]
    /\ pc \in [Clients -> Welcoming \cup Leaving \cup
                          {"none", "idle", "check", "put", "kill", "read", "drain",
                           "stuck", "write", "leave", "gone", "crashed", "dead"}]
    /\ id \in [Clients -> Ids \cup {0}]
    /\ uid \in [Clients -> Ids \cup {0}]
    /\ sig \in [Clients -> SUBSET {"pending", "handling"}]
    /\ out \in [Clients -> Out]
    /\ todo \in [Clients -> Commands \cup {NoCommand}]
    /\ executed \in 0 .. MaxCommands

\* main and createSHMUser: the table is zeroed.
Init ==
    /\ up = TRUE
    /\ slot = [i \in Ids |-> Free]
    /\ fifo = [i \in Ids |-> [j \in Ids |-> Nobody]]
    /\ pc = [c \in Clients |-> "none"]
    /\ id = [c \in Clients |-> 0] /\ uid = [c \in Clients |-> 0]
    /\ sig = [c \in Clients |-> {}]
    /\ out = [c \in Clients |-> Quiet]
    /\ todo = [c \in Clients |-> NoCommand] /\ executed = 0

Alive(c) == pc[c] \notin {"none", "gone", "crashed", "dead"}
At(c, l) == pc[c] = l /\ sig[c] = {}
Goto(c, l) == pc' = [pc EXCEPT ![c] = l]
\* A process in the middle of addUser, and one in the middle of a command.
LoggingIn(c) == pc[c] \in Welcoming \/ out[c].then \in {"welcome", "login"}
Busy(c) == todo[c] # NoCommand

-----------------------------------------------------------------------------
(* Messages.                                                               *)

\* The client that has id i now, any client when nobody has.
Owner(i) == IF slot[i].pid = Nobody THEN Clients ELSE {slot[i].pid}

\* broadcastMessage goes over all the slots, Tell picks one.
Sending(c, msg, to, then) == out' = [out EXCEPT ![c] = [msg |-> msg, to |-> to, then |-> then]]
ToAll == [for |-> Clients]
Next1(c) == Min(out[c].to)

\* The isConnected test, for the next slot; then the sender goes on.
SendCheck(c) ==
    /\ At(c, "check")
    /\ \/ /\ out[c].to = {} /\ out[c].then = "welcome"
          /\ Sending(c, ToAll, Ids, "login")
          /\ UNCHANGED <<pc, todo>>
       \/ /\ out[c].to = {} /\ out[c].then # "welcome"
          /\ Goto(c, IF out[c].then = "login" THEN "idle" ELSE out[c].then)
          /\ out' = [out EXCEPT ![c] = Quiet]
          /\ todo' = [todo EXCEPT ![c] = IF out[c].then = "write" THEN @ ELSE NoCommand]
       \/ /\ out[c].to # {} /\ slot[Next1(c)].isConnected
          /\ Goto(c, "put")
          /\ UNCHANGED <<out, todo>>
       \/ /\ out[c].to # {} /\ ~slot[Next1(c)].isConnected
          /\ out' = [out EXCEPT ![c].to = @ \ {Next1(c)}]
          /\ UNCHANGED <<pc, todo>>
    /\ UNCHANGED <<up, table, id, uid, executed, sig>>

\* sendRawMessage: snprintf into the receiver's buffer, whatever is in it.
SendPut(c) ==
    /\ At(c, "put")
    /\ slot' = [slot EXCEPT ![Next1(c)].buffer = out[c].msg]
    /\ Goto(c, "kill")
    /\ UNCHANGED <<up, fifo, local, sig, out>>

\* kill(pid, SIGUSR1).  A pid of 0 signals every process of the server, and
\* the listener, which has no slot, dies in the handler.
Signalled(pid) == IF pid = Nobody THEN {c \in Clients : Alive(c)}
                                  ELSE {c \in {pid} : Alive(c)}
SendKill(c) ==
    /\ At(c, "kill")
    /\ LET pid == slot[Next1(c)].pid
       IN  /\ sig' = [d \in Clients |-> IF d \in Signalled(pid) THEN sig[d] \cup {"pending"}
                                                               ELSE sig[d]]
           /\ up' = (up /\ pid # Nobody)
    /\ out' = [out EXCEPT ![c].to = @ \ {Next1(c)}]
    /\ Goto(c, "check")
    /\ UNCHANGED <<table, local>>

\* Mutants: the buffer of another slot is shown; the buffer is not cleared.
BufferOfNext(i) == (i % MaxUsers) + 1
BufferOf(i) == i
ClearedNot(s, i) == s
Cleared(s, i) == [s EXCEPT ![i].buffer = Nobody]

\* A write to a connection that the client has closed: SIGPIPE.  The process is
\* gone at once, without removeUser; out keeps what it has not sent.
DiesOfSigpipe(c) ==
    /\ Cardinality({d \in Clients : pc[d] = "dead"}) < MaxHangups
    /\ Goto(c, "dead")
    /\ sig' = [sig EXCEPT ![c] = {}]
    /\ out' = [out EXCEPT ![c].then = "gone"]
    /\ todo' = [todo EXCEPT ![c] = NoCommand]

\* Kill: show users[_uid]->buffer, then clear it; without an id, crash.  From
\* removeUser on the process writes to the listener's output.
HandlerShow(c) ==
    /\ "pending" \in sig[c] /\ "handling" \notin sig[c]
    /\ \/ /\ uid[c] = 0
          /\ Goto(c, "crashed") /\ sig' = [sig EXCEPT ![c] = {}]
          /\ UNCHANGED <<out, todo>>
       \/ /\ uid[c] # 0
          /\ sig' = [sig EXCEPT ![c] = {"handling"}]
          /\ UNCHANGED <<pc, out, todo>>
       \/ /\ uid[c] # 0 /\ pc[c] \notin Leaving /\ out[c].then # "gone"
          /\ DiesOfSigpipe(c)
    /\ UNCHANGED <<up, table, id, uid, executed>>
HandlerClear(c) ==
    /\ "handling" \in sig[c]
    /\ slot' = Cleared(slot, BufferOf(uid[c]))
    /\ sig' = [sig EXCEPT ![c] = @ \ {"handling"}]
    /\ UNCHANGED <<up, fifo, pc, local, out>>

-----------------------------------------------------------------------------
(* addUser and removeUser.                                                 *)

\* accept and fork.
Accept(c) ==
    /\ up /\ pc[c] = "none"
    /\ ~\E d \in Clients : ~Overlap /\ (LoggingIn(d) \/ todo[d].op = "exit")
    /\ id' = [id EXCEPT ![c] = 1]
    /\ Goto(c, "scan")
    /\ UNCHANGED <<up, table, uid, todo, executed, sig, out>>

\* Mutant: the test is missing.
SlotFreeAlways(i) == TRUE
SlotFree(i) == ~slot[i].isConnected

\* The loop over the slots.
Scan(c) ==
    /\ At(c, "scan")
    /\ \/ SlotFree(id[c]) /\ Goto(c, "fill") /\ UNCHANGED id
       \/ ~SlotFree(id[c]) /\ id' = [id EXCEPT ![c] = @ + 1] /\ UNCHANGED pc
    /\ UNCHANGED <<up, table, uid, todo, executed, sig, out>>
Fill(c) ==
    /\ At(c, "fill")
    /\ slot' = [slot EXCEPT ![id[c]].isConnected = TRUE]
    /\ Goto(c, "pid")
    /\ UNCHANGED <<up, fifo, local, sig, out>>

\* Mutant: the pid stays 0.
PidOfNobody(c) == Nobody
PidOf(c) == c
SetPid(c) ==
    /\ At(c, "pid")
    /\ slot' = [slot EXCEPT ![id[c]].pid = PidOf(c)]
    /\ Goto(c, "uid")
    /\ UNCHANGED <<up, fifo, local, sig, out>>

\* _uid is known: the process sends itself the welcome, without a test, and
\* the login message to all.  In between it closes the pipes of its zeroed entry,
\* which are descriptor 0, and main opens 0 to 2 on the client's socket.
SetUid(c) ==
    /\ At(c, "uid")
    /\ uid' = [uid EXCEPT ![c] = id[c]]
    /\ Sending(c, [for |-> {c}], {id[c]}, "welcome")
    /\ Goto(c, "put")
    /\ UNCHANGED <<up, table, id, todo, executed, sig>>

\* removeUser: isConnected, then the whole slot, then the FIFOs, then the
\* logout message, and the process exits.
Leave(c) ==
    /\ At(c, "leave")
    /\ slot' = [slot EXCEPT ![uid[c]].isConnected = FALSE]
    /\ Goto(c, "memset")
    /\ UNCHANGED <<up, fifo, local, sig, out>>
Memset(c) ==
    /\ At(c, "memset")
    /\ slot' = [slot EXCEPT ![uid[c]] = Free]
    /\ Goto(c, "unlink")
    /\ UNCHANGED <<up, fifo, local, sig, out>>

\* Mutant: only the FIFOs that were written to the user are removed.
WithoutFifosTo(f, i) == [j \in Ids |-> [f[j] EXCEPT ![i] = Nobody]]
\* deleteSHMUserFifo, both directions.
WithoutFifos(f, i) == [j \in Ids |-> [k \in Ids |-> IF i \in {j, k} THEN Nobody ELSE f[j][k]]]
Unlink(c) ==
    /\ At(c, "unlink")
    /\ fifo' = WithoutFifos(fifo, uid[c])
    /\ Sending(c, ToAll, Ids, "gone")
    /\ Goto(c, "check")
    /\ UNCHANGED <<up, slot, local, sig>>

-----------------------------------------------------------------------------
(* Commands.                                                               *)

Start(c, cmd) ==
    /\ At(c, "idle") /\ executed < MaxCommands
    /\ ~\E d \in Clients : Busy(d) \/ (~Overlap /\ cmd.op = "exit" /\ LoggingIn(d))
    /\ todo' = [todo EXCEPT ![c] = cmd]
    /\ executed' = executed + 1
    /\ \/ /\ cmd.op = "tell"
          /\ Sending(c, [for |-> Owner(cmd.uid)], {cmd.uid}, "idle")
          /\ Goto(c, "check")
       \/ cmd.op = "yell" /\ Sending(c, ToAll, Ids, "idle") /\ Goto(c, "check")
       \/ cmd.op = "exit" /\ Goto(c, "leave") /\ UNCHANGED out
       \/ cmd.op = "run" /\ Goto(c, "read") /\ UNCHANGED out
    /\ UNCHANGED <<up, table, id, uid, sig>>

\* The access() test of openFIFO on ./user_pipe/i-j.
FifoExists(i, j) == fifo[i][j] # Nobody

\* readUserPipe up to open(): without the sender or its FIFO, /dev/null.
OpenRead(c) ==
    /\ At(c, "read")
    /\ LET from == todo[c].from
       IN  Goto(c, IF from # 0 /\ slot[from].isConnected /\ FifoExists(from, uid[c])
                   THEN "drain" ELSE "write")
    /\ UNCHANGED <<up, table, local, sig, out>>

\* readFIFO_writePipe reads until read() fails: on an empty FIFO it does so
\* only while a process has the FIFO open for writing, and returns 0 otherwise.
\* Then the loop does not end, and nobody waits for the command any more.
HasWriter(f) == f # Nobody /\ Alive(f)
Drain(c) ==
    /\ At(c, "drain")
    /\ LET f == fifo[todo[c].from][uid[c]]
       IN  \/ /\ HasWriter(f)
              /\ fifo' = [fifo EXCEPT ![todo[c].from][uid[c]] = Nobody]
              /\ Sending(c, ToAll, Ids, "write")
              /\ Goto(c, "check")
              /\ UNCHANGED todo
           \/ /\ ~HasWriter(f)
              /\ todo' = [todo EXCEPT ![c] = NoCommand]
              /\ Goto(c, "stuck")
              /\ UNCHANGED <<fifo, out>>
    /\ UNCHANGED <<up, slot, id, uid, executed, sig>>

\* writeUserPipe: mkfifo unless the FIFO exists.  A command that also reads
\* has announced the write before.
OpenWrite(c) ==
    /\ At(c, "write")
    /\ LET to == todo[c].to
           made == to # 0 /\ slot[to].isConnected /\ ~FifoExists(uid[c], to)
       IN  /\ fifo' = IF made THEN [fifo EXCEPT ![uid[c]][to] = c] ELSE fifo
           /\ \/ /\ made /\ todo[c].from = 0
                 /\ Sending(c, ToAll, Ids, "idle")
                 /\ Goto(c, "check")
                 /\ UNCHANGED todo
              \/ /\ ~made \/ todo[c].from # 0
                 /\ Goto(c, "idle")
                 /\ todo' = [todo EXCEPT ![c] = NoCommand]
                 /\ UNCHANGED out
    /\ UNCHANGED <<up, slot, id, uid, executed, sig>>

\* The client closes its connection without exit: getline fails, and the loop
\* writes prompts until one of them kills the process.
HangUp(c) ==
    /\ pc[c] = "idle"
    /\ DiesOfSigpipe(c)
    /\ UNCHANGED <<up, table, id, uid, executed>>

-----------------------------------------------------------------------------
Process(c) ==
    \/ SendCheck(c) \/ SendPut(c) \/ SendKill(c)
    \/ HandlerShow(c) \/ HandlerClear(c)
    \/ Accept(c) \/ Scan(c) \/ Fill(c) \/ SetPid(c) \/ SetUid(c)
    \/ Leave(c) \/ Memset(c) \/ Unlink(c)
    \/ OpenRead(c) \/ Drain(c) \/ OpenWrite(c) \/ HangUp(c)
    \/ \E cmd \in Commands : Start(c, cmd)
Next == \E c \in Clients : Process(c)
Spec == Init /\ [][Next]_vars

-----------------------------------------------------------------------------
(* Properties.                                                             *)

\* A process owns the slot of its _uid, and no other process has that id
\* (chatServer.cpp:142-170).
SlotsDistinct ==
    \A c \in Clients : pc[c] \in {"idle", "read", "write", "drain"} =>
        /\ slot[uid[c]].isConnected /\ slot[uid[c]].pid = c
        /\ \A d \in Clients : pc[d] \in {"idle", "read", "write", "drain"} /\ uid[d] = uid[c] => d = c

\* A message that waits in the buffer of an idle process has a signal on its
\* way, so it is not stuck there, unless its sender died in the middle of
\* sending it (chatServer.cpp:29-46).
NoStrandedMessage ==
    \A c \in Clients : pc[c] = "idle" /\ slot[uid[c]].buffer # Nobody =>
        \/ sig[c] # {}
        \/ \E d \in Clients : pc[d] = "kill" /\ Next1(d) = uid[c]
        \/ \E d \in Clients : pc[d] = "dead" /\ uid[c] \in out[d].to

\* A process shows only messages that were meant for its client
\* (chatServer.cpp:32-34, 228-250).
ShownToAddressee ==
    [][\A c \in Clients :
         (/\ "handling" \in sig'[c] /\ "handling" \notin sig[c]
          /\ slot[BufferOf(uid[c])].buffer # Nobody)
         => c \in slot[BufferOf(uid[c])].buffer.for]_vars

\* A FIFO has the two ids of users that are logged in, and was written by the
\* one who has the sender's id now (chatServer.cpp:129-136; specification 5.9).
FifosOfUsers ==
    \A i, j \in Ids : fifo[i][j] # Nobody =>
        \/ slot[i].isConnected /\ slot[j].isConnected /\ slot[i].pid = fifo[i][j]
        \/ \E c \in Clients : pc[c] \in Leaving /\ uid[c] \in {i, j}

\* A process that drains a FIFO finds it open for writing, so the loop of
\* readFIFO_writePipe ends, unless the writer's client has closed its connection
\* without exit: no FIFO of a user who left by exit, or of a process that never
\* had an id, is drained (chatServer.cpp:129-136, 189, 382-392).
DrainEnds ==
    \A c \in Clients : pc[c] = "drain" =>
        LET f == fifo[todo[c].from][uid[c]]
        IN  f # Nobody /\ (Alive(f) \/ pc[f] = "dead")

\* A message brings the server down (kill with pid 0) only when it goes to a
\* slot between isConnected and pid of a login (chatServer.cpp:43, 168-169).
KillsItselfOnlyDuringLogin ==
    [][up /\ ~up' => \E c, d \in Clients : /\ pc[c] = "kill" /\ pc[d] = "pid"
                                           /\ Next1(c) = id[d]]_vars
====
