-------------------------- MODULE ChatMultiProofs --------------------------
(***************************************************************************)
(* Theorems about ChatMulti, for every number of clients, slots and        *)
(* commands, when nobody logs in while another logs in or leaves (Overlap  *)
(* is FALSE; the run ChatMultiOverlap shows what happens otherwise).       *)
(***************************************************************************)
EXTENDS ChatMulti, ProofFacts

-----------------------------------------------------------------------------
(* The inductive invariant, in layers: what a process knows of itself      *)
(* (Shape), who may do what at the same time (Exclusive), whose the slots  *)
(* of the shared table are (Table), where the messages are (Mail) and      *)
(* whose the FIFOs are (Fifos).                                            *)

Sends(c) == pc[c] \in {"check", "put", "kill"}
\* A process between SetUid and Leave, which has the slot of its id, also after
\* it died there; and one between Leave and its end.
Present(c) == \/ pc[c] \in {"idle", "read", "drain", "stuck", "write", "leave", "dead"}
              \/ Sends(c) /\ out[c].then # "gone"
Departed(c) == pc[c] \in Leaving \/ (Sends(c) /\ out[c].then = "gone")
Outside == {"none", "crashed"} \cup Welcoming

ShapeOf(c) ==
    /\ pc[c] \in Outside => /\ uid[c] = 0 /\ out[c] = Quiet /\ todo[c] = NoCommand
                            /\ "handling" \notin sig[c]
    /\ pc[c] \notin Outside => id[c] \in Ids /\ uid[c] = id[c]
    /\ pc[c] \in Welcoming => id[c] \in Ids
    /\ pc[c] \in {"none", "crashed", "gone", "dead"} => sig[c] = {}
    /\ pc[c] = "dead" => out[c].then = "gone" /\ todo[c] = NoCommand
    /\ pc[c] \in {"idle", "stuck", "gone"} => out[c] = Quiet /\ todo[c] = NoCommand
    /\ pc[c] \in {"read", "drain", "write"} => out[c] = Quiet /\ todo[c].op = "run"
    /\ pc[c] \in {"leave", "memset", "unlink"} => out[c] = Quiet /\ todo[c].op = "exit"
    /\ Sends(c) => /\ out[c].msg # Nobody
                   /\ out[c].then \in {"welcome", "login"} => todo[c] = NoCommand
                   /\ out[c].then = "gone" => todo[c].op = "exit"
                   /\ out[c].then = "idle" => todo[c].op \in {"tell", "yell", "run"}
                   /\ out[c].then = "write" => todo[c].op = "run"
    /\ pc[c] \in {"put", "kill"} => out[c].to # {}
    /\ pc[c] = "drain" => todo[c].from # 0
Shape == \A c \in Clients : ShapeOf(c)

Exclusive == \A c, d \in Clients :
    /\ Busy(c) /\ Busy(d) => c = d
    /\ LoggingIn(c) /\ LoggingIn(d) => c = d
    /\ ~(LoggingIn(c) /\ todo[d].op = "exit")

\* The slot of a process, by where the process is.
SlotOf(c) ==
    /\ Present(c) \/ pc[c] = "uid" => slot[id[c]].isConnected /\ slot[id[c]].pid = c
    /\ pc[c] = "pid" => slot[id[c]].isConnected /\ slot[id[c]].pid = Nobody
    /\ pc[c] = "fill" => slot[id[c]] = Free
    /\ pc[c] = "scan" => \A i \in 1 .. id[c] - 1 : slot[i].isConnected
    /\ Departed(c) => ~slot[id[c]].isConnected
    /\ pc[c] \in {"put", "kill"} => slot[Next1(c)].isConnected
SlotOfProcess == \A c \in Clients : SlotOf(c)

\* The process of a slot, by what is in the slot.
ProcessOf(i) ==
    /\ ~slot[i].isConnected =>
         \/ slot[i].buffer = Nobody /\ slot[i].pid = Nobody
         \/ \E c \in Clients : pc[c] = "memset" /\ id[c] = i /\ slot[i].pid = c
    /\ slot[i].isConnected =>
         \E c \in Clients : id[c] = i /\ (Present(c) \/ pc[c] \in {"pid", "uid", "crashed"})
    /\ \A c \in Clients : slot[i].pid = c =>
         id[c] = i /\ (Present(c) \/ pc[c] \in {"uid", "crashed", "memset"})
ProcessOfSlot == \A i \in Ids : ProcessOf(i)

\* As long as the listener lives, no signal went to all the processes.
NoBroadcast == up =>
    /\ \A i \in Ids : slot[i].isConnected /\ slot[i].pid = Nobody =>
         \E c \in Clients : pc[c] = "pid" /\ id[c] = i
    /\ \A c \in Clients : pc[c] \in {"scan", "fill", "pid"} => sig[c] = {}

Table == SlotOfProcess /\ ProcessOfSlot /\ NoBroadcast

\* The messages reach who they are meant for: announced, unless the sender died
\* before its kill, on the way, in a slot.
KillToCome(i) ==
    \E d \in Clients : \/ pc[d] = "kill" /\ Next1(d) = i
                       \/ pc[d] = "dead" /\ i \in out[d].to
Receives(c) == (Present(c) /\ pc[c] # "dead") \/ pc[c] \in {"pid", "uid"}
Announced == \A c \in Clients : Receives(c) /\ slot[id[c]].buffer # Nobody =>
                                  sig[c] # {} \/ KillToCome(id[c])
MeantFor(msg, i) == msg.for = Clients \/ slot[i].pid \in msg.for
OnTheWay == \A c \in Clients : Sends(c) => \A i \in out[c].to : MeantFor(out[c].msg, i)
InSlot == \A i \in Ids : slot[i].buffer # Nobody => MeantFor(slot[i].buffer, i)

Mail == Announced /\ OnTheWay /\ InSlot

WriterStays == \A i, j \in Ids : \A c \in Clients :
    fifo[i][j] = c => uid[c] = i /\ (Present(c) \/ pc[c] \in Leaving)
DrainedExists == \A c \in Clients : pc[c] = "drain" => fifo[todo[c].from][uid[c]] # Nobody

Fifos == FifosOfUsers /\ WriterStays /\ DrainedExists

Inv == TypeOK /\ Shape /\ Exclusive /\ Table /\ Mail /\ Fifos

-----------------------------------------------------------------------------
(* Facts about single definitions.                                         *)

\* The next slot of a message is one of those it still goes to.
LEMMA Next1InTo ==
    ASSUME TypeOK, NEW c \in Clients, out[c].to # {}
    PROVE  Next1(c) \in out[c].to /\ Next1(c) \in Ids
<1>1. out[c].to \subseteq Ids /\ out[c].to \subseteq Nat
  BY BoundsAssumption DEF TypeOK, Out, Ids
<1>2. \E n \in out[c].to : \A k \in out[c].to : n <= k
  BY <1>1, LeastElement
<1> QED
  BY <1>1, <1>2 DEF Next1, Min

\* Messages are not Nobody, and a process that sends nothing is well-formed.
LEMMA MessageTypes ==
    /\ ToAll \in Messages /\ ToAll # Nobody /\ ToAll.for = Clients
    /\ \A S \in SUBSET Clients : /\ [for |-> S] \in Messages /\ [for |-> S] # Nobody
                                 /\ [for |-> S].for = S
    /\ Quiet \in Out /\ Quiet.then = "idle" /\ Quiet.to = {}
    /\ NoCommand.op = "none"
    /\ Free.isConnected = FALSE /\ Free.pid = Nobody /\ Free.buffer = Nobody
<1>1. ToAll \in Messages /\ ToAll.for = Clients
      /\ \A S \in SUBSET Clients : [for |-> S] \in Messages /\ [for |-> S].for = S
  BY DEF ToAll, Messages
<1>2. Nobody \notin Messages
  BY NobodyAssumption
<1>3. Quiet \in Out /\ Quiet.then = "idle" /\ Quiet.to = {} /\ NoCommand.op = "none"
  BY DEF Quiet, Out, NoCommand
<1>4. Free.isConnected = FALSE /\ Free.pid = Nobody /\ Free.buffer = Nobody
  BY DEF Free
<1> QED
  BY <1>1, <1>2, <1>3, <1>4, Zenon

\* The commands by their kind.
LEMMA CommandKinds ==
    \A cmd \in Commands :
        /\ cmd.op \in {"tell", "yell", "exit", "run"} /\ cmd # NoCommand
        /\ cmd.op = "tell" => cmd.uid \in Ids
        /\ cmd.op = "run" => cmd.from \in Ids \cup {0} /\ cmd.to \in Ids \cup {0}
<1>1. \A cmd \in CommandType :
        /\ cmd.op \in {"tell", "yell", "exit", "run"}
        /\ cmd.op = "tell" => cmd.uid \in Ids
        /\ cmd.op = "run" => cmd.from \in Ids \cup {0} /\ cmd.to \in Ids \cup {0}
  BY DEF CommandType
<1>2. \A cmd \in CommandType : cmd # NoCommand
  BY <1>1, MessageTypes
<1> QED
  BY <1>1, <1>2, CommandsAssumption

\* The initial state: no users, no processes.
LEMMA InvInit == Init => Inv
<1> SUFFICES ASSUME Init PROVE Inv
  OBVIOUS
<1> USE DEF Init
<1>1. TypeOK
  <2>1. 0 \in 0 .. MaxCommands
    BY BoundsAssumption
  <2>2. Free \in [isConnected : BOOLEAN, pid : Clients \cup {Nobody}, buffer : Messages \cup {Nobody}]
    BY DEF Free
  <2> QED
    BY <2>1, <2>2, MessageTypes DEF TypeOK
<1>2. Shape
  BY MessageTypes DEF Shape, ShapeOf, Outside, Sends, Welcoming
<1>3. Exclusive
  BY MessageTypes DEF Exclusive, Busy, LoggingIn, Welcoming
<1>4. Table
  BY MessageTypes, NobodyAssumption
     DEF Table, SlotOfProcess, SlotOf, ProcessOfSlot, ProcessOf, NoBroadcast, Present, Departed, Sends, Leaving
<1>5. Mail
  BY MessageTypes DEF Mail, Announced, Receives, OnTheWay, InSlot, Present, Sends
<1>6. Fifos
  BY NobodyAssumption DEF Fifos, FifosOfUsers, WriterStays, DrainedExists
<1> QED
  BY <1>1, <1>2, <1>3, <1>4, <1>5, <1>6 DEF Inv

-----------------------------------------------------------------------------
(* Types.                                                                  *)

\* A process that looks for a slot finds one: every slot that is taken is some
\* other process's, and there are as many slots as processes.
LEMMA FreeSlot ==
    ASSUME Inv, NEW c \in Clients, pc[c] = "scan", slot[id[c]].isConnected
    PROVE  id[c] + 1 \in Ids
<1> SUFFICES ASSUME id[c] + 1 \notin Ids PROVE FALSE
  OBVIOUS
<1>1. MaxUsers \in Nat /\ id[c] \in Ids
  BY BoundsAssumption DEF Inv, Shape, ShapeOf, Welcoming
<1>2. id[c] = MaxUsers
  BY <1>1 DEF Ids
<1>3. \A i \in Ids : slot[i].isConnected
  BY <1>1, <1>2 DEF Ids, Inv, Table, SlotOfProcess, SlotOf
<1> DEFINE f == [i \in Ids |-> CHOOSE d \in Clients : id[d] = i /\ d # c]
<1>4. ASSUME NEW i \in Ids PROVE f[i] \in Clients \ {c} /\ id[f[i]] = i
  <2>1. \E d \in Clients : id[d] = i /\ d # c
    BY <1>3 DEF Inv, Table, ProcessOfSlot, ProcessOf, Present, Sends
  <2> QED
    BY <2>1
<1> HIDE DEF f
<1>5. f \in Injection(Ids, Clients \ {c})
  <2>1. f \in [Ids -> Clients \ {c}]
    BY <1>4 DEF f
  <2>2. \A i, j \in Ids : f[i] = f[j] => i = j
    BY <1>4
  <2> QED
    BY <2>1, <2>2, Zenon DEF Injection, IsInjective
<1>6. /\ IsFiniteSet(Clients \ {c}) /\ Cardinality(Clients \ {c}) = Cardinality(Clients) - 1
      /\ Cardinality(Clients) \in Nat
  BY ClientsAssumption, FS_RemoveElement, FS_CardinalityType
<1>7. Cardinality(Ids) <= Cardinality(Clients \ {c})
  BY <1>5, <1>6, FS_Injection
<1>8. Cardinality(Ids) = MaxUsers
  BY <1>1, FS_Interval DEF Ids
<1> QED
  BY <1>1, <1>6, <1>7, <1>8, ClientsAssumption

SlotTypes == [isConnected : BOOLEAN, pid : Clients \cup {Nobody}, buffer : Messages \cup {Nobody}]

\* Slot i is updated, and the other slots stay.
Updated(i, connected, pid, buffer) ==
    /\ slot' \in [Ids -> SlotTypes]
    /\ slot'[i].isConnected = connected /\ slot'[i].pid = pid /\ slot'[i].buffer = buffer
    /\ \A j \in Ids : j # i => slot'[j] = slot[j]

\* What an assignment to a field of a slot does.
LEMMA SlotUpdates ==
    ASSUME TypeOK, NEW i \in Ids
    PROVE  /\ \A m \in Messages \cup {Nobody} : slot' = [slot EXCEPT ![i].buffer = m] =>
                Updated(i, slot[i].isConnected, slot[i].pid, m)
           /\ \A b \in BOOLEAN : slot' = [slot EXCEPT ![i].isConnected = b] =>
                Updated(i, b, slot[i].pid, slot[i].buffer)
           /\ \A p \in Clients : slot' = [slot EXCEPT ![i].pid = p] =>
                Updated(i, slot[i].isConnected, p, slot[i].buffer)
           /\ slot' = [slot EXCEPT ![i] = Free] => Updated(i, FALSE, Nobody, Nobody)
<1>1. slot \in [Ids -> SlotTypes] /\ slot[i] \in SlotTypes
  BY DEF TypeOK, SlotTypes
<1>2. ASSUME NEW m \in Messages \cup {Nobody}, slot' = [slot EXCEPT ![i].buffer = m]
      PROVE  Updated(i, slot[i].isConnected, slot[i].pid, m)
  <2>1. [slot[i] EXCEPT !.buffer = m] \in SlotTypes
    BY <1>1 DEF SlotTypes
  <2>2. slot' \in [Ids -> SlotTypes]
    BY <1>1, <1>2, <2>1
  <2> QED
    BY <1>1, <1>2, <2>2 DEF Updated, SlotTypes
<1>3. ASSUME NEW b \in BOOLEAN, slot' = [slot EXCEPT ![i].isConnected = b]
      PROVE  Updated(i, b, slot[i].pid, slot[i].buffer)
  <2>1. [slot[i] EXCEPT !.isConnected = b] \in SlotTypes
    BY <1>1 DEF SlotTypes
  <2>2. slot' \in [Ids -> SlotTypes]
    BY <1>1, <1>3, <2>1
  <2> QED
    BY <1>1, <1>3, <2>2 DEF Updated, SlotTypes
<1>4. ASSUME NEW p \in Clients, slot' = [slot EXCEPT ![i].pid = p]
      PROVE  Updated(i, slot[i].isConnected, p, slot[i].buffer)
  <2>1. [slot[i] EXCEPT !.pid = p] \in SlotTypes
    BY <1>1 DEF SlotTypes
  <2>2. slot' \in [Ids -> SlotTypes]
    BY <1>1, <1>4, <2>1
  <2> QED
    BY <1>1, <1>4, <2>2 DEF Updated, SlotTypes
<1>5. ASSUME slot' = [slot EXCEPT ![i] = Free] PROVE Updated(i, FALSE, Nobody, Nobody)
  <2>1. Free \in SlotTypes
    BY DEF Free, SlotTypes
  <2> QED
    BY <1>1, <1>5, <2>1, MessageTypes DEF Updated
<1> QED
  BY <1>2, <1>3, <1>4, <1>5

\* The steps that write the table, each with the slot it writes.
LEMMA PutEffect ==
    ASSUME TypeOK, Shape, NEW c \in Clients, SendPut(c)
    PROVE  \E i \in Ids : /\ i = Next1(c) /\ i \in out[c].to
                          /\ Updated(i, slot[i].isConnected, slot[i].pid, out[c].msg)
<1>1. out[c].to # {} /\ out[c].msg \in Messages \cup {Nobody}
  BY DEF SendPut, At, Shape, ShapeOf, TypeOK, Out
<1>2. PICK i \in Ids : i = Next1(c) /\ i \in out[c].to
  BY <1>1, Next1InTo
<1>3. slot' = [slot EXCEPT ![i].buffer = out[c].msg]
  BY <1>2 DEF SendPut
<1>4. Updated(i, slot[i].isConnected, slot[i].pid, out[c].msg)
  BY <1>1, <1>3, SlotUpdates, ZenonT(60) DEF Updated
<1> QED
  BY <1>2, <1>4

LEMMA ClearEffect ==
    ASSUME TypeOK, Shape, NEW c \in Clients, HandlerClear(c)
    PROVE  slot' = slot \/ \E i \in Ids : /\ i = uid[c]
                                          /\ Updated(i, slot[i].isConnected, slot[i].pid, Nobody)
<1>1. slot' = [slot EXCEPT ![uid[c]].buffer = Nobody]
  BY DEF HandlerClear, Cleared, BufferOf
<1>2. CASE uid[c] \notin Ids
  BY <1>1, <1>2 DEF TypeOK
<1>3. CASE uid[c] \in Ids
  <2>1. PICK i \in Ids : i = uid[c]
    BY <1>3
  <2>2. slot' = [slot EXCEPT ![i].buffer = Nobody]
    BY <1>1, <2>1
  <2>3. Updated(i, slot[i].isConnected, slot[i].pid, Nobody)
    BY <2>2, SlotUpdates DEF Updated
  <2> QED
    BY <2>1, <2>3
<1> QED
  BY <1>2, <1>3

LEMMA LoginEffect ==
    ASSUME TypeOK, Shape, NEW c \in Clients
    PROVE  /\ Fill(c) => \E i \in Ids : i = id[c] /\ Updated(i, TRUE, slot[i].pid, slot[i].buffer)
           /\ SetPid(c) => \E i \in Ids : i = id[c] /\ Updated(i, slot[i].isConnected, c, slot[i].buffer)
<1>1. ASSUME Fill(c)
      PROVE  \E i \in Ids : i = id[c] /\ Updated(i, TRUE, slot[i].pid, slot[i].buffer)
  <2>1. PICK i \in Ids : i = id[c]
    BY <1>1 DEF Fill, At, Shape, ShapeOf, Welcoming
  <2>2. slot' = [slot EXCEPT ![i].isConnected = TRUE]
    BY <1>1, <2>1 DEF Fill
  <2>3. Updated(i, TRUE, slot[i].pid, slot[i].buffer)
    BY <2>2, SlotUpdates DEF Updated
  <2> QED
    BY <2>1, <2>3
<1>2. ASSUME SetPid(c)
      PROVE  \E i \in Ids : i = id[c] /\ Updated(i, slot[i].isConnected, c, slot[i].buffer)
  <2>1. PICK i \in Ids : i = id[c]
    BY <1>2 DEF SetPid, At, Shape, ShapeOf, Welcoming
  <2>2. slot' = [slot EXCEPT ![i].pid = c]
    BY <1>2, <2>1 DEF SetPid, PidOf
  <2>3. Updated(i, slot[i].isConnected, c, slot[i].buffer)
    BY <2>2, SlotUpdates DEF Updated
  <2> QED
    BY <2>1, <2>3
<1> QED
  BY <1>1, <1>2

LEMMA LogoutEffect ==
    ASSUME TypeOK, Shape, NEW c \in Clients
    PROVE  /\ Leave(c) => \E i \in Ids : i = uid[c] /\ Updated(i, FALSE, slot[i].pid, slot[i].buffer)
           /\ Memset(c) => \E i \in Ids : i = uid[c] /\ Updated(i, FALSE, Nobody, Nobody)
<1>1. ASSUME Leave(c)
      PROVE  \E i \in Ids : i = uid[c] /\ Updated(i, FALSE, slot[i].pid, slot[i].buffer)
  <2>1. PICK i \in Ids : i = uid[c]
    BY <1>1 DEF Leave, At, Shape, ShapeOf, Outside, Welcoming
  <2>2. slot' = [slot EXCEPT ![i].isConnected = FALSE]
    BY <1>1, <2>1 DEF Leave
  <2>3. Updated(i, FALSE, slot[i].pid, slot[i].buffer)
    BY <2>2, SlotUpdates DEF Updated
  <2> QED
    BY <2>1, <2>3
<1>2. ASSUME Memset(c) PROVE \E i \in Ids : i = uid[c] /\ Updated(i, FALSE, Nobody, Nobody)
  <2>1. PICK i \in Ids : i = uid[c]
    BY <1>2 DEF Memset, At, Shape, ShapeOf, Outside, Welcoming
  <2>2. slot' = [slot EXCEPT ![i] = Free]
    BY <1>2, <2>1 DEF Memset
  <2>3. Updated(i, FALSE, Nobody, Nobody)
    BY <2>2, SlotUpdates DEF Updated
  <2> QED
    BY <2>1, <2>3
<1> QED
  BY <1>1, <1>2

\* Every step keeps the types.
LEMMA TypeStep ==
    ASSUME Inv, NEW c \in Clients, Process(c)
    PROVE  TypeOK'
<1> USE DEF Goto, Sending, table, local
<1>0. TypeOK /\ Shape
  BY DEF Inv
<1>1. CASE SendCheck(c)
  <2>1. out[c].then \in {"idle", "welcome", "login", "write", "gone"}
    BY <1>0 DEF TypeOK, Out
  <2>2. out' \in [Clients -> Out]
    <3>1. /\ [msg |-> ToAll, to |-> Ids, then |-> "login"] \in Out /\ Quiet \in Out
          /\ \A n : [out[c] EXCEPT !.to = @ \ {n}] \in Out
      <4>1. [msg |-> ToAll, to |-> Ids, then |-> "login"] \in Out /\ Quiet \in Out
        BY MessageTypes DEF Out
      <4>2. out[c] \in Out
        BY <1>0 DEF TypeOK
      <4>3. \A n : [out[c] EXCEPT !.to = @ \ {n}] \in Out
        BY <4>2 DEF Out
      <4> QED
        BY <4>1, <4>3
    <3>2. \/ out' = out
          \/ \E o \in Out : out' = [out EXCEPT ![c] = o]
      BY <1>0, <1>1, <3>1 DEF SendCheck, TypeOK
    <3> QED
      BY <1>0, <3>2 DEF TypeOK
  <2>3. UNCHANGED <<up, slot, fifo, id, uid, executed, sig>>
    BY <1>1 DEF SendCheck
  <2>4. pc' \in [Clients -> Welcoming \cup Leaving \cup
                            {"none", "idle", "check", "put", "kill", "read", "drain",
                             "stuck", "write", "leave", "gone", "crashed", "dead"}]
    BY <1>0, <1>1, <2>1 DEF SendCheck, TypeOK
  <2>5. todo' \in [Clients -> Commands \cup {NoCommand}]
    BY <1>0, <1>1 DEF SendCheck, TypeOK
  <2> QED
    BY <1>0, <2>2, <2>3, <2>4, <2>5 DEF TypeOK
<1>2. CASE SendPut(c)
  <2>1. slot' \in [Ids -> SlotTypes]
    BY <1>0, <1>2, PutEffect DEF Updated
  <2> QED
    BY <1>0, <1>2, <2>1 DEF SendPut, TypeOK, SlotTypes
<1>3. CASE SendKill(c)
  <2>1. out' \in [Clients -> Out]
    BY <1>0, <1>3, ZenonT(60) DEF SendKill, TypeOK, Out
  <2>2. sig' \in [Clients -> SUBSET {"pending", "handling"}]
    BY <1>0, <1>3 DEF SendKill, TypeOK
  <2>3. up' \in BOOLEAN
    BY <1>3 DEF SendKill
  <2> QED
    BY <1>0, <1>3, <2>1, <2>2, <2>3 DEF SendKill, TypeOK
<1>4. CASE HandlerShow(c) \/ HangUp(c)
  <2>1. out' \in [Clients -> Out]
    <3>1. [out[c] EXCEPT !.then = "gone"] \in Out
      BY <1>0 DEF TypeOK, Out
    <3>2. out' = out \/ out' = [out EXCEPT ![c].then = "gone"]
      BY <1>4 DEF HandlerShow, HangUp, DiesOfSigpipe
    <3> QED
      BY <1>0, <3>1, <3>2 DEF TypeOK
  <2>2. /\ todo' \in [Clients -> Commands \cup {NoCommand}]
        /\ sig' \in [Clients -> SUBSET {"pending", "handling"}]
    <3>1. /\ todo' = todo \/ todo' = [todo EXCEPT ![c] = NoCommand]
          /\ sig' = [sig EXCEPT ![c] = {}] \/ sig' = [sig EXCEPT ![c] = {"handling"}]
      BY <1>4 DEF HandlerShow, HangUp, DiesOfSigpipe
    <3> QED
      BY <1>0, <3>1 DEF TypeOK
  <2> QED
    BY <1>0, <1>4, <2>1, <2>2 DEF HandlerShow, HangUp, DiesOfSigpipe, TypeOK
<1>5. CASE HandlerClear(c)
  <2>1. slot' \in [Ids -> SlotTypes]
    BY <1>0, <1>5, ClearEffect DEF Updated, TypeOK, SlotTypes
  <2>2. sig' \in [Clients -> SUBSET {"pending", "handling"}]
    BY <1>0, <1>5 DEF HandlerClear, TypeOK
  <2> QED
    BY <1>0, <1>5, <2>1, <2>2 DEF HandlerClear, TypeOK, SlotTypes
<1>6. CASE Accept(c)
  <2>1. 1 \in Ids
    <3>1. IsFiniteSet(Clients) /\ Cardinality(Clients) # 0 /\ Cardinality(Clients) \in Nat
      BY ClientsAssumption, FS_EmptySet, FS_CardinalityType
    <3> QED
      BY <3>1, ClientsAssumption, BoundsAssumption DEF Ids
  <2> QED
    BY <1>0, <1>6, <2>1 DEF Accept, TypeOK, Welcoming
<1>7. CASE Scan(c)
  <2>1. ~SlotFree(id[c]) => id[c] + 1 \in Ids
    BY <1>7, FreeSlot DEF Scan, At, SlotFree
  <2> QED
    BY <1>0, <1>7, <2>1, ZenonT(60) DEF Scan, TypeOK, Welcoming
<1>8. CASE Fill(c) \/ SetPid(c)
  <2>1. slot' \in [Ids -> SlotTypes]
    BY <1>0, <1>8, LoginEffect DEF Updated
  <2> QED
    BY <1>0, <1>8, <2>1 DEF Fill, SetPid, TypeOK, SlotTypes, Welcoming
<1>9. CASE SetUid(c)
  <2>1. id[c] \in Ids
    BY <1>0, <1>9 DEF SetUid, At, Shape, ShapeOf, Welcoming
  <2>2. [msg |-> [for |-> {c}], to |-> {id[c]}, then |-> "welcome"] \in Out
    BY <2>1, MessageTypes DEF Out
  <2>3. out' \in [Clients -> Out]
    BY <1>0, <1>9, <2>2 DEF SetUid, TypeOK
  <2> QED
    BY <1>0, <1>9, <2>1, <2>3 DEF SetUid, TypeOK
<1>10. CASE Leave(c) \/ Memset(c)
  <2>1. slot' \in [Ids -> SlotTypes]
    BY <1>0, <1>10, LogoutEffect DEF Updated
  <2> QED
    BY <1>0, <1>10, <2>1 DEF Leave, Memset, TypeOK, SlotTypes, Leaving
<1>11. \A then \in {"idle", "welcome", "login", "write", "gone"} :
         [msg |-> ToAll, to |-> Ids, then |-> then] \in Out
  BY MessageTypes DEF Out
<1>12. CASE Unlink(c)
  BY <1>0, <1>11, <1>12 DEF Unlink, WithoutFifos, TypeOK
<1>13. CASE OpenRead(c)
  BY <1>0, <1>13 DEF OpenRead, TypeOK
<1>14. CASE Drain(c)
  <2>1. fifo' \in [Ids -> [Ids -> Clients \cup {Nobody}]]
    <3>1. \/ fifo' = fifo
          \/ fifo' = [fifo EXCEPT ![todo[c].from][uid[c]] = Nobody]
      BY <1>14 DEF Drain
    <3>2. CASE fifo' = [fifo EXCEPT ![todo[c].from][uid[c]] = Nobody]
      BY <1>0, <3>2 DEF TypeOK
    <3>3. CASE fifo' = fifo
      BY <1>0, <3>3 DEF TypeOK
    <3> QED
      BY <3>1, <3>2, <3>3
  <2>2. out' \in [Clients -> Out]
    BY <1>0, <1>11, <1>14 DEF Drain, TypeOK
  <2> QED
    BY <1>0, <1>14, <2>1, <2>2 DEF Drain, TypeOK
<1>15. CASE OpenWrite(c)
  <2>1. fifo' \in [Ids -> [Ids -> Clients \cup {Nobody}]]
    BY <1>0, <1>15 DEF OpenWrite, TypeOK
  <2>2. UNCHANGED <<up, slot, id, uid, executed, sig>>
    BY <1>15 DEF OpenWrite
  <2>3. out' \in [Clients -> Out] /\ todo' \in [Clients -> Commands \cup {NoCommand}]
    <3>1. /\ \/ out' = out
             \/ out' = [out EXCEPT ![c] = [msg |-> ToAll, to |-> Ids, then |-> "idle"]]
          /\ todo' = todo \/ todo' = [todo EXCEPT ![c] = NoCommand]
      BY <1>15 DEF OpenWrite
    <3>2. [msg |-> ToAll, to |-> Ids, then |-> "idle"] \in Out
      BY <1>11
    <3>3. out' \in [Clients -> Out]
      BY <1>0, <3>1, <3>2 DEF TypeOK
    <3>4. todo' \in [Clients -> Commands \cup {NoCommand}]
      BY <1>0, <3>1 DEF TypeOK
    <3> QED
      BY <3>3, <3>4
  <2>4. pc' \in [Clients -> Welcoming \cup Leaving \cup
                            {"none", "idle", "check", "put", "kill", "read", "drain",
                             "stuck", "write", "leave", "gone", "crashed", "dead"}]
    BY <1>0, <1>15 DEF OpenWrite, TypeOK
  <2> QED
    BY <1>0, <2>1, <2>2, <2>3, <2>4 DEF TypeOK
<1>16. ASSUME NEW cmd \in Commands, Start(c, cmd) PROVE TypeOK'
  <2>1. executed' \in 0 .. MaxCommands /\ todo' \in [Clients -> Commands \cup {NoCommand}]
    BY <1>0, <1>16, BoundsAssumption DEF Start, TypeOK
  <2>2. UNCHANGED <<up, slot, fifo, id, uid, sig>>
    BY <1>16 DEF Start
  <2>3. pc' \in [Clients -> Welcoming \cup Leaving \cup
                            {"none", "idle", "check", "put", "kill", "read", "drain",
                             "stuck", "write", "leave", "gone", "crashed", "dead"}]
    BY <1>0, <1>16 DEF Start, TypeOK
  <2>4. cmd.op = "tell" => [msg |-> [for |-> Owner(cmd.uid)], to |-> {cmd.uid}, then |-> "idle"] \in Out
    <3> SUFFICES ASSUME cmd.op = "tell"
                 PROVE  [msg |-> [for |-> Owner(cmd.uid)], to |-> {cmd.uid}, then |-> "idle"] \in Out
      OBVIOUS
    <3>1. cmd.uid \in Ids
      BY CommandKinds
    <3>2. Owner(cmd.uid) \in SUBSET Clients
      BY <1>0, <3>1 DEF Owner, TypeOK
    <3>3. [for |-> Owner(cmd.uid)] \in Messages
      BY <3>2, MessageTypes
    <3> QED
      BY <3>1, <3>3 DEF Out
  <2>5. out' \in [Clients -> Out]
    BY <1>0, <1>11, <1>16, <2>4 DEF Start, TypeOK
  <2> QED
    BY <1>0, <2>1, <2>2, <2>3, <2>5 DEF TypeOK
<1> QED
  BY <1>1, <1>2, <1>3, <1>4, <1>5, <1>6, <1>7, <1>8, <1>9, <1>10, <1>12, <1>13, <1>14, <1>15, <1>16
     DEF Process

-----------------------------------------------------------------------------
(* What a step does to the processes.                                      *)

\* A process changes its own state only; it signals others with kill.
LEMMA OthersKeep ==
    ASSUME TypeOK, NEW c \in Clients, Process(c), NEW d \in Clients, d # c
    PROVE  /\ pc'[d] = pc[d] /\ id'[d] = id[d] /\ uid'[d] = uid[d]
           /\ todo'[d] = todo[d] /\ out'[d] = out[d]
           /\ sig'[d] = sig[d] \/ (SendKill(c) /\ Alive(d) /\ sig'[d] = sig[d] \cup {"pending"})
<1> USE DEF Goto, Sending, table, local, TypeOK
<1>1. ASSUME SendKill(c)
      PROVE  /\ pc'[d] = pc[d] /\ id'[d] = id[d] /\ uid'[d] = uid[d]
             /\ todo'[d] = todo[d] /\ out'[d] = out[d]
             /\ sig'[d] = sig[d] \/ (Alive(d) /\ sig'[d] = sig[d] \cup {"pending"})
  BY <1>1 DEF SendKill, Signalled
<1>2. ASSUME SendCheck(c) \/ SendPut(c) \/ HandlerShow(c) \/ HandlerClear(c) \/ HangUp(c)
      PROVE  /\ pc'[d] = pc[d] /\ id'[d] = id[d] /\ uid'[d] = uid[d]
             /\ todo'[d] = todo[d] /\ out'[d] = out[d] /\ sig'[d] = sig[d]
  BY <1>2 DEF SendCheck, SendPut, HandlerShow, HandlerClear, HangUp, DiesOfSigpipe
<1>3. ASSUME Accept(c) \/ Scan(c) \/ Fill(c) \/ SetPid(c) \/ SetUid(c)
             \/ Leave(c) \/ Memset(c) \/ Unlink(c)
      PROVE  /\ pc'[d] = pc[d] /\ id'[d] = id[d] /\ uid'[d] = uid[d]
             /\ todo'[d] = todo[d] /\ out'[d] = out[d] /\ sig'[d] = sig[d]
  BY <1>3 DEF Accept, Scan, Fill, SetPid, SetUid, Leave, Memset, Unlink
<1>4. ASSUME OpenRead(c) \/ Drain(c) \/ OpenWrite(c) \/ \E cmd \in Commands : Start(c, cmd)
      PROVE  /\ pc'[d] = pc[d] /\ id'[d] = id[d] /\ uid'[d] = uid[d]
             /\ todo'[d] = todo[d] /\ out'[d] = out[d] /\ sig'[d] = sig[d]
  BY <1>4 DEF OpenRead, Drain, OpenWrite, Start
<1> QED
  BY <1>1, <1>2, <1>3, <1>4 DEF Process

\* What SendCheck does to its process, case by case.
LEMMA CheckEffect ==
    ASSUME TypeOK, NEW c \in Clients, SendCheck(c)
    PROVE  /\ pc[c] = "check" /\ sig[c] = {}
           /\ UNCHANGED <<up, slot, fifo, id, uid, executed, sig>>
           /\ \/ /\ out[c].to = {} /\ out[c].then = "welcome"
                 /\ pc'[c] = "check" /\ todo'[c] = todo[c]
                 /\ out'[c].msg = ToAll /\ out'[c].to = Ids /\ out'[c].then = "login"
              \/ /\ out[c].to = {} /\ out[c].then \in {"login", "idle"}
                 /\ pc'[c] = "idle" /\ todo'[c] = NoCommand /\ out'[c] = Quiet
              \/ /\ out[c].to = {} /\ out[c].then = "gone"
                 /\ pc'[c] = "gone" /\ todo'[c] = NoCommand /\ out'[c] = Quiet
              \/ /\ out[c].to = {} /\ out[c].then = "write"
                 /\ pc'[c] = "write" /\ todo'[c] = todo[c] /\ out'[c] = Quiet
              \/ /\ out[c].to # {} /\ slot[Next1(c)].isConnected
                 /\ pc'[c] = "put" /\ todo'[c] = todo[c] /\ out'[c] = out[c]
              \/ /\ out[c].to # {} /\ ~slot[Next1(c)].isConnected
                 /\ pc'[c] = "check" /\ todo'[c] = todo[c]
                 /\ out'[c].msg = out[c].msg /\ out'[c].then = out[c].then
                 /\ out'[c].to = out[c].to \ {Next1(c)}
<1> USE DEF Goto, Sending, table
<1>1. /\ out[c] \in Out /\ out \in [Clients -> Out]
      /\ pc = [d \in Clients |-> pc[d]] /\ todo = [d \in Clients |-> todo[d]]
  BY DEF TypeOK
<1>2. out[c].then \in {"idle", "welcome", "login", "write", "gone"}
  BY <1>1 DEF Out
<1>3. /\ pc[c] = "check" /\ sig[c] = {}
      /\ UNCHANGED <<up, slot, fifo, id, uid, executed, sig>>
  BY DEF SendCheck, At
<1>4. CASE out[c].to = {} /\ out[c].then = "welcome"
  BY <1>1, <1>2, <1>3, <1>4 DEF SendCheck
<1>5. CASE out[c].to = {} /\ out[c].then # "welcome"
  <2>1. /\ pc'[c] = IF out[c].then = "login" THEN "idle" ELSE out[c].then
        /\ out'[c] = Quiet
        /\ todo'[c] = IF out[c].then = "write" THEN todo[c] ELSE NoCommand
    BY <1>1, <1>5 DEF SendCheck
  <2> QED
    BY <1>2, <1>3, <1>5, <2>1
<1>6. CASE out[c].to # {} /\ slot[Next1(c)].isConnected
  BY <1>1, <1>3, <1>6 DEF SendCheck
<1>7. CASE out[c].to # {} /\ ~slot[Next1(c)].isConnected
  <2>1. /\ out' = [out EXCEPT ![c].to = @ \ {Next1(c)}]
        /\ pc' = pc /\ todo' = todo
    BY <1>7 DEF SendCheck
  <2>2. out'[c] = [out[c] EXCEPT !.to = @ \ {Next1(c)}]
    BY <1>1, <2>1
  <2>3. /\ out'[c].msg = out[c].msg /\ out'[c].then = out[c].then
        /\ out'[c].to = out[c].to \ {Next1(c)}
    BY <1>1, <2>2 DEF Out
  <2> QED
    BY <1>3, <1>7, <2>1, <2>3
<1> QED
  BY <1>4, <1>5, <1>6, <1>7

\* What SendKill does to its process and to the signals.
LEMMA KillEffect ==
    ASSUME TypeOK, NEW c \in Clients, SendKill(c)
    PROVE  /\ pc[c] = "kill" /\ sig[c] = {} /\ pc'[c] = "check"
           /\ UNCHANGED <<slot, fifo, id, uid, todo, executed>>
           /\ out'[c].msg = out[c].msg /\ out'[c].then = out[c].then
           /\ out'[c].to = out[c].to \ {Next1(c)}
           /\ \A d \in Clients : sig'[d] = IF d \in Signalled(slot[Next1(c)].pid)
                                           THEN sig[d] \cup {"pending"} ELSE sig[d]
           /\ up' = (up /\ slot[Next1(c)].pid # Nobody)
<1> USE DEF Goto, table, local
<1>1. out[c] \in Out /\ out \in [Clients -> Out] /\ pc = [d \in Clients |-> pc[d]]
  BY DEF TypeOK
<1>2. /\ pc[c] = "kill" /\ sig[c] = {} /\ pc'[c] = "check"
      /\ UNCHANGED <<slot, fifo, id, uid, todo, executed>>
  BY <1>1 DEF SendKill, At
<1>3. out'[c] = [out[c] EXCEPT !.to = @ \ {Next1(c)}]
  BY <1>1 DEF SendKill
<1>4. /\ out'[c].msg = out[c].msg /\ out'[c].then = out[c].then
      /\ out'[c].to = out[c].to \ {Next1(c)}
  BY <1>1, <1>3 DEF Out
<1>5. \A d \in Clients : sig'[d] = IF d \in Signalled(slot[Next1(c)].pid)
                                   THEN sig[d] \cup {"pending"} ELSE sig[d]
  BY DEF SendKill
<1>6. up' = (up /\ slot[Next1(c)].pid # Nobody)
  BY DEF SendKill
<1> QED
  BY <1>2, <1>4, <1>5, <1>6

\* What SIGPIPE does to its process: it has its slot, and keeps it.
Dies(c) ==
    /\ Present(c) /\ pc[c] # "dead" /\ pc'[c] = "dead" /\ sig'[c] = {}
    /\ todo'[c] = NoCommand /\ out'[c].msg = out[c].msg /\ out'[c].to = out[c].to
    /\ out'[c].then = "gone"
    /\ UNCHANGED <<up, slot, fifo, id, uid, executed>>

\* What the signal handler and a closed connection do to their process.
LEMMA HandlerEffect ==
    ASSUME TypeOK, Shape, NEW c \in Clients
    PROVE  /\ HandlerShow(c) =>
                /\ "pending" \in sig[c] /\ "handling" \notin sig[c]
                /\ UNCHANGED <<up, slot, fifo, id, uid, executed>>
                /\ \/ /\ uid[c] = 0 /\ pc[c] \in Welcoming
                      /\ pc'[c] = "crashed" /\ sig'[c] = {} /\ UNCHANGED <<todo, out>>
                   \/ uid[c] # 0 /\ sig'[c] = {"handling"} /\ UNCHANGED <<pc, todo, out>>
                   \/ Dies(c)
           /\ HandlerClear(c) =>
                /\ "handling" \in sig[c] /\ sig'[c] = sig[c] \ {"handling"}
                /\ UNCHANGED <<up, fifo, pc, id, uid, todo, executed, out>>
           /\ HangUp(c) => pc[c] = "idle" /\ Dies(c)
<1> USE DEF Goto, table, local
<1>1. /\ pc = [d \in Clients |-> pc[d]] /\ sig = [d \in Clients |-> sig[d]]
      /\ todo = [d \in Clients |-> todo[d]] /\ out = [d \in Clients |-> out[d]]
      /\ out[c] \in Out /\ 0 \notin Ids
  BY BoundsAssumption DEF TypeOK, Ids
<1>2. ASSUME HandlerShow(c), uid[c] = 0 PROVE pc[c] \in Welcoming
  <2>1. sig[c] # {}
    BY <1>2 DEF HandlerShow
  <2> QED
    BY <1>1, <1>2, <2>1 DEF Shape, ShapeOf, Outside
<1>3. ASSUME DiesOfSigpipe(c)
      PROVE  /\ pc'[c] = "dead" /\ sig'[c] = {} /\ todo'[c] = NoCommand
             /\ out'[c].msg = out[c].msg /\ out'[c].to = out[c].to /\ out'[c].then = "gone"
  <2>1. pc'[c] = "dead" /\ sig'[c] = {} /\ todo'[c] = NoCommand
    BY <1>1, <1>3 DEF DiesOfSigpipe
  <2>2. out'[c] = [out[c] EXCEPT !.then = "gone"]
    BY <1>1, <1>3 DEF DiesOfSigpipe
  <2> QED
    BY <1>1, <2>1, <2>2 DEF Out
<1>4. ASSUME HandlerShow(c), uid[c] # 0, pc[c] \notin Leaving, out[c].then # "gone"
      PROVE  Present(c) /\ pc[c] # "dead"
  <2>1. sig[c] # {}
    BY <1>4 DEF HandlerShow
  <2>2. pc[c] \notin Outside \cup {"gone", "dead"}
    BY <1>4, <2>1 DEF Shape, ShapeOf
  <2>3. pc[c] \in Welcoming \cup Leaving \cup
                  {"none", "idle", "check", "put", "kill", "read", "drain",
                   "stuck", "write", "leave", "gone", "crashed", "dead"}
    BY DEF TypeOK
  <2> QED
    BY <1>4, <2>2, <2>3 DEF Present, Sends, Outside
<1>5. ASSUME HandlerShow(c)
      PROVE  /\ "pending" \in sig[c] /\ "handling" \notin sig[c]
             /\ UNCHANGED <<up, slot, fifo, id, uid, executed>>
             /\ \/ uid[c] = 0 /\ pc'[c] = "crashed" /\ sig'[c] = {} /\ UNCHANGED <<todo, out>>
                \/ uid[c] # 0 /\ sig'[c] = {"handling"} /\ UNCHANGED <<pc, todo, out>>
                \/ uid[c] # 0 /\ pc[c] \notin Leaving /\ out[c].then # "gone" /\ DiesOfSigpipe(c)
  BY <1>1, <1>5 DEF HandlerShow
<1>6. ASSUME HandlerClear(c)
      PROVE  /\ "handling" \in sig[c] /\ sig'[c] = sig[c] \ {"handling"}
             /\ UNCHANGED <<up, fifo, pc, id, uid, todo, executed, out>>
  BY <1>1, <1>6 DEF HandlerClear
<1>7. ASSUME HangUp(c) PROVE pc[c] = "idle" /\ Dies(c)
  BY <1>3, <1>7 DEF HangUp, Dies, Present
<1>8. HandlerShow(c) => \/ /\ uid[c] = 0 /\ pc[c] \in Welcoming
                           /\ pc'[c] = "crashed" /\ sig'[c] = {} /\ UNCHANGED <<todo, out>>
                        \/ uid[c] # 0 /\ sig'[c] = {"handling"} /\ UNCHANGED <<pc, todo, out>>
                        \/ Dies(c)
  BY <1>2, <1>3, <1>4, <1>5 DEF Dies
<1> QED
  BY <1>5, <1>6, <1>7, <1>8

\* What the steps of addUser do to their process.
LEMMA WelcomeEffect ==
    ASSUME TypeOK, NEW c \in Clients
    PROVE  /\ Accept(c) => /\ up /\ pc[c] = "none" /\ pc'[c] = "scan" /\ id'[c] = 1
                           /\ UNCHANGED <<up, slot, fifo, uid, todo, executed, sig, out>>
           /\ Scan(c) => /\ pc[c] = "scan" /\ sig[c] = {}
                         /\ UNCHANGED <<up, slot, fifo, uid, todo, executed, sig, out>>
                         /\ \/ /\ ~slot[id[c]].isConnected /\ pc'[c] = "fill" /\ id' = id
                            \/ /\ slot[id[c]].isConnected /\ pc'[c] = "scan" /\ id'[c] = id[c] + 1
           /\ Fill(c) => /\ pc[c] = "fill" /\ sig[c] = {} /\ pc'[c] = "pid"
                         /\ UNCHANGED <<up, fifo, id, uid, todo, executed, sig, out>>
           /\ SetPid(c) => /\ pc[c] = "pid" /\ sig[c] = {} /\ pc'[c] = "uid"
                           /\ UNCHANGED <<up, fifo, id, uid, todo, executed, sig, out>>
           /\ SetUid(c) => /\ pc[c] = "uid" /\ sig[c] = {} /\ pc'[c] = "put" /\ uid'[c] = id[c]
                           /\ out'[c].msg = [for |-> {c}] /\ out'[c].to = {id[c]}
                           /\ out'[c].then = "welcome"
                           /\ UNCHANGED <<up, slot, fifo, id, todo, executed, sig>>
<1> USE DEF Goto, Sending, table, local, At
<1>1. /\ pc = [d \in Clients |-> pc[d]] /\ id = [d \in Clients |-> id[d]]
      /\ uid = [d \in Clients |-> uid[d]] /\ out = [d \in Clients |-> out[d]]
  BY DEF TypeOK
<1>2. ASSUME Accept(c)
      PROVE  /\ up /\ pc[c] = "none" /\ pc'[c] = "scan" /\ id'[c] = 1
             /\ UNCHANGED <<up, slot, fifo, uid, todo, executed, sig, out>>
  BY <1>1, <1>2 DEF Accept
<1>3. ASSUME Scan(c)
      PROVE  /\ pc[c] = "scan" /\ sig[c] = {}
             /\ UNCHANGED <<up, slot, fifo, uid, todo, executed, sig, out>>
             /\ \/ /\ ~slot[id[c]].isConnected /\ pc'[c] = "fill" /\ id' = id
                \/ /\ slot[id[c]].isConnected /\ pc'[c] = "scan" /\ id'[c] = id[c] + 1
  BY <1>1, <1>3 DEF Scan, SlotFree
<1>4. ASSUME Fill(c) PROVE /\ pc[c] = "fill" /\ sig[c] = {} /\ pc'[c] = "pid"
                           /\ UNCHANGED <<up, fifo, id, uid, todo, executed, sig, out>>
  BY <1>1, <1>4 DEF Fill
<1>5. ASSUME SetPid(c) PROVE /\ pc[c] = "pid" /\ sig[c] = {} /\ pc'[c] = "uid"
                             /\ UNCHANGED <<up, fifo, id, uid, todo, executed, sig, out>>
  BY <1>1, <1>5 DEF SetPid
<1>6. ASSUME SetUid(c)
      PROVE  /\ pc[c] = "uid" /\ sig[c] = {} /\ pc'[c] = "put" /\ uid'[c] = id[c]
             /\ out'[c].msg = [for |-> {c}] /\ out'[c].to = {id[c]}
             /\ out'[c].then = "welcome"
             /\ UNCHANGED <<up, slot, fifo, id, todo, executed, sig>>
  BY <1>1, <1>6 DEF SetUid
<1> QED
  BY <1>2, <1>3, <1>4, <1>5, <1>6

\* What the steps of removeUser do to their process.
LEMMA GoodbyeEffect ==
    ASSUME TypeOK, NEW c \in Clients
    PROVE  /\ Leave(c) => /\ pc[c] = "leave" /\ sig[c] = {} /\ pc'[c] = "memset"
                          /\ UNCHANGED <<up, fifo, id, uid, todo, executed, sig, out>>
           /\ Memset(c) => /\ pc[c] = "memset" /\ sig[c] = {} /\ pc'[c] = "unlink"
                           /\ UNCHANGED <<up, fifo, id, uid, todo, executed, sig, out>>
           /\ Unlink(c) => /\ pc[c] = "unlink" /\ sig[c] = {} /\ pc'[c] = "check"
                           /\ out'[c].msg = ToAll /\ out'[c].to = Ids /\ out'[c].then = "gone"
                           /\ UNCHANGED <<up, slot, id, uid, todo, executed, sig>>
<1> USE DEF Goto, Sending, table, local, At
<1>1. pc = [d \in Clients |-> pc[d]] /\ out = [d \in Clients |-> out[d]]
  BY DEF TypeOK
<1>2. ASSUME Leave(c) PROVE /\ pc[c] = "leave" /\ sig[c] = {} /\ pc'[c] = "memset"
                            /\ UNCHANGED <<up, fifo, id, uid, todo, executed, sig, out>>
  BY <1>1, <1>2 DEF Leave
<1>3. ASSUME Memset(c) PROVE /\ pc[c] = "memset" /\ sig[c] = {} /\ pc'[c] = "unlink"
                             /\ UNCHANGED <<up, fifo, id, uid, todo, executed, sig, out>>
  BY <1>1, <1>3 DEF Memset
<1>4. ASSUME Unlink(c)
      PROVE  /\ pc[c] = "unlink" /\ sig[c] = {} /\ pc'[c] = "check"
             /\ out'[c].msg = ToAll /\ out'[c].to = Ids /\ out'[c].then = "gone"
             /\ UNCHANGED <<up, slot, id, uid, todo, executed, sig>>
  BY <1>1, <1>4 DEF Unlink
<1> QED
  BY <1>2, <1>3, <1>4

\* What the steps of a command do to their process.
LEMMA CommandEffect ==
    ASSUME TypeOK, NEW c \in Clients
    PROVE  /\ \A cmd \in Commands : Start(c, cmd) =>
                /\ pc[c] = "idle" /\ sig[c] = {} /\ todo'[c] = cmd
                /\ UNCHANGED <<up, slot, fifo, id, uid, sig>>
                /\ \/ /\ cmd.op = "tell" /\ pc'[c] = "check"
                      /\ out'[c].msg = [for |-> Owner(cmd.uid)] /\ out'[c].to = {cmd.uid}
                      /\ out'[c].then = "idle"
                   \/ /\ cmd.op = "yell" /\ pc'[c] = "check"
                      /\ out'[c].msg = ToAll /\ out'[c].to = Ids /\ out'[c].then = "idle"
                   \/ cmd.op = "exit" /\ pc'[c] = "leave" /\ out' = out
                   \/ cmd.op = "run" /\ pc'[c] = "read" /\ out' = out
           /\ OpenRead(c) =>
                /\ pc[c] = "read" /\ sig[c] = {}
                /\ UNCHANGED <<up, slot, fifo, id, uid, todo, executed, sig, out>>
                /\ \/ /\ todo[c].from # 0 /\ slot[todo[c].from].isConnected
                      /\ fifo[todo[c].from][uid[c]] # Nobody /\ pc'[c] = "drain"
                   \/ pc'[c] = "write"
           /\ Drain(c) =>
                /\ pc[c] = "drain" /\ sig[c] = {}
                /\ UNCHANGED <<up, slot, id, uid, executed, sig>>
                /\ \/ /\ pc'[c] = "check" /\ todo' = todo
                      /\ out'[c].msg = ToAll /\ out'[c].to = Ids /\ out'[c].then = "write"
                      /\ fifo' = [fifo EXCEPT ![todo[c].from][uid[c]] = Nobody]
                   \/ pc'[c] = "stuck" /\ todo'[c] = NoCommand /\ UNCHANGED <<fifo, out>>
           /\ OpenWrite(c) =>
                /\ pc[c] = "write" /\ sig[c] = {}
                /\ UNCHANGED <<up, slot, id, uid, executed, sig>>
                /\ \/ /\ todo[c].to # 0 /\ slot[todo[c].to].isConnected
                      /\ fifo' = [fifo EXCEPT ![uid[c]][todo[c].to] = c]
                   \/ fifo' = fifo
                /\ \/ /\ pc'[c] = "check" /\ todo'[c] = todo[c]
                      /\ out'[c].msg = ToAll /\ out'[c].to = Ids /\ out'[c].then = "idle"
                   \/ pc'[c] = "idle" /\ todo'[c] = NoCommand /\ out' = out
<1> USE DEF Goto, Sending, table, local, At
<1>1. /\ pc = [d \in Clients |-> pc[d]] /\ todo = [d \in Clients |-> todo[d]]
      /\ out = [d \in Clients |-> out[d]]
  BY DEF TypeOK
<1>2. ASSUME NEW cmd \in Commands, Start(c, cmd)
      PROVE  /\ pc[c] = "idle" /\ sig[c] = {} /\ todo'[c] = cmd
             /\ UNCHANGED <<up, slot, fifo, id, uid, sig>>
             /\ \/ /\ cmd.op = "tell" /\ pc'[c] = "check"
                   /\ out'[c].msg = [for |-> Owner(cmd.uid)] /\ out'[c].to = {cmd.uid}
                   /\ out'[c].then = "idle"
                \/ /\ cmd.op = "yell" /\ pc'[c] = "check"
                   /\ out'[c].msg = ToAll /\ out'[c].to = Ids /\ out'[c].then = "idle"
                \/ cmd.op = "exit" /\ pc'[c] = "leave" /\ out' = out
                \/ cmd.op = "run" /\ pc'[c] = "read" /\ out' = out
  BY <1>1, <1>2 DEF Start
<1>3. ASSUME OpenRead(c)
      PROVE  /\ pc[c] = "read" /\ sig[c] = {}
             /\ UNCHANGED <<up, slot, fifo, id, uid, todo, executed, sig, out>>
             /\ \/ /\ todo[c].from # 0 /\ slot[todo[c].from].isConnected
                   /\ fifo[todo[c].from][uid[c]] # Nobody /\ pc'[c] = "drain"
                \/ pc'[c] = "write"
  BY <1>1, <1>3 DEF OpenRead, FifoExists
<1>4. ASSUME Drain(c)
      PROVE  /\ pc[c] = "drain" /\ sig[c] = {}
             /\ UNCHANGED <<up, slot, id, uid, executed, sig>>
             /\ \/ /\ pc'[c] = "check" /\ todo' = todo
                   /\ out'[c].msg = ToAll /\ out'[c].to = Ids /\ out'[c].then = "write"
                   /\ fifo' = [fifo EXCEPT ![todo[c].from][uid[c]] = Nobody]
                \/ pc'[c] = "stuck" /\ todo'[c] = NoCommand /\ UNCHANGED <<fifo, out>>
  BY <1>1, <1>4 DEF Drain
<1>5. ASSUME OpenWrite(c)
      PROVE  /\ pc[c] = "write" /\ sig[c] = {}
             /\ UNCHANGED <<up, slot, id, uid, executed, sig>>
             /\ \/ /\ todo[c].to # 0 /\ slot[todo[c].to].isConnected
                   /\ fifo' = [fifo EXCEPT ![uid[c]][todo[c].to] = c]
                \/ fifo' = fifo
             /\ \/ /\ pc'[c] = "check" /\ todo'[c] = todo[c]
                   /\ out'[c].msg = ToAll /\ out'[c].to = Ids /\ out'[c].then = "idle"
                \/ pc'[c] = "idle" /\ todo'[c] = NoCommand /\ out' = out
  BY <1>1, <1>5 DEF OpenWrite
<1> QED
  BY <1>2, <1>3, <1>4, <1>5

\* Every step keeps what a process knows of itself.
LEMMA ShapeStep ==
    ASSUME Inv, NEW c \in Clients, Process(c)
    PROVE  Shape'
<1>0. TypeOK /\ TypeOK' /\ Shape /\ ShapeOf(c)
  BY TypeStep DEF Inv, Shape
<1>1. ASSUME NEW d \in Clients, d # c PROVE ShapeOf(d)'
  <2>1. ShapeOf(d)
    BY <1>0 DEF Shape
  <2> QED
    BY <1>0, <1>1, <2>1, OthersKeep DEF ShapeOf, Sends, Alive
<1> SUFFICES ShapeOf(c)'
  BY <1>1 DEF Shape
<1> USE DEF Outside, Welcoming, Leaving, Sends, ShapeOf
<1>2. CASE SendCheck(c)
  BY <1>0, <1>2, CheckEffect, MessageTypes
<1>3. CASE SendPut(c)
  <2>1. /\ pc[c] = "put" /\ pc'[c] = "kill"
        /\ UNCHANGED <<id, uid, sig, todo, out>>
    BY <1>0, <1>3 DEF SendPut, At, Goto, local, TypeOK
  <2> QED
    BY <1>0, <2>1
<1>4. CASE SendKill(c)
  <2>1. pc'[c] = "check" /\ pc[c] = "kill" /\ UNCHANGED <<id, uid, todo>>
        /\ out'[c].msg = out[c].msg /\ out'[c].then = out[c].then
    BY <1>0, <1>4, KillEffect
  <2> QED
    BY <1>0, <2>1
<1>5. CASE HandlerShow(c) \/ HandlerClear(c) \/ HangUp(c)
  <2>1. CASE Dies(c)
    <3>1. uid[c] = id[c] /\ id[c] \in Ids
      BY <1>0, <2>1 DEF Dies, Present
    <3> QED
      BY <1>0, <2>1, <3>1 DEF Dies
  <2>2. CASE ~Dies(c)
    BY <1>0, <1>5, <2>2, HandlerEffect
  <2> QED
    BY <2>1, <2>2
<1>6. CASE Accept(c)
  <2>1. 1 \in Ids
    <3>1. id'[c] = 1
      BY <1>0, <1>6, WelcomeEffect
    <3>2. id'[c] \in Ids \cup {0}
      BY <1>0 DEF TypeOK
    <3> QED
      BY <3>1, <3>2
  <2> QED
    BY <1>0, <1>6, <2>1, WelcomeEffect
<1>7. CASE Scan(c)
  BY <1>0, <1>7, FreeSlot, WelcomeEffect
<1>8. CASE Fill(c) \/ SetPid(c)
  BY <1>0, <1>8, WelcomeEffect
<1>9. CASE SetUid(c)
  <2>0. pc[c] = "uid" /\ [for |-> {c}] # Nobody
    <3>1. pc[c] = "uid"
      BY <1>0, <1>9, WelcomeEffect
    <3>2. [for |-> {c}] # Nobody
      BY MessageTypes
    <3> QED
      BY <3>1, <3>2
  <2>1. id[c] \in Ids /\ todo[c] = NoCommand /\ [for |-> {c}] # Nobody
    BY <1>0, <2>0
  <2>2. /\ pc'[c] = "put" /\ uid'[c] = id[c] /\ id'[c] = id[c] /\ todo'[c] = todo[c]
        /\ out'[c].msg = [for |-> {c}] /\ out'[c].to = {id[c]} /\ out'[c].then = "welcome"
    BY <1>0, <1>9, WelcomeEffect
  <2>3. out'[c].msg # Nobody /\ out'[c].to # {}
    BY <2>1, <2>2
  <2> QED
    BY <2>1, <2>2, <2>3
<1>10. CASE Leave(c) \/ Memset(c) \/ Unlink(c)
  BY <1>0, <1>10, GoodbyeEffect, MessageTypes
<1>11. CASE OpenRead(c) \/ Drain(c) \/ OpenWrite(c)
  BY <1>0, <1>11, CommandEffect, MessageTypes, ZenonT(60)
<1>12. ASSUME NEW cmd \in Commands, Start(c, cmd) PROVE ShapeOf(c)'
  <2>1. /\ cmd.op \in {"tell", "yell", "exit", "run"}
        /\ cmd.op = "tell" => cmd.uid \in Ids /\ Owner(cmd.uid) \in SUBSET Clients
    BY <1>0, CommandKinds DEF TypeOK, Owner
  <2>2. cmd.op = "tell" => [for |-> Owner(cmd.uid)] # Nobody
    BY <2>1, MessageTypes
  <2> QED
    BY <1>0, <1>12, <2>1, <2>2, CommandEffect, MessageTypes, ZenonT(60)
<1> QED
  BY <1>2, <1>3, <1>4, <1>5, <1>6, <1>7, <1>8, <1>9, <1>10, <1>11, <1>12 DEF Process

\* Steps that begin a command, a login or a logout.
LEMMA Begins ==
    ASSUME TypeOK, Shape, NEW c \in Clients, Process(c)
    PROVE  /\ Busy(c)' => Busy(c) \/ \E cmd \in Commands : Start(c, cmd)
           /\ LoggingIn(c)' => LoggingIn(c) \/ Accept(c)
           /\ todo'[c].op = "exit" =>
                todo[c].op = "exit" \/ \E cmd \in Commands : Start(c, cmd) /\ cmd.op = "exit"
<1> USE DEF Busy, LoggingIn, Welcoming
<1>0. ShapeOf(c)
  BY DEF Shape
<1>1. CASE SendCheck(c)
  BY <1>1, CheckEffect, MessageTypes
<1>2. CASE SendPut(c)
  <2>1. pc'[c] = "kill" /\ UNCHANGED <<todo, out>>
    BY <1>2 DEF SendPut, At, Goto, local, TypeOK
  <2> QED
    BY <2>1
<1>3. CASE SendKill(c)
  <2>1. pc'[c] = "check" /\ todo' = todo /\ out'[c].then = out[c].then
    BY <1>3, KillEffect
  <2> QED
    BY <2>1
<1>4. CASE HandlerShow(c) \/ HandlerClear(c) \/ HangUp(c)
  BY <1>4, HandlerEffect, MessageTypes DEF Dies
<1>5. CASE Accept(c) \/ Scan(c) \/ Fill(c) \/ SetPid(c) \/ SetUid(c)
  BY <1>5, WelcomeEffect
<1>6. CASE Leave(c) \/ Memset(c) \/ Unlink(c)
  BY <1>6, GoodbyeEffect
<1>7. CASE OpenRead(c) \/ Drain(c) \/ OpenWrite(c)
  BY <1>0, <1>7, CommandEffect, MessageTypes DEF ShapeOf
<1>8. CASE \E cmd \in Commands : Start(c, cmd)
  BY <1>0, <1>8, CommandEffect, MessageTypes DEF ShapeOf
<1> QED
  BY <1>1, <1>2, <1>3, <1>4, <1>5, <1>6, <1>7, <1>8 DEF Process

\* Every step keeps the exclusion: one command at a time, and no login beside
\* another login or a logout.
LEMMA ExclusiveStep ==
    ASSUME Inv, ~Overlap, NEW c \in Clients, Process(c)
    PROVE  Exclusive'
<1>0. TypeOK /\ Shape /\ Exclusive
  BY DEF Inv
<1>1. \A d \in Clients : d # c => /\ Busy(d)' <=> Busy(d)
                                  /\ LoggingIn(d)' <=> LoggingIn(d)
                                  /\ todo'[d] = todo[d]
  BY <1>0, OthersKeep DEF Busy, LoggingIn
<1>2. /\ Busy(c)' => Busy(c) \/ \A d \in Clients : ~Busy(d)
      /\ LoggingIn(c)' => LoggingIn(c) \/ \A d \in Clients : ~LoggingIn(d) /\ todo[d].op # "exit"
      /\ todo'[c].op = "exit" => todo[c].op = "exit" \/ \A d \in Clients : ~LoggingIn(d)
  BY <1>0, Begins DEF Accept, Start
<1>3. ~(LoggingIn(c)' /\ todo'[c].op = "exit")
  <2>1. ShapeOf(c)'
    BY ShapeStep DEF Shape
  <2>2. pc'[c] \in Welcoming \cup Leaving \cup
                    {"none", "idle", "check", "put", "kill", "read", "drain",
                     "stuck", "write", "leave", "gone", "crashed", "dead"}
    BY TypeStep DEF TypeOK
  <2> QED
    BY <2>1, <2>2, MessageTypes DEF ShapeOf, LoggingIn, Outside, Sends, Welcoming, Leaving
<1> QED
  BY <1>0, <1>1, <1>2, <1>3 DEF Exclusive

-----------------------------------------------------------------------------
(* The shared table.                                                       *)

\* The steps that leave the table of users alone.
KeepsTable(c) == \/ SendCheck(c) \/ SendKill(c) \/ HandlerShow(c) \/ Accept(c) \/ Scan(c)
                 \/ SetUid(c) \/ Unlink(c) \/ OpenRead(c) \/ Drain(c) \/ OpenWrite(c)
                 \/ HangUp(c) \/ \E cmd \in Commands : Start(c, cmd)

\* What Put, Clear and the four writes of addUser and removeUser do to their
\* own process.
LEMMA WriterEffect ==
    ASSUME TypeOK, Shape, NEW c \in Clients
    PROVE  /\ KeepsTable(c) => slot' = slot
           /\ SendPut(c) => /\ pc[c] = "put" /\ sig[c] = {} /\ pc'[c] = "kill"
                            /\ UNCHANGED <<up, fifo, id, uid, sig, todo, out>>
<1>1. ASSUME SendPut(c) PROVE /\ pc[c] = "put" /\ sig[c] = {} /\ pc'[c] = "kill"
                              /\ UNCHANGED <<up, fifo, id, uid, sig, todo, out>>
  BY <1>1 DEF SendPut, At, Goto, local, TypeOK
<1>2. ASSUME KeepsTable(c) PROVE slot' = slot
  <2>1. SendCheck(c) \/ SendKill(c) => slot' = slot
    BY CheckEffect, KillEffect
  <2>2. HandlerShow(c) \/ HangUp(c) => slot' = slot
    BY HandlerEffect DEF Dies
  <2>3. Accept(c) \/ Scan(c) \/ SetUid(c) \/ Unlink(c) => slot' = slot
    BY WelcomeEffect, GoodbyeEffect
  <2>4. OpenRead(c) \/ Drain(c) \/ OpenWrite(c) \/ (\E cmd \in Commands : Start(c, cmd)) => slot' = slot
    BY CommandEffect
  <2> QED
    BY <1>2, <2>1, <2>2, <2>3, <2>4 DEF KeepsTable
<1> QED
  BY <1>1, <1>2

\* A process that is between SetUid and Leave stays so until it leaves; how a
\* process comes to be there, and to be between Leave and its end.
LEMMA PhaseStep ==
    ASSUME Inv, NEW c \in Clients, Process(c)
    PROVE  /\ Present(c) => Present(c)' \/ (Leave(c) /\ pc'[c] = "memset")
           /\ pc[c] = "uid" => Present(c)' \/ pc'[c] \in {"uid", "crashed"}
           /\ pc[c] = "pid" => pc'[c] \in {"pid", "uid", "crashed"}
           /\ pc[c] = "crashed" => pc'[c] = "crashed"
           /\ pc[c] = "memset" => pc'[c] = "memset" \/ Memset(c)
           /\ pc[c] \notin {"none", "scan"} => id'[c] = id[c]
           /\ Present(c)' => Present(c) \/ SetUid(c)
           /\ Departed(c)' => Departed(c) \/ Leave(c)
           /\ Departed(c) => Departed(c)' \/ pc'[c] = "gone"
<1> USE DEF Present, Departed, Sends, Welcoming, Leaving
<1>0. TypeOK /\ Shape /\ ShapeOf(c)
  BY DEF Inv, Shape
<1>1. CASE SendCheck(c)
  BY <1>0, <1>1, CheckEffect
<1>2. CASE SendPut(c)
  BY <1>0, <1>2, WriterEffect
<1>3. CASE SendKill(c)
  <2>1. pc[c] = "kill" /\ pc'[c] = "check" /\ id' = id /\ out'[c].then = out[c].then
    BY <1>0, <1>3, KillEffect
  <2> QED
    BY <2>1
<1>4. CASE HandlerShow(c) \/ HandlerClear(c) \/ HangUp(c)
  <2>1. CASE Dies(c)
    BY <1>0, <2>1 DEF Dies, ShapeOf
  <2>2. CASE ~Dies(c)
    BY <1>0, <1>4, <2>2, HandlerEffect DEF ShapeOf
  <2> QED
    BY <2>1, <2>2
<1>5. CASE Accept(c) \/ Scan(c) \/ Fill(c) \/ SetPid(c) \/ SetUid(c)
  BY <1>0, <1>5, WelcomeEffect
<1>6. CASE Leave(c) \/ Memset(c) \/ Unlink(c)
  BY <1>0, <1>6, GoodbyeEffect
<1>7. CASE OpenRead(c) \/ Drain(c) \/ OpenWrite(c)
  BY <1>0, <1>7, CommandEffect
<1>8. CASE \E cmd \in Commands : Start(c, cmd)
  BY <1>0, <1>8, CommandEffect
<1> QED
  BY <1>1, <1>2, <1>3, <1>4, <1>5, <1>6, <1>7, <1>8 DEF Process

\* Beside a login there is no other login and no logout; beside a logout there
\* is no login, no command and no message on its way.
LEMMA Alone ==
    ASSUME Inv, NEW c \in Clients, NEW d \in Clients, d # c
    PROVE  /\ pc[c] \in Welcoming =>
                pc[d] \notin Welcoming /\ ~Departed(d) /\ pc[d] # "leave"
           /\ pc[c] \in Leaving \cup {"leave"} =>
                /\ pc[d] \notin Welcoming \cup Leaving \cup {"leave", "read", "drain", "write"}
                /\ ~Sends(d) /\ ~Departed(d)
<1>0. TypeOK /\ ShapeOf(c) /\ ShapeOf(d) /\ Exclusive
  BY DEF Inv, Shape
<1>1. out[d].then \in {"idle", "welcome", "login", "write", "gone"}
  BY <1>0 DEF TypeOK, Out
<1>2. Departed(d) \/ pc[d] = "leave" => todo[d].op = "exit"
  BY <1>0 DEF ShapeOf, Departed, Leaving
<1>3. pc[c] \in Leaving \cup {"leave"} => todo[c].op = "exit" /\ Busy(c)
  BY <1>0, MessageTypes DEF ShapeOf, Leaving, Busy
<1>4. Sends(d) => Busy(d) \/ LoggingIn(d)
  BY <1>0, <1>1, MessageTypes DEF ShapeOf, Busy, LoggingIn
<1>5. pc[d] \in Leaving \cup {"leave", "read", "drain", "write"} => Busy(d)
  BY <1>0, MessageTypes DEF ShapeOf, Leaving, Busy
<1>6. /\ pc[c] \in Welcoming => LoggingIn(c)
      /\ pc[d] \in Welcoming => LoggingIn(d)
  BY DEF LoggingIn
<1> QED
  BY <1>0, <1>2, <1>3, <1>4, <1>5, <1>6 DEF Exclusive, Departed

\* Every step keeps what a process knows of its slot.
LEMMA SlotOfProcessStep ==
    ASSUME Inv, NEW c \in Clients, Process(c)
    PROVE  SlotOfProcess'
<1>0. /\ TypeOK /\ Shape /\ ShapeOf(c) /\ Exclusive /\ Table
      /\ \A d \in Clients : SlotOf(d)
      /\ \A i \in Ids : ProcessOf(i)
  BY DEF Inv, Shape, Table, SlotOfProcess, ProcessOfSlot
<1>1. \A d \in Clients : d # c => /\ pc'[d] = pc[d] /\ id'[d] = id[d] /\ out'[d] = out[d]
                                  /\ Next1(d)' = Next1(d)
                                  /\ Present(d)' = Present(d) /\ Departed(d)' = Departed(d)
  BY <1>0, OthersKeep DEF Next1, Present, Departed, Sends
<1> USE DEF SlotOf
<1>2. ASSUME KeepsTable(c), NEW d \in Clients, d # c PROVE SlotOf(d)'
  BY <1>0, <1>1, <1>2, WriterEffect
<1>3. CASE SendCheck(c)
  <2>1. SlotOf(c)'
    BY <1>0, <1>3, CheckEffect DEF Present, Departed, Sends, Leaving, Next1
  <2> QED
    BY <1>2, <1>3, <2>1 DEF KeepsTable, SlotOfProcess
<1>4. CASE SendKill(c)
  <2>1. pc[c] = "kill" /\ pc'[c] = "check" /\ UNCHANGED <<slot, id>> /\ out'[c].then = out[c].then
    BY <1>0, <1>4, KillEffect
  <2>2. SlotOf(c)'
    BY <1>0, <2>1 DEF Present, Departed, Sends, Leaving
  <2> QED
    BY <1>2, <1>4, <2>2 DEF KeepsTable, SlotOfProcess
<1>5. CASE HandlerShow(c) \/ HangUp(c)
  <2>1. SlotOf(c)'
    <3>1. CASE Dies(c)
      BY <1>0, <3>1 DEF Dies, Present, Departed, Sends, Leaving
    <3>2. CASE ~Dies(c)
      BY <1>0, <1>5, <3>2, HandlerEffect DEF Present, Departed, Sends, Leaving, Next1
    <3> QED
      BY <3>1, <3>2
  <2> QED
    BY <1>2, <1>5, <2>1 DEF KeepsTable, SlotOfProcess
<1>6. CASE Accept(c)
  <2>1. SlotOf(c)'
    <3>1. pc'[c] = "scan" /\ id'[c] = 1
      BY <1>0, <1>6, WelcomeEffect
    <3>2. \A i \in 1 .. id'[c] - 1 : FALSE
      BY <3>1
    <3> QED
      BY <3>1, <3>2 DEF Present, Departed, Sends, Leaving
  <2> QED
    BY <1>2, <1>6, <2>1 DEF KeepsTable, SlotOfProcess
<1>7. CASE Scan(c)
  <2>0. pc[c] = "scan" /\ slot' = slot /\ id[c] \in Ids /\ id[c] \in Nat
    <3>1. pc[c] = "scan" /\ slot' = slot
      BY <1>0, <1>7, WelcomeEffect
    <3>2. id[c] \in Ids
      BY <1>0, <3>1 DEF ShapeOf, Welcoming
    <3> QED
      BY <3>1, <3>2, BoundsAssumption DEF Ids
  <2>1. ASSUME ~slot[id[c]].isConnected PROVE slot[id[c]] = Free
    <3>1. \A d \in Clients : pc[d] # "memset"
      BY <2>0, Alone DEF Welcoming, Departed, Leaving
    <3>2. slot[id[c]].buffer = Nobody /\ slot[id[c]].pid = Nobody
      BY <1>0, <2>0, <2>1, <3>1 DEF ProcessOf
    <3>3. slot[id[c]] \in SlotTypes
      BY <1>0, <2>0 DEF TypeOK, SlotTypes
    <3> QED
      BY <2>1, <3>2, <3>3 DEF SlotTypes, Free
  <2>2. ASSUME ~slot[id[c]].isConnected PROVE SlotOf(c)'
    BY <1>0, <1>7, <2>0, <2>1, <2>2, WelcomeEffect DEF Present, Departed, Sends, Leaving
  <2>3. ASSUME slot[id[c]].isConnected PROVE SlotOf(c)'
    <3>1. pc'[c] = "scan" /\ id'[c] = id[c] + 1
      BY <1>0, <1>7, <2>3, WelcomeEffect
    <3>2. \A i \in 1 .. id'[c] - 1 : i = id[c] \/ i \in 1 .. id[c] - 1
      BY <2>0, <3>1
    <3> QED
      BY <1>0, <2>0, <2>3, <3>1, <3>2 DEF Present, Departed, Sends, Leaving
  <2> QED
    BY <1>2, <1>7, <2>2, <2>3 DEF KeepsTable, SlotOfProcess
<1>8. CASE Fill(c)
  <2>1. PICK i \in Ids : i = id[c] /\ Updated(i, TRUE, slot[i].pid, slot[i].buffer)
    BY <1>0, <1>8, LoginEffect
  <2>2. pc[c] = "fill" /\ pc'[c] = "pid" /\ id' = id /\ slot[i].pid = Nobody /\ ~slot[i].isConnected
    BY <1>0, <1>8, <2>1, WelcomeEffect, MessageTypes
  <2>3. SlotOf(c)'
    BY <2>1, <2>2 DEF Present, Departed, Sends, Leaving, Updated
  <2>4. ASSUME NEW d \in Clients, d # c PROVE SlotOf(d)'
    <3>1. pc[d] \notin Welcoming /\ ~Departed(d)
      BY <2>2, <2>4, Alone DEF Welcoming
    <3>2. Present(d) => id[d] # i
      BY <1>0, <2>2
    <3>3. id[d] \in Ids \cup {0} /\ (Present(d) => id[d] \in Ids)
      BY <1>0 DEF TypeOK, Shape, ShapeOf, Present, Sends, Outside, Welcoming
    <3>4. pc[d] \in {"put", "kill"} => slot'[Next1(d)].isConnected
      <4> SUFFICES ASSUME pc[d] \in {"put", "kill"} PROVE slot'[Next1(d)].isConnected
        OBVIOUS
      <4>1. Next1(d) \in Ids
        BY <1>0, Next1InTo DEF Shape, ShapeOf
      <4> QED
        BY <1>0, <2>1, <4>1 DEF Updated
    <3> QED
      BY <1>0, <1>1, <2>1, <2>4, <3>1, <3>2, <3>3, <3>4 DEF Welcoming, Updated
  <2> QED
    BY <2>3, <2>4 DEF SlotOfProcess
<1>9. CASE SetPid(c)
  <2>1. PICK i \in Ids : i = id[c] /\ Updated(i, slot[i].isConnected, c, slot[i].buffer)
    BY <1>0, <1>9, LoginEffect
  <2>2. pc[c] = "pid" /\ pc'[c] = "uid" /\ id' = id /\ slot[i].pid = Nobody /\ slot[i].isConnected
    BY <1>0, <1>9, <2>1, WelcomeEffect
  <2>3. SlotOf(c)'
    BY <2>1, <2>2 DEF Present, Departed, Sends, Leaving, Updated
  <2>4. ASSUME NEW d \in Clients, d # c PROVE SlotOf(d)'
    <3>1. pc[d] \notin Welcoming /\ ~Departed(d)
      BY <2>2, <2>4, Alone DEF Welcoming
    <3>2. Present(d) => id[d] # i
      BY <1>0, <2>2, NobodyAssumption
    <3>3. Present(d) => id[d] \in Ids
      BY <1>0 DEF TypeOK, Shape, ShapeOf, Present, Sends, Outside, Welcoming
    <3>4. pc[d] \in {"put", "kill"} => slot'[Next1(d)].isConnected
      <4> SUFFICES ASSUME pc[d] \in {"put", "kill"} PROVE slot'[Next1(d)].isConnected
        OBVIOUS
      <4>1. Next1(d) \in Ids
        BY <1>0, Next1InTo DEF Shape, ShapeOf
      <4> QED
        BY <1>0, <2>1, <4>1 DEF Updated
    <3> QED
      BY <1>0, <1>1, <2>1, <2>4, <3>1, <3>2, <3>3, <3>4 DEF Welcoming, Updated
  <2> QED
    BY <2>3, <2>4 DEF SlotOfProcess
<1>10. CASE SetUid(c)
  <2>1. /\ pc[c] = "uid" /\ pc'[c] = "put" /\ UNCHANGED <<slot, id>>
        /\ out'[c].to = {id[c]} /\ out'[c].then = "welcome" /\ id[c] \in Ids
    BY <1>0, <1>10, WelcomeEffect DEF ShapeOf, Welcoming
  <2>2. Next1(c)' = id[c]
    <3>1. id[c] \in Nat
      BY <2>1, BoundsAssumption DEF Ids
    <3> QED
      BY <2>1, <3>1 DEF Next1, Min
  <2>3. SlotOf(c)'
    BY <1>0, <2>1, <2>2 DEF Present, Departed, Sends, Leaving
  <2> QED
    BY <1>2, <1>10, <2>3 DEF KeepsTable, SlotOfProcess
<1>11. CASE SendPut(c)
  <2>1. PICK i \in Ids : i = Next1(c) /\ Updated(i, slot[i].isConnected, slot[i].pid, out[c].msg)
    BY <1>0, <1>11, PutEffect
  <2>2. pc[c] = "put" /\ pc'[c] = "kill" /\ UNCHANGED <<id, out>> /\ slot[i].isConnected
    BY <1>0, <1>11, <2>1, WriterEffect
  <2>3. ASSUME NEW j \in Ids PROVE slot'[j].isConnected = slot[j].isConnected /\ slot'[j].pid = slot[j].pid
    BY <2>1, <2>3 DEF Updated
  <2>4. ASSUME NEW j \in Ids PROVE slot[j] = Free => slot'[j] = Free
    BY <2>1, <2>2, <2>4, MessageTypes DEF Updated
  <2>5. ASSUME NEW d \in Clients PROVE SlotOf(d)'
    <3>1. /\ Present(d)' = Present(d) /\ Departed(d)' = Departed(d) /\ id' [d] = id[d]
          /\ Next1(d)' = Next1(d) /\ (pc'[d] = pc[d] \/ (pc[d] = "put" /\ pc'[d] = "kill"))
      BY <1>1, <2>2 DEF Present, Departed, Sends, Next1, Leaving
    <3>2. /\ id[d] \in Ids \cup {0}
          /\ Present(d) \/ Departed(d) \/ pc[d] \in Welcoming => id[d] \in Ids
          /\ pc[d] \in {"put", "kill"} => Next1(d) \in Ids
      <4>1. /\ id[d] \in Ids \cup {0}
            /\ Present(d) \/ Departed(d) \/ pc[d] \in Welcoming => id[d] \in Ids
        BY <1>0 DEF TypeOK, Shape, ShapeOf, Present, Departed, Sends, Outside, Welcoming, Leaving
      <4>2. pc[d] \in {"put", "kill"} => Next1(d) \in Ids
        BY <1>0, Next1InTo DEF Shape, ShapeOf
      <4> QED
        BY <4>1, <4>2
    <3>3. pc[d] = "scan" => \A j \in 1 .. id[d] - 1 : j \in Ids
      BY <3>2, BoundsAssumption DEF Welcoming, Ids
    <3>4. SlotOf(d)
      BY <1>0
    <3> QED
      BY <2>3, <2>4, <3>1, <3>2, <3>3, <3>4 DEF Welcoming
  <2> QED
    BY <2>5 DEF SlotOfProcess
<1>12. CASE HandlerClear(c)
  <2>1. UNCHANGED <<pc, id, out>>
    BY <1>0, <1>12, HandlerEffect
  <2>2. ASSUME NEW j \in Ids
        PROVE  /\ slot'[j].isConnected = slot[j].isConnected /\ slot'[j].pid = slot[j].pid
               /\ slot[j] = Free => slot'[j] = Free
    <3>1. CASE slot' = slot
      BY <3>1
    <3>2. CASE \E i \in Ids : i = uid[c] /\ Updated(i, slot[i].isConnected, slot[i].pid, Nobody)
      <4>1. PICK i \in Ids : Updated(i, slot[i].isConnected, slot[i].pid, Nobody)
        BY <3>2
      <4>2. slot'[j] \in SlotTypes
        BY <4>1 DEF Updated
      <4> QED
        BY <4>1, <4>2 DEF Updated, Free, SlotTypes
    <3> QED
      BY <1>0, <1>12, <3>1, <3>2, ClearEffect
  <2>3. ASSUME NEW d \in Clients PROVE SlotOf(d)'
    <3>1. /\ Present(d)' = Present(d) /\ Departed(d)' = Departed(d) /\ Next1(d)' = Next1(d)
      BY <2>1 DEF Present, Departed, Sends, Next1
    <3>2. /\ id[d] \in Ids \cup {0}
          /\ Present(d) \/ Departed(d) \/ pc[d] \in Welcoming => id[d] \in Ids
          /\ pc[d] \in {"put", "kill"} => Next1(d) \in Ids
      <4>1. /\ id[d] \in Ids \cup {0}
            /\ Present(d) \/ Departed(d) \/ pc[d] \in Welcoming => id[d] \in Ids
        BY <1>0 DEF TypeOK, Shape, ShapeOf, Present, Departed, Sends, Outside, Welcoming, Leaving
      <4>2. pc[d] \in {"put", "kill"} => Next1(d) \in Ids
        BY <1>0, Next1InTo DEF Shape, ShapeOf
      <4> QED
        BY <4>1, <4>2
    <3>3. pc[d] = "scan" => \A j \in 1 .. id[d] - 1 : j \in Ids
      BY <3>2, BoundsAssumption DEF Welcoming, Ids
    <3>4. SlotOf(d)
      BY <1>0
    <3> QED
      BY <2>1, <2>2, <3>1, <3>2, <3>3, <3>4 DEF Welcoming
  <2> QED
    BY <2>3 DEF SlotOfProcess
<1>13. CASE Leave(c) \/ Memset(c)
  <2>1. PICK i \in Ids : /\ i = uid[c] /\ i = id[c]
                         /\ \A j \in Ids : j # i => slot'[j] = slot[j]
                         /\ ~slot'[i].isConnected
    <3>1. uid[c] = id[c]
      BY <1>0, <1>13, GoodbyeEffect DEF ShapeOf, Outside, Welcoming
    <3>2. CASE Leave(c)
      <4>1. PICK i \in Ids : i = uid[c] /\ Updated(i, FALSE, slot[i].pid, slot[i].buffer)
        BY <1>0, <3>2, LogoutEffect
      <4>2. (\A j \in Ids : j # i => slot'[j] = slot[j]) /\ ~slot'[i].isConnected
        BY <4>1 DEF Updated
      <4> QED
        BY <3>1, <4>1, <4>2
    <3>3. CASE Memset(c)
      <4>1. PICK i \in Ids : i = uid[c] /\ Updated(i, FALSE, Nobody, Nobody)
        BY <1>0, <3>3, LogoutEffect
      <4>2. (\A j \in Ids : j # i => slot'[j] = slot[j]) /\ ~slot'[i].isConnected
        BY <4>1 DEF Updated
      <4> QED
        BY <3>1, <4>1, <4>2
    <3> QED
      BY <1>13, <3>2, <3>3
  <2>2. pc[c] \in {"leave", "memset"} /\ pc'[c] \in Leaving /\ id' = id
    BY <1>0, <1>13, GoodbyeEffect DEF Leaving
  <2>3. SlotOf(c)'
    BY <2>1, <2>2 DEF Present, Departed, Sends, Leaving
  <2>4. ASSUME NEW d \in Clients, d # c PROVE SlotOf(d)'
    <3>1. pc[d] \notin Welcoming /\ ~Departed(d) /\ ~Sends(d)
      BY <2>2, <2>4, Alone DEF Leaving
    <3>2. Present(d) => id[d] # i
      <4>1. CASE pc[c] = "leave"
        BY <1>0, <2>1, <2>4, <4>1 DEF Present
      <4>2. CASE pc[c] = "memset"
        BY <1>0, <2>1, <4>2 DEF Departed, Leaving
      <4> QED
        BY <2>2, <4>1, <4>2
    <3>3. Present(d) => id[d] \in Ids
      BY <1>0 DEF TypeOK, Shape, ShapeOf, Present, Sends, Outside, Welcoming
    <3> QED
      BY <1>0, <1>1, <2>1, <2>4, <3>1, <3>2, <3>3 DEF Welcoming, Sends
  <2> QED
    BY <2>3, <2>4 DEF SlotOfProcess
<1>14. CASE Unlink(c)
  <2>1. SlotOf(c)'
    BY <1>0, <1>14, GoodbyeEffect DEF Present, Departed, Sends, Leaving
  <2> QED
    BY <1>2, <1>14, <2>1 DEF KeepsTable, SlotOfProcess
<1>15. CASE OpenRead(c) \/ Drain(c) \/ OpenWrite(c)
  <2>1. SlotOf(c)'
    BY <1>0, <1>15, CommandEffect, ZenonT(60) DEF Present, Departed, Sends, Leaving
  <2> QED
    BY <1>2, <1>15, <2>1 DEF KeepsTable, SlotOfProcess
<1>16. CASE \E cmd \in Commands : Start(c, cmd)
  <2>1. SlotOf(c)'
    BY <1>0, <1>16, CommandEffect, ZenonT(60) DEF Present, Departed, Sends, Leaving
  <2> QED
    BY <1>2, <1>16, <2>1 DEF KeepsTable, SlotOfProcess
<1> QED
  BY <1>3, <1>4, <1>5, <1>6, <1>7, <1>8, <1>9, <1>10, <1>11, <1>12, <1>13, <1>14, <1>15, <1>16
     DEF Process

\* Every step keeps what a slot says of its process.
LEMMA ProcessOfSlotStep ==
    ASSUME Inv, NEW c \in Clients, Process(c)
    PROVE  ProcessOfSlot'
<1>0. /\ TypeOK /\ Shape /\ ShapeOf(c)
      /\ \A d \in Clients : SlotOf(d)
      /\ \A i \in Ids : ProcessOf(i)
  BY DEF Inv, Shape, Table, SlotOfProcess, ProcessOfSlot
<1>1. \A d \in Clients : d # c => pc'[d] = pc[d] /\ id'[d] = id[d] /\ Present(d)' = Present(d)
  BY <1>0, OthersKeep DEF Present, Sends
<1>2. ASSUME NEW d \in Clients, id[d] = id[c] => ~Leave(c) /\ ~Memset(c)
      PROVE  /\ Present(d) => Present(d)' /\ id'[d] = id[d]
             /\ pc[d] = "uid" => (Present(d)' \/ pc'[d] \in {"uid", "crashed"}) /\ id'[d] = id[d]
             /\ pc[d] = "pid" => pc'[d] \in {"pid", "uid", "crashed"} /\ id'[d] = id[d]
             /\ pc[d] = "crashed" => pc'[d] = "crashed" /\ id'[d] = id[d]
             /\ pc[d] = "memset" => pc'[d] = "memset" /\ id'[d] = id[d]
  <2>1. Present(c) => pc[c] \notin {"none", "scan"}
    BY DEF Present, Sends
  <2> QED
    BY <1>1, <1>2, <2>1, PhaseStep
<1>3. ASSUME NEW i \in Ids,
             slot'[i].isConnected = slot[i].isConnected, slot'[i].pid = slot[i].pid,
             ~slot[i].isConnected => slot'[i].buffer \in {slot[i].buffer, Nobody},
             i = id[c] => ~Leave(c) /\ ~Memset(c)
      PROVE  ProcessOf(i)'
  <2>0. ProcessOf(i)
    BY <1>0
  <2>1. ASSUME ~slot'[i].isConnected
        PROVE  \/ slot'[i].buffer = Nobody /\ slot'[i].pid = Nobody
               \/ \E d \in Clients : pc'[d] = "memset" /\ id'[d] = i /\ slot'[i].pid = d
    BY <1>2, <1>3, <2>0, <2>1 DEF ProcessOf
  <2>2. ASSUME slot'[i].isConnected
        PROVE  \E d \in Clients : id'[d] = i /\ (Present(d)' \/ pc'[d] \in {"pid", "uid", "crashed"})
    <3>1. PICK d \in Clients : id[d] = i /\ (Present(d) \/ pc[d] \in {"pid", "uid", "crashed"})
      BY <1>3, <2>0, <2>2 DEF ProcessOf
    <3> QED
      BY <1>2, <1>3, <3>1
  <2>3. ASSUME NEW d \in Clients, slot'[i].pid = d
        PROVE  id'[d] = i /\ (Present(d)' \/ pc'[d] \in {"uid", "crashed", "memset"})
    BY <1>2, <1>3, <2>0, <2>3 DEF ProcessOf
  <2> QED
    BY <2>1, <2>2, <2>3 DEF ProcessOf
<1>4. ASSUME NEW i \in Ids, slot'[i] = slot[i], i = id[c] => ~Leave(c) /\ ~Memset(c)
      PROVE  ProcessOf(i)'
  BY <1>0, <1>3, <1>4 DEF ProcessOf
<1>5. CASE KeepsTable(c)
  <2>1. ~Leave(c) /\ ~Memset(c)
    <3> SUFFICES ASSUME Leave(c) \/ Memset(c) PROVE FALSE
      OBVIOUS
    <3>1. pc[c] \in {"leave", "memset"} /\ sig[c] = {}
      BY <1>0, GoodbyeEffect
    <3> QED
      BY <1>5, <3>1 DEF KeepsTable, SendCheck, SendKill, HandlerShow, HangUp, Accept, Scan, SetUid,
                        Unlink, OpenRead, Drain, OpenWrite, Start, At
  <2> QED
    BY <1>0, <1>4, <1>5, <2>1, WriterEffect DEF ProcessOfSlot
<1>6. CASE SendPut(c)
  <2>1. PICK i \in Ids : i = Next1(c) /\ Updated(i, slot[i].isConnected, slot[i].pid, out[c].msg)
    BY <1>0, <1>6, PutEffect
  <2>2. pc[c] = "put" /\ slot[i].isConnected
    BY <1>0, <1>6, <2>1, WriterEffect DEF SlotOf
  <2>3. ~Leave(c) /\ ~Memset(c)
    BY <1>0, <2>2, GoodbyeEffect
  <2>4. ASSUME NEW j \in Ids PROVE ProcessOf(j)'
    <3>1. CASE j # i
      BY <1>4, <2>1, <2>3, <3>1 DEF Updated
    <3>2. CASE j = i
      BY <1>3, <2>1, <2>2, <2>3, <3>2 DEF Updated
    <3> QED
      BY <3>1, <3>2
  <2> QED
    BY <2>4 DEF ProcessOfSlot
<1>7. CASE HandlerClear(c)
  <2>1. ~Leave(c) /\ ~Memset(c)
    BY <1>0, <1>7, HandlerEffect, GoodbyeEffect
  <2>2. CASE slot' = slot
    BY <1>4, <2>1, <2>2 DEF ProcessOfSlot
  <2>3. CASE \E i \in Ids : i = uid[c] /\ Updated(i, slot[i].isConnected, slot[i].pid, Nobody)
    <3>1. PICK i \in Ids : Updated(i, slot[i].isConnected, slot[i].pid, Nobody)
      BY <2>3
    <3>2. ASSUME NEW j \in Ids PROVE ProcessOf(j)'
      <4>1. CASE j # i
        BY <1>4, <2>1, <3>1, <4>1 DEF Updated
      <4>2. CASE j = i
        BY <1>3, <2>1, <3>1, <4>2 DEF Updated
      <4> QED
        BY <4>1, <4>2
    <3> QED
      BY <3>2 DEF ProcessOfSlot
  <2> QED
    BY <1>0, <1>7, <2>2, <2>3, ClearEffect
<1>8. CASE Fill(c)
  <2>1. PICK i \in Ids : i = id[c] /\ Updated(i, TRUE, slot[i].pid, slot[i].buffer)
    BY <1>0, <1>8, LoginEffect
  <2>2. pc[c] = "fill" /\ pc'[c] = "pid" /\ id' = id /\ slot[i].pid = Nobody
    BY <1>0, <1>8, <2>1, WelcomeEffect, MessageTypes DEF SlotOf
  <2>3. ASSUME NEW j \in Ids, j # i PROVE ProcessOf(j)'
    BY <1>4, <2>1, <2>3 DEF Updated
  <2>4. slot'[i].isConnected /\ slot'[i].pid = Nobody
    BY <2>1, <2>2 DEF Updated
  <2>5. ProcessOf(i)'
    BY <2>1, <2>2, <2>4, NobodyAssumption DEF ProcessOf
  <2> QED
    BY <2>3, <2>5 DEF ProcessOfSlot
<1>9. CASE SetPid(c)
  <2>1. PICK i \in Ids : i = id[c] /\ Updated(i, slot[i].isConnected, c, slot[i].buffer)
    BY <1>0, <1>9, LoginEffect
  <2>2. pc[c] = "pid" /\ pc'[c] = "uid" /\ id' = id /\ slot[i].isConnected
    BY <1>0, <1>9, <2>1, WelcomeEffect DEF SlotOf
  <2>3. ASSUME NEW j \in Ids, j # i PROVE ProcessOf(j)'
    BY <1>4, <2>1, <2>3 DEF Updated
  <2>4. slot'[i].isConnected /\ slot'[i].pid = c
    BY <2>1, <2>2 DEF Updated
  <2>5. ProcessOf(i)'
    BY <2>1, <2>2, <2>4 DEF ProcessOf
  <2> QED
    BY <2>3, <2>5 DEF ProcessOfSlot
<1>10. CASE Leave(c)
  <2>1. PICK i \in Ids : i = uid[c] /\ Updated(i, FALSE, slot[i].pid, slot[i].buffer)
    BY <1>0, <1>10, LogoutEffect
  <2>2. pc[c] = "leave" /\ sig[c] = {} /\ pc'[c] = "memset" /\ id' = id /\ i = id[c]
    BY <1>0, <1>10, <2>1, GoodbyeEffect DEF ShapeOf, Outside, Welcoming
  <2>3. slot[i].pid = c
    BY <1>0, <2>2 DEF SlotOf, Present
  <2>5. ASSUME NEW j \in Ids, j # i PROVE ProcessOf(j)'
    BY <1>4, <2>1, <2>2, <2>5 DEF Updated
  <2>6. ~slot'[i].isConnected /\ slot'[i].pid = c
    BY <2>1, <2>3 DEF Updated
  <2>7. ProcessOf(i)'
    BY <2>2, <2>6 DEF ProcessOf
  <2> QED
    BY <2>5, <2>7 DEF ProcessOfSlot
<1>11. CASE Memset(c)
  <2>1. PICK i \in Ids : i = uid[c] /\ Updated(i, FALSE, Nobody, Nobody)
    BY <1>0, <1>11, LogoutEffect
  <2>2. i = id[c]
    BY <1>0, <1>11, <2>1, GoodbyeEffect DEF ShapeOf, Outside, Welcoming
  <2>3. ASSUME NEW j \in Ids, j # i PROVE ProcessOf(j)'
    BY <1>4, <2>1, <2>2, <2>3 DEF Updated
  <2>4. ~slot'[i].isConnected /\ slot'[i].pid = Nobody /\ slot'[i].buffer = Nobody
    BY <2>1 DEF Updated
  <2>5. ProcessOf(i)'
    BY <2>4, NobodyAssumption DEF ProcessOf
  <2> QED
    BY <2>3, <2>5 DEF ProcessOfSlot
<1> QED
  BY <1>5, <1>6, <1>7, <1>8, <1>9, <1>10, <1>11 DEF Process, KeepsTable

\* Every step keeps that no signal goes to all the processes while the
\* listener lives.
LEMMA NoBroadcastStep ==
    ASSUME Inv, NEW c \in Clients, Process(c)
    PROVE  NoBroadcast'
<1>0. /\ TypeOK /\ Shape /\ ShapeOf(c) /\ NoBroadcast
      /\ \A d \in Clients : SlotOf(d)
      /\ \A i \in Ids : ProcessOf(i)
      /\ \A d \in Clients : SlotOf(d)'
      /\ \A i \in Ids : ProcessOf(i)'
  BY SlotOfProcessStep, ProcessOfSlotStep DEF Inv, Shape, Table, SlotOfProcess, ProcessOfSlot
<1> SUFFICES ASSUME up' PROVE /\ \A i \in Ids : slot'[i].isConnected /\ slot'[i].pid = Nobody =>
                                   \E d \in Clients : pc'[d] = "pid" /\ id'[d] = i
                              /\ \A d \in Clients : pc'[d] \in {"scan", "fill", "pid"} => sig'[d] = {}
  BY DEF NoBroadcast
<1>1. up /\ (SendKill(c) => slot[Next1(c)].pid # Nobody)
  <2>1. CASE SendKill(c)
    BY <1>0, <2>1, KillEffect
  <2>2. CASE ~SendKill(c)
    BY <2>2 DEF Process, SendCheck, SendPut, HandlerShow, HandlerClear, HangUp, Accept, Scan, Fill, SetPid,
                SetUid, Leave, Memset, Unlink, OpenRead, Drain, OpenWrite, Start, table, local
  <2> QED
    BY <2>1, <2>2
<1>2. ASSUME NEW d \in Clients, pc'[d] \in {"scan", "fill", "pid"} PROVE sig'[d] = {}
  <2>1. CASE d # c
    <3>1. pc[d] = pc'[d] /\ sig[d] = {}
      BY <1>0, <1>1, <1>2, <2>1, OthersKeep DEF NoBroadcast
    <3>2. CASE SendKill(c)
      <4>1. Next1(c) \in Ids
        BY <1>0, <3>2, Next1InTo, KillEffect DEF ShapeOf
      <4>2. slot[Next1(c)].pid # d
        BY <1>0, <1>2, <3>1, <4>1 DEF ProcessOf, Present, Sends
      <4>3. d \notin Signalled(slot[Next1(c)].pid)
        BY <1>1, <3>2, <4>2 DEF Signalled
      <4> QED
        BY <1>0, <3>1, <3>2, <4>3, KillEffect
    <3>3. CASE ~SendKill(c)
      BY <1>0, <2>1, <3>1, <3>3, OthersKeep
    <3> QED
      BY <3>2, <3>3
  <2>2. CASE d = c
    <3>1. CASE Accept(c) \/ Scan(c) \/ Fill(c) \/ SetPid(c) \/ SetUid(c)
      BY <1>0, <3>1, <2>2, WelcomeEffect DEF ShapeOf
    <3>2. CASE SendCheck(c) \/ SendPut(c) \/ SendKill(c)
      BY <1>0, <1>2, <2>2, <3>2, CheckEffect, WriterEffect, KillEffect
    <3>3. CASE HandlerShow(c) \/ HandlerClear(c) \/ HangUp(c)
      BY <1>0, <1>1, <1>2, <2>2, <3>3, HandlerEffect DEF NoBroadcast, Dies
    <3>4. CASE Leave(c) \/ Memset(c) \/ Unlink(c)
      BY <1>0, <1>2, <2>2, <3>4, GoodbyeEffect
    <3>5. CASE OpenRead(c) \/ Drain(c) \/ OpenWrite(c) \/ \E cmd \in Commands : Start(c, cmd)
      BY <1>0, <1>2, <2>2, <3>5, CommandEffect
    <3> QED
      BY <3>1, <3>2, <3>3, <3>4, <3>5 DEF Process
  <2> QED
    BY <2>1, <2>2
<1>3. ASSUME NEW i \in Ids, slot'[i].isConnected, slot'[i].pid = Nobody
      PROVE  \E d \in Clients : pc'[d] = "pid" /\ id'[d] = i
  <2>1. CASE slot[i].isConnected /\ slot[i].pid = Nobody
    <3>1. PICK d \in Clients : pc[d] = "pid" /\ id[d] = i /\ sig[d] = {}
      BY <1>0, <1>1, <2>1 DEF NoBroadcast
    <3>2. CASE d # c
      BY <1>0, <3>1, <3>2, OthersKeep
    <3>3. CASE d = c
      <4>1. ~HandlerShow(c) /\ ~HandlerClear(c) /\ ~HangUp(c)
        BY <3>1, <3>3 DEF HandlerShow, HandlerClear, HangUp
      <4>2. pc'[c] \in {"pid", "uid", "crashed"} /\ id'[c] = id[c]
        BY <3>1, <3>3, PhaseStep
      <4>3. pc'[c] = "uid" => slot'[i].pid = c
        BY <1>0, <3>1, <3>3, <4>2 DEF SlotOf
      <4>4. pc'[c] # "crashed"
        BY <1>0, <3>1, <3>3, <4>1, CheckEffect, WriterEffect, KillEffect, WelcomeEffect, GoodbyeEffect, CommandEffect
           DEF Process
      <4> QED
        BY <1>3, <3>1, <3>3, <4>2, <4>3, <4>4, NobodyAssumption
    <3> QED
      BY <3>2, <3>3
  <2>2. CASE ~(slot[i].isConnected /\ slot[i].pid = Nobody)
    <3>1. CASE KeepsTable(c)
      BY <1>0, <1>3, <2>2, <3>1, WriterEffect
    <3>2. CASE SendPut(c)
      BY <1>0, <1>3, <2>2, <3>2, PutEffect DEF Updated
    <3>3. CASE HandlerClear(c)
      BY <1>0, <1>3, <2>2, <3>3, ClearEffect DEF Updated
    <3>4. CASE Fill(c)
      <4>1. PICK j \in Ids : j = id[c] /\ Updated(j, TRUE, slot[j].pid, slot[j].buffer)
        BY <1>0, <3>4, LoginEffect
      <4>2. j = i
        BY <1>3, <2>2, <4>1 DEF Updated
      <4> QED
        BY <1>0, <3>4, <4>1, <4>2, WelcomeEffect
    <3>5. CASE SetPid(c)
      <4>1. PICK j \in Ids : j = id[c] /\ Updated(j, slot[j].isConnected, c, slot[j].buffer)
        BY <1>0, <3>5, LoginEffect
      <4> QED
        BY <1>3, <2>2, <4>1, NobodyAssumption DEF Updated
    <3>6. CASE Leave(c) \/ Memset(c)
      BY <1>0, <1>3, <2>2, <3>6, LogoutEffect DEF Updated
    <3> QED
      BY <3>1, <3>2, <3>3, <3>4, <3>5, <3>6 DEF Process, KeepsTable
  <2> QED
    BY <2>1, <2>2
<1> QED
  BY <1>2, <1>3

-----------------------------------------------------------------------------
(* The messages.                                                           *)

\* How a step changes the buffers and the pids of the table.
LEMMA TableChanges ==
    ASSUME Inv, NEW c \in Clients, Process(c), NEW i \in Ids
    PROVE  /\ \/ slot'[i].buffer \in {slot[i].buffer, Nobody}
              \/ SendPut(c) /\ i = Next1(c) /\ i \in out[c].to /\ slot'[i].buffer = out[c].msg
           /\ \/ slot'[i].pid = slot[i].pid
              \/ slot[i].pid = Nobody
              \/ Memset(c) /\ i = uid[c] /\ slot'[i].buffer = Nobody
<1>0. TypeOK /\ Shape /\ \A d \in Clients : SlotOf(d)
  BY DEF Inv, Table, SlotOfProcess
<1>1. CASE KeepsTable(c)
  BY <1>0, <1>1, WriterEffect
<1>2. CASE SendPut(c)
  BY <1>0, <1>2, PutEffect DEF Updated
<1>3. CASE HandlerClear(c)
  BY <1>0, <1>3, ClearEffect DEF Updated
<1>4. CASE Fill(c)
  BY <1>0, <1>4, LoginEffect, ZenonT(60) DEF Updated
<1>5. CASE SetPid(c)
  <2>1. PICK j \in Ids : j = id[c] /\ Updated(j, slot[j].isConnected, c, slot[j].buffer)
    BY <1>0, <1>5, LoginEffect
  <2>2. slot[j].pid = Nobody
    BY <1>0, <1>5, <2>1, WelcomeEffect DEF SlotOf
  <2> QED
    BY <2>1, <2>2 DEF Updated
<1>6. CASE Leave(c)
  BY <1>0, <1>6, LogoutEffect DEF Updated
<1>7. CASE Memset(c)
  BY <1>0, <1>7, LogoutEffect DEF Updated
<1> QED
  BY <1>1, <1>2, <1>3, <1>4, <1>5, <1>6, <1>7 DEF Process, KeepsTable

\* A process that is dead does nothing any more.
LEMMA NoneDead ==
    ASSUME Inv, NEW c \in Clients, Process(c)
    PROVE  pc[c] # "dead"
<1>1. TypeOK /\ Shape /\ ShapeOf(c)
  BY DEF Inv, Shape
<1> SUFFICES ASSUME pc[c] = "dead" PROVE FALSE
  OBVIOUS
<1>2. sig[c] = {}
  BY <1>1 DEF ShapeOf
<1> QED
  BY <1>1, <1>2, CheckEffect, WriterEffect, KillEffect, HandlerEffect, WelcomeEffect, GoodbyeEffect,
     CommandEffect DEF Process

\* Every step keeps that a message in a buffer has its signal or its kill still
\* to come.
LEMMA AnnouncedStep ==
    ASSUME Inv, NEW c \in Clients, Process(c)
    PROVE  Announced'
<1>0. /\ TypeOK /\ Shape /\ Announced
      /\ \A d \in Clients : SlotOf(d) /\ ShapeOf(d)
  BY DEF Inv, Table, SlotOfProcess, Mail, Shape
<1> SUFFICES ASSUME NEW d \in Clients, Receives(d)', slot'[id'[d]].buffer # Nobody
             PROVE  sig'[d] # {} \/ KillToCome(id[d])'
  BY DEF Announced
<1>1. pc[d] # "fill" /\ Receives(d) /\ id'[d] = id[d] /\ id[d] \in Ids
  <2>1. CASE d # c
    <3>1. pc'[d] = pc[d] /\ id'[d] = id[d] /\ Present(d)' = Present(d)
      BY <1>0, <2>1, OthersKeep DEF Present, Sends
    <3> QED
      BY <1>0, <3>1 DEF Receives, Present, Sends, ShapeOf, Welcoming, Outside
  <2>2. CASE d = c /\ Fill(c)
    <3>1. PICK j \in Ids : j = id[c] /\ Updated(j, TRUE, slot[j].pid, slot[j].buffer)
      BY <1>0, <2>2, LoginEffect
    <3>2. slot'[id'[c]].buffer = Nobody
      <4>1. pc[c] = "fill" /\ id' = id
        BY <1>0, <2>2, WelcomeEffect
      <4>2. slot[j] = Free
        BY <1>0, <3>1, <4>1 DEF SlotOf
      <4>3. slot'[j].buffer = slot[j].buffer
        BY <3>1 DEF Updated
      <4> QED
        BY <3>1, <4>1, <4>2, <4>3, MessageTypes
    <3> QED
      BY <2>2, <3>2
  <2>3. CASE d = c /\ ~Fill(c)
    <3>1. Present(c)' => Present(c) \/ pc[c] = "uid"
      BY <1>0, PhaseStep, WelcomeEffect
    <3>2. pc'[c] \in {"pid", "uid"} => pc[c] \in {"pid", "uid"}
      BY ZenonT(60), <1>0, <2>3, CheckEffect, WriterEffect, KillEffect, HandlerEffect, WelcomeEffect,
         GoodbyeEffect, CommandEffect DEF Process, Dies
    <3>3. pc[c] # "dead"
      BY <1>0, <2>3, NoneDead DEF Receives
    <3>4. Receives(c)
      BY <2>3, <3>1, <3>2, <3>3 DEF Receives
    <3> QED
      BY <1>0, <2>3, <3>4, PhaseStep DEF Receives, Present, Sends, ShapeOf, Welcoming, Outside
  <2> QED
    BY <2>1, <2>2, <2>3
<1>2. CASE SendPut(c) /\ id[d] = Next1(c)
  <2>1. pc'[c] = "kill" /\ Next1(c)' = Next1(c)
    BY <1>0, <1>2, WriterEffect DEF Next1
  <2> QED
    BY <1>1, <1>2, <2>1 DEF KillToCome
<1>3. CASE ~(SendPut(c) /\ id[d] = Next1(c))
  <2>1. slot[id[d]].buffer # Nobody
    BY <1>1, <1>3, TableChanges
  <2>2. CASE sig[d] # {}
    <3>1. CASE d # c
      BY <1>0, <2>2, <3>1, OthersKeep
    <3>2. CASE d = c /\ HandlerShow(c)
      <4>1. pc'[c] # "crashed" /\ ~Dies(c)
        BY <3>2 DEF Receives, Present, Sends, Dies
      <4> QED
        BY <1>0, <3>2, <4>1, HandlerEffect
    <3>3. CASE d = c /\ HandlerClear(c)
      <4>1. uid[c] = id[c]
        BY <1>0, <1>1, <3>3, HandlerEffect DEF ShapeOf
      <4>2. slot' = [slot EXCEPT ![uid[c]].buffer = Nobody]
        BY <3>3 DEF HandlerClear, Cleared, BufferOf
      <4>3. slot[id[c]] \in SlotTypes /\ slot = [i \in Ids |-> slot[i]]
        BY <1>0, <1>1, <3>3 DEF TypeOK, SlotTypes
      <4>4. slot'[id[c]].buffer = Nobody
        BY <1>1, <3>3, <4>1, <4>2, <4>3 DEF SlotTypes
      <4> QED
        BY <1>1, <3>3, <4>4
    <3>4. CASE d = c /\ HangUp(c)
      BY <1>0, <3>4, HandlerEffect DEF Receives, Present, Sends, Dies
    <3>5. CASE d = c /\ ~HandlerShow(c) /\ ~HandlerClear(c) /\ ~HangUp(c)
      BY <1>0, <2>2, <3>5, CheckEffect, WriterEffect, KillEffect, WelcomeEffect, GoodbyeEffect, CommandEffect
         DEF Process
    <3> QED
      BY <3>1, <3>2, <3>3, <3>4, <3>5
  <2>3. ASSUME NEW e \in Clients, pc[e] = "dead", id[d] \in out[e].to
        PROVE  KillToCome(id[d])'
    <3>1. pc'[e] = "dead" /\ out'[e] = out[e]
      BY <1>0, <2>3, NoneDead, OthersKeep
    <3> QED
      BY <1>1, <2>3, <3>1 DEF KillToCome
  <2>4. ASSUME NEW e \in Clients, pc[e] = "kill", Next1(e) = id[d]
        PROVE  sig'[d] # {} \/ KillToCome(id[d])'
    <3>1. CASE e # c
      <4>1. pc'[e] = "kill" /\ Next1(e)' = Next1(e)
        BY <1>0, <2>4, <3>1, OthersKeep DEF Next1
      <4> QED
        BY <1>1, <2>4, <4>1 DEF KillToCome
    <3>2. CASE e = c /\ SendKill(c)
      <4>1. Alive(d)
        BY <1>1 DEF Receives, Alive, Present, Sends
      <4>2. slot[id[d]].pid \in {d, Nobody}
        BY <1>0, <1>1 DEF Receives, SlotOf
      <4>3. d \in Signalled(slot[Next1(c)].pid)
        BY <2>4, <3>2, <4>1, <4>2 DEF Signalled
      <4> QED
        BY <1>0, <3>2, <4>3, KillEffect
    <3>3. CASE e = c /\ Dies(c)
      <4>1. id[d] \in out[c].to
        BY <1>0, <2>4, <3>3, Next1InTo DEF ShapeOf
      <4>2. pc'[c] = "dead" /\ id[d] \in out'[c].to
        BY <3>3, <4>1 DEF Dies
      <4> QED
        BY <1>1, <4>2 DEF KillToCome
    <3>4. CASE e = c /\ ~Dies(c) /\ (HandlerShow(c) \/ HandlerClear(c) \/ HangUp(c))
      <4>1. uid[c] # 0
        BY <1>0, <2>4, <3>4, BoundsAssumption DEF ShapeOf, Outside, Welcoming, Ids
      <4>2. pc[c] \notin Welcoming
        BY <2>4, <3>4 DEF Welcoming
      <4>3. pc' = pc /\ out' = out
        BY <1>0, <3>4, <4>1, <4>2, HandlerEffect
      <4> QED
        BY <1>1, <2>4, <3>4, <4>3 DEF KillToCome, Next1
    <3>5. CASE e = c /\ ~SendKill(c) /\ ~HandlerShow(c) /\ ~HandlerClear(c) /\ ~HangUp(c)
      BY <1>0, <2>4, <3>5, CheckEffect, WriterEffect, WelcomeEffect, GoodbyeEffect, CommandEffect
         DEF Process
    <3> QED
      BY <3>1, <3>2, <3>3, <3>4, <3>5
  <2> QED
    BY <1>0, <1>1, <2>1, <2>2, <2>3, <2>4 DEF Announced, KillToCome
<1> QED
  BY <1>2, <1>3

\* Every step keeps that messages on the way, and in the buffers, are meant for
\* the process of the slot.
LEMMA AddressStep ==
    ASSUME Inv, NEW c \in Clients, Process(c)
    PROVE  OnTheWay' /\ InSlot'
<1>0. /\ TypeOK /\ Shape /\ OnTheWay /\ InSlot
      /\ \A d \in Clients : SlotOf(d) /\ ShapeOf(d)
  BY DEF Inv, Table, SlotOfProcess, Mail, Shape
<1>1. ASSUME NEW m \in Messages, NEW i \in Ids, MeantFor(m, i), ~Memset(c)
      PROVE  m.for = Clients \/ slot'[i].pid \in m.for
  <2>1. Nobody \notin m.for
    BY NobodyAssumption DEF Messages
  <2> QED
    BY <1>1, <2>1, TableChanges DEF MeantFor
<1>2. ASSUME NEW d \in Clients, Sends(d)', NEW i \in out'[d].to
      PROVE  out'[d].msg.for = Clients \/ slot'[i].pid \in out'[d].msg.for
  <2>0. i \in Ids /\ out'[d].msg \in Messages
    <3>1. out'[d] \in Out /\ ShapeOf(d)'
      BY TypeStep, ShapeStep DEF TypeOK, Shape
    <3>2. out'[d].msg # Nobody
      BY <1>2, <3>1 DEF ShapeOf
    <3> QED
      BY <3>1, <3>2 DEF Out
  <2>1. CASE Sends(d) /\ out'[d].msg = out[d].msg /\ out'[d].to \subseteq out[d].to
    <3>1. MeantFor(out[d].msg, i)
      BY <1>0, <1>2, <2>1 DEF OnTheWay
    <3>2. ~Memset(c)
      <4>1. ASSUME Memset(c) PROVE FALSE
        <5>1. pc[c] = "memset" /\ pc'[c] = "unlink"
          BY <1>0, <4>1, GoodbyeEffect
        <5> QED
          BY <2>1, <5>1, Alone DEF Leaving, Sends
      <4> QED
        BY <4>1
    <3> QED
      BY <1>1, <2>0, <2>1, <3>1, <3>2
  <2>2. CASE out'[d].msg = ToAll
    BY <2>2, MessageTypes
  <2>3. CASE d # c
    BY <1>0, <1>2, <2>1, <2>3, OthersKeep DEF Sends
  <2>4. CASE d = c
    <3>1. CASE SendCheck(c) \/ SendPut(c) \/ HandlerShow(c) \/ HandlerClear(c) \/ HangUp(c)
      BY <1>0, <1>2, <2>1, <2>2, <2>4, <3>1, CheckEffect, WriterEffect, HandlerEffect, MessageTypes
         DEF Sends, Dies
    <3>2. CASE SendKill(c)
      <4>1. pc[c] = "kill" /\ out'[c].msg = out[c].msg /\ out'[c].to \subseteq out[c].to
        BY <1>0, <3>2, KillEffect
      <4> QED
        BY <2>1, <2>4, <4>1 DEF Sends
    <3>3. CASE SetUid(c)
      <4>1. pc[c] = "uid" /\ i = id[c] /\ out'[c].msg = [for |-> {c}] /\ slot' = slot
        BY <1>0, <1>2, <2>4, <3>3, WelcomeEffect
      <4>2. slot[i].pid = c
        BY <1>0, <4>1 DEF SlotOf
      <4> QED
        BY <2>4, <4>1, <4>2
    <3>4. CASE Accept(c) \/ Scan(c) \/ Fill(c) \/ SetPid(c) \/ Leave(c) \/ Memset(c) \/ Unlink(c)
      BY <1>0, <1>2, <2>2, <2>4, <3>4, WelcomeEffect, GoodbyeEffect DEF Sends
    <3>5. CASE OpenRead(c) \/ Drain(c) \/ OpenWrite(c)
      BY <1>0, <1>2, <2>2, <2>4, <3>5, CommandEffect DEF Sends
    <3>6. ASSUME NEW cmd \in Commands, Start(c, cmd)
          PROVE  out'[d].msg.for = Clients \/ slot'[i].pid \in out'[d].msg.for
      <4>1. CASE cmd.op = "tell"
        <5>1. out'[c].msg = [for |-> Owner(cmd.uid)] /\ i = cmd.uid /\ slot' = slot
          <6>1. out'[c].msg = [for |-> Owner(cmd.uid)] /\ out'[c].to = {cmd.uid} /\ slot' = slot
            BY <1>0, <3>6, <4>1, CommandEffect
          <6> QED
            BY <1>2, <2>4, <6>1
        <5> QED
          BY <2>4, <5>1 DEF Owner
      <4>2. CASE cmd.op # "tell"
        BY <1>0, <1>2, <2>2, <2>4, <3>6, <4>2, CommandEffect, ZenonT(60) DEF Sends
      <4> QED
        BY <4>1, <4>2
    <3> QED
      BY <3>1, <3>2, <3>3, <3>4, <3>5, <3>6 DEF Process
  <2> QED
    BY <2>3, <2>4
<1>3. ASSUME NEW i \in Ids, slot'[i].buffer # Nobody
      PROVE  slot'[i].buffer.for = Clients \/ slot'[i].pid \in slot'[i].buffer.for
  <2>0. slot'[i].buffer \in Messages
    BY <1>3, TypeStep DEF TypeOK
  <2>1. CASE SendPut(c) /\ i = Next1(c)
    <3>1. pc[c] = "put" /\ out[c].to # {}
      BY <1>0, <2>1, WriterEffect DEF ShapeOf
    <3>2. Next1(c) \in out[c].to
      BY <1>0, <3>1, Next1InTo
    <3>3. MeantFor(out[c].msg, i)
      BY <1>0, <2>1, <3>1, <3>2 DEF OnTheWay, Sends
    <3>4. slot'[i].buffer = out[c].msg
      BY <1>0, <2>1, PutEffect DEF Updated
    <3>5. ~Memset(c)
      BY <1>0, <3>1, GoodbyeEffect
    <3> QED
      BY <1>1, <2>0, <3>3, <3>4, <3>5
  <2>2. CASE ~(SendPut(c) /\ i = Next1(c))
    <3>1. slot'[i].buffer = slot[i].buffer
      BY <1>3, <2>2, TableChanges
    <3>2. MeantFor(slot'[i].buffer, i)
      BY <1>0, <1>3, <3>1 DEF InSlot
    <3>3. slot'[i].pid = slot[i].pid \/ slot[i].pid = Nobody
      BY <1>3, TableChanges
    <3>4. Nobody \notin slot'[i].buffer.for
      BY <2>0, NobodyAssumption DEF Messages
    <3> QED
      BY <3>2, <3>3, <3>4 DEF MeantFor
  <2> QED
    BY <2>1, <2>2
<1> QED
  BY <1>2, <1>3 DEF OnTheWay, InSlot, MeantFor

-----------------------------------------------------------------------------
(* The FIFOs.                                                              *)

\* How a step changes a FIFO, the ids and the connections.
LEMMA FifoChanges ==
    ASSUME Inv, NEW c \in Clients, Process(c), NEW i \in Ids, NEW j \in Ids
    PROVE  /\ \/ fifo'[i][j] = fifo[i][j] /\ (Unlink(c) => uid[c] \notin {i, j})
              \/ Unlink(c) /\ uid[c] \in {i, j} /\ fifo'[i][j] = Nobody
              \/ Drain(c) /\ fifo'[i][j] = Nobody
              \/ /\ OpenWrite(c) /\ i = uid[c] /\ j = todo[c].to
                 /\ slot[j].isConnected /\ fifo'[i][j] = c
           /\ uid'[c] = uid[c] \/ SetUid(c)
<1>0. TypeOK /\ Shape
  BY DEF Inv
<1>1. fifo \in [Ids -> [Ids -> Clients \cup {Nobody}]]
  BY <1>0 DEF TypeOK
<1>2. CASE SendCheck(c) \/ SendPut(c) \/ SendKill(c) \/ HandlerShow(c) \/ HandlerClear(c) \/ HangUp(c)
  <2>1. UNCHANGED <<fifo, uid>>
    BY <1>0, <1>2, CheckEffect, WriterEffect, KillEffect, HandlerEffect DEF Dies
  <2>2. ~Unlink(c)
    BY <1>2 DEF SendCheck, SendPut, SendKill, HandlerShow, HandlerClear, HangUp, Unlink, At
  <2> QED
    BY <2>1, <2>2
<1>3. CASE Accept(c) \/ Scan(c) \/ Fill(c) \/ SetPid(c) \/ SetUid(c) \/ Leave(c) \/ Memset(c)
  BY <1>0, <1>3, WelcomeEffect, GoodbyeEffect
<1>4. CASE Unlink(c)
  <2>1. fifo'[i][j] = IF uid[c] \in {i, j} THEN Nobody ELSE fifo[i][j]
    BY <1>4 DEF Unlink, WithoutFifos
  <2>2. uid' = uid
    BY <1>0, <1>4, GoodbyeEffect
  <2> QED
    BY <1>4, <2>1, <2>2
<1>5. CASE OpenRead(c) \/ \E cmd \in Commands : Start(c, cmd)
  BY <1>0, <1>5, CommandEffect, GoodbyeEffect
<1>6. CASE Drain(c)
  <2>1. /\ fifo' = fifo \/ fifo' = [fifo EXCEPT ![todo[c].from][uid[c]] = Nobody]
        /\ uid' = uid /\ ~Unlink(c)
    BY <1>0, <1>6, CommandEffect, GoodbyeEffect
  <2>2. fifo'[i][j] = fifo[i][j] \/ fifo'[i][j] = Nobody
    BY <1>1, <2>1
  <2> QED
    BY <1>6, <2>1, <2>2
<1>7. CASE OpenWrite(c)
  <2>1. uid' = uid /\ ~Unlink(c)
    BY <1>0, <1>7, CommandEffect, GoodbyeEffect
  <2>2. CASE fifo' = fifo
    BY <2>1, <2>2
  <2>3. CASE slot[todo[c].to].isConnected /\ fifo' = [fifo EXCEPT ![uid[c]][todo[c].to] = c]
    <3>1. CASE i = uid[c] /\ j = todo[c].to
      BY <1>1, <1>7, <2>1, <2>3, <3>1
    <3>2. CASE ~(i = uid[c] /\ j = todo[c].to)
      <4>1. fifo'[i][j] = fifo[i][j]
        BY <1>1, <2>3, <3>2
      <4> QED
        BY <2>1, <4>1
    <3> QED
      BY <3>1, <3>2
  <2> QED
    BY <1>0, <1>7, <2>2, <2>3, CommandEffect
<1> QED
  BY <1>2, <1>3, <1>4, <1>5, <1>6, <1>7 DEF Process

\* A connected slot stays connected, with its process, until that process
\* leaves.
LEMMA ConnectedStays ==
    ASSUME Inv, NEW c \in Clients, Process(c), NEW i \in Ids, slot[i].isConnected
    PROVE  \/ slot'[i].isConnected /\ (slot[i].pid # Nobody => slot'[i].pid = slot[i].pid)
           \/ Leave(c) /\ i = uid[c]
<1>0. TypeOK /\ Shape /\ \A d \in Clients : SlotOf(d) /\ ShapeOf(d)
  BY DEF Inv, Table, SlotOfProcess, Shape
<1>1. ~(Memset(c) /\ i = uid[c])
  <2>1. ASSUME Memset(c), i = uid[c] PROVE FALSE
    <3>1. pc[c] = "memset"
      BY <1>0, <2>1, GoodbyeEffect
    <3>2. id[c] = uid[c]
      BY <1>0, <3>1 DEF ShapeOf, Outside, Welcoming
    <3> QED
      BY <1>0, <2>1, <3>1, <3>2 DEF SlotOf, Departed, Leaving
  <2> QED
    BY <2>1
<1>2. slot'[i].pid = slot[i].pid \/ slot[i].pid = Nobody
  BY <1>1, TableChanges
<1>3. CASE KeepsTable(c)
  BY <1>0, <1>3, WriterEffect
<1>4. CASE SendPut(c)
  BY <1>0, <1>4, PutEffect DEF Updated
<1>5. CASE HandlerClear(c)
  BY <1>0, <1>5, ClearEffect DEF Updated
<1>6. CASE Fill(c) \/ SetPid(c)
  BY <1>0, <1>2, <1>6, LoginEffect DEF Updated
<1>7. CASE Leave(c) \/ Memset(c)
  BY <1>0, <1>1, <1>2, <1>7, LogoutEffect DEF Updated
<1> QED
  BY <1>3, <1>4, <1>5, <1>6, <1>7 DEF Process, KeepsTable

\* Every step keeps that the FIFOs are those of users who are logged in, made by
\* processes that have not left, and that the FIFO being drained is there.
LEMMA FifosStep ==
    ASSUME Inv, NEW c \in Clients, Process(c)
    PROVE  Fifos'
<1>0. /\ TypeOK /\ Shape /\ FifosOfUsers /\ WriterStays /\ DrainedExists
      /\ \A d \in Clients : SlotOf(d) /\ ShapeOf(d)
  BY DEF Inv, Table, SlotOfProcess, Shape, Fifos
<1>1. \A d \in Clients : d # c => /\ pc'[d] = pc[d] /\ uid'[d] = uid[d] /\ todo'[d] = todo[d]
                                  /\ Present(d)' = Present(d)
  BY <1>0, OthersKeep DEF Present, Sends
<1>2. OpenWrite(c) => /\ Present(c) /\ Present(c)' /\ uid'[c] = uid[c] /\ slot' = slot
                      /\ uid[c] \in Ids /\ slot[uid[c]].isConnected /\ slot[uid[c]].pid = c
  <2> SUFFICES ASSUME OpenWrite(c)
               PROVE  /\ Present(c) /\ Present(c)' /\ uid'[c] = uid[c] /\ slot' = slot
                      /\ uid[c] \in Ids /\ slot[uid[c]].isConnected /\ slot[uid[c]].pid = c
    OBVIOUS
  <2>1. pc[c] = "write" /\ uid' = uid /\ slot' = slot
    BY <1>0, CommandEffect
  <2>2. Present(c) /\ uid[c] = id[c] /\ uid[c] \in Ids
    BY <1>0, <2>1 DEF Present, ShapeOf, Outside, Welcoming
  <2>3. Present(c)'
    BY <1>0, CommandEffect DEF Present, Sends
  <2> QED
    BY <1>0, <2>1, <2>2, <2>3 DEF SlotOf
<1>3. ASSUME NEW d \in Clients, pc[d] \in Leaving
      PROVE  uid'[d] = uid[d] /\ (pc'[d] \in Leaving \/ (d = c /\ Unlink(c)))
  <2>1. CASE d = c
    <3>1. ~Dies(c) /\ pc[c] \notin Welcoming
      BY <1>3, <2>1 DEF Dies, Present, Sends, Leaving, Welcoming
    <3> QED
      BY ZenonT(60), <1>0, <1>3, <2>1, <3>1, CheckEffect, WriterEffect, KillEffect, HandlerEffect,
         WelcomeEffect, GoodbyeEffect, CommandEffect, BoundsAssumption DEF Process, Leaving, Welcoming
  <2> QED
    BY <1>1, <1>3, <2>1
<1>4. FifosOfUsers'
  <2> SUFFICES ASSUME NEW i \in Ids, NEW j \in Ids, fifo'[i][j] # Nobody
               PROVE  \/ slot'[i].isConnected /\ slot'[j].isConnected /\ slot'[i].pid = fifo'[i][j]
                      \/ \E d \in Clients : pc'[d] \in Leaving /\ uid'[d] \in {i, j}
    BY DEF FifosOfUsers
  <2>1. CASE OpenWrite(c) /\ i = uid[c] /\ j = todo[c].to /\ slot[j].isConnected /\ fifo'[i][j] = c
    BY <1>2, <2>1
  <2>2. CASE fifo'[i][j] = fifo[i][j] /\ (Unlink(c) => uid[c] \notin {i, j})
    <3>1. CASE slot[i].isConnected /\ slot[j].isConnected /\ slot[i].pid = fifo[i][j]
      <4>1. CASE Leave(c) /\ uid[c] \in {i, j}
        BY <1>0, <4>1, GoodbyeEffect DEF Leaving
      <4>2. CASE ~(Leave(c) /\ uid[c] \in {i, j})
        BY <2>2, <3>1, <4>2, ConnectedStays
      <4> QED
        BY <4>1, <4>2
    <3>2. ASSUME NEW d \in Clients, pc[d] \in Leaving, uid[d] \in {i, j}
          PROVE  pc'[d] \in Leaving /\ uid'[d] \in {i, j}
      BY <1>3, <2>2, <3>2
    <3> QED
      BY <1>0, <2>2, <3>1, <3>2 DEF FifosOfUsers
  <2> QED
    BY <2>1, <2>2, FifoChanges
<1>5. WriterStays'
  <2> SUFFICES ASSUME NEW i \in Ids, NEW j \in Ids, NEW d \in Clients, fifo'[i][j] = d
               PROVE  uid'[d] = i /\ (Present(d)' \/ pc'[d] \in Leaving)
    BY DEF WriterStays
  <2>0. fifo'[i][j] # Nobody
    BY NobodyAssumption
  <2>1. CASE OpenWrite(c) /\ i = uid[c] /\ fifo'[i][j] = c
    BY <1>2, <2>1
  <2>2. CASE fifo'[i][j] = fifo[i][j] /\ (Unlink(c) => uid[c] \notin {i, j})
    <3>1. uid[d] = i /\ (Present(d) \/ pc[d] \in Leaving)
      BY <1>0, <2>2 DEF WriterStays
    <3>2. CASE pc[d] \in Leaving
      BY <1>3, <2>2, <3>1, <3>2
    <3>3. CASE Present(d) /\ d = c
      <4>1. Present(c)' \/ pc'[c] \in Leaving
        BY <3>3, PhaseStep DEF Leaving
      <4>2. ~SetUid(c)
        BY <1>0, <3>3, WelcomeEffect DEF Present, Sends
      <4> QED
        BY <2>2, <3>1, <3>3, <4>1, <4>2, FifoChanges, ZenonT(60)
    <3>4. CASE Present(d) /\ d # c
      BY <1>1, <3>1, <3>4
    <3> QED
      BY <3>1, <3>2, <3>3, <3>4
  <2> QED
    BY <2>0, <2>1, <2>2, FifoChanges
<1>6. DrainedExists'
  <2> SUFFICES ASSUME NEW d \in Clients, pc'[d] = "drain" PROVE fifo'[todo'[d].from][uid'[d]] # Nobody
    BY DEF DrainedExists
  <2>1. CASE d = c /\ OpenRead(c)
    BY <1>0, <2>1, CommandEffect
  <2>2. CASE d = c /\ ~OpenRead(c)
    <3>1. HandlerShow(c) \/ HandlerClear(c) \/ HangUp(c)
      BY <1>0, <2>2, CheckEffect, WriterEffect, KillEffect, WelcomeEffect, GoodbyeEffect, CommandEffect
         DEF Process
    <3>2. UNCHANGED <<fifo, todo, uid>> /\ pc[c] = "drain"
      BY <1>0, <2>2, <3>1, HandlerEffect DEF Dies
    <3> QED
      BY <1>0, <2>2, <3>2 DEF DrainedExists
  <2>3. CASE d # c
    <3>1. pc[d] = "drain" /\ uid'[d] = uid[d] /\ todo'[d] = todo[d]
      BY <1>1, <2>3
    <3>2. todo[d].from \in Ids /\ uid[d] \in Ids
      <4>1. todo[d].op = "run" /\ todo[d].from # 0 /\ uid[d] \in Ids
        BY <1>0, <3>1 DEF ShapeOf, Outside, Welcoming
      <4>2. todo[d] \in Commands
        BY <1>0, <4>1, MessageTypes DEF TypeOK
      <4> QED
        BY <4>1, <4>2, CommandKinds
    <3>3. ~Unlink(c) /\ ~Drain(c)
      <4>1. ~Unlink(c)
        BY <1>0, <2>3, <3>1, Alone, GoodbyeEffect DEF Leaving
      <4>2. ASSUME Drain(c) PROVE FALSE
        <5>1. pc[c] = "drain"
          BY <1>0, <4>2, CommandEffect
        <5>2. Busy(c) /\ Busy(d)
          BY <1>0, <3>1, <5>1, MessageTypes DEF ShapeOf, Busy
        <5> QED
          BY <2>3, <5>2 DEF Inv, Exclusive
      <4> QED
        BY <4>1, <4>2
    <3>4. \/ fifo'[todo[d].from][uid[d]] = fifo[todo[d].from][uid[d]]
          \/ fifo'[todo[d].from][uid[d]] = c
      BY <3>2, <3>3, FifoChanges
    <3> QED
      BY <1>0, <3>1, <3>4, NobodyAssumption DEF DrainedExists
  <2> QED
    BY <2>1, <2>2, <2>3
<1> QED
  BY <1>4, <1>5, <1>6 DEF Fifos

-----------------------------------------------------------------------------
(* The theorems.                                                           *)

LEMMA InvNext == ASSUME ~Overlap, Inv, [Next]_vars PROVE Inv'
<1>1. CASE UNCHANGED vars
  <2>1. UNCHANGED <<up, slot, fifo, pc, id, uid, sig, out, todo, executed>>
    BY <1>1 DEF vars, table, local
  <2>2. TypeOK'
    BY <2>1 DEF Inv, TypeOK
  <2>3. Shape' /\ Exclusive'
    BY <2>1 DEF Inv, Shape, ShapeOf, Exclusive, Sends, Busy, LoggingIn
  <2>4. Table'
    BY <2>1 DEF Inv, Table, SlotOfProcess, SlotOf, ProcessOfSlot, ProcessOf, NoBroadcast,
                Present, Departed, Sends, Next1
  <2>5. Mail'
    BY <2>1 DEF Inv, Mail, Announced, Receives, KillToCome, OnTheWay, InSlot, MeantFor, Present, Sends, Next1
  <2>6. Fifos'
    BY <2>1 DEF Inv, Fifos, FifosOfUsers, WriterStays, DrainedExists, Present, Sends
  <2> QED
    BY <2>2, <2>3, <2>4, <2>5, <2>6 DEF Inv
<1>2. ASSUME NEW c \in Clients, Process(c) PROVE Inv'
  BY <1>2, TypeStep, ShapeStep, ExclusiveStep, SlotOfProcessStep, ProcessOfSlotStep, NoBroadcastStep,
     AnnouncedStep, AddressStep, FifosStep DEF Inv, Table, Mail
<1> QED
  BY <1>1, <1>2 DEF Next

\* The inductive invariant holds in every state of the server.
THEOREM InvHolds == ASSUME ~Overlap PROVE Spec => []Inv
<1>1. Inv /\ [Next]_vars => Inv'
  BY InvNext
<1> QED
  BY InvInit, <1>1, PTL DEF Spec

\* Types: in particular the loop of addUser over the slots never runs past the
\* last one (chatServer.cpp:145-152).
THEOREM TypeCorrect == ASSUME ~Overlap PROVE Spec => []TypeOK
<1>1. Inv => TypeOK
  BY DEF Inv
<1> QED
  BY InvHolds, <1>1, PTL

\* A process that serves its client owns the slot of its _uid in the table that
\* no lock protects, and shares it with nobody (chatServer.cpp:142-170).
THEOREM SlotsAreOwned == ASSUME ~Overlap PROVE Spec => []SlotsDistinct
<1>1. ASSUME Inv PROVE SlotsDistinct
  <2>1. ASSUME NEW c \in Clients, pc[c] \in {"idle", "read", "write", "drain"}
        PROVE  slot[uid[c]].isConnected /\ slot[uid[c]].pid = c
    <3>1. uid[c] = id[c]
      BY <1>1, <2>1 DEF Inv, Shape, ShapeOf, Outside, Welcoming
    <3> QED
      BY <1>1, <2>1, <3>1 DEF Inv, Table, SlotOfProcess, SlotOf, Present
  <2> QED
    BY <2>1 DEF SlotsDistinct
<1> QED
  BY InvHolds, <1>1, PTL

\* A message that waits in the buffer of an idle process has its signal on the
\* way, unless its sender died of SIGPIPE before the kill (chatServer.cpp:29-46).
THEOREM NoMessageIsStranded == ASSUME ~Overlap PROVE Spec => []NoStrandedMessage
<1>1. ASSUME Inv PROVE NoStrandedMessage
  <2> SUFFICES ASSUME NEW c \in Clients, pc[c] = "idle", slot[uid[c]].buffer # Nobody
               PROVE  \/ sig[c] # {}
                      \/ \E d \in Clients : pc[d] = "kill" /\ Next1(d) = uid[c]
                      \/ \E d \in Clients : pc[d] = "dead" /\ uid[c] \in out[d].to
    BY DEF NoStrandedMessage
  <2>1. uid[c] = id[c]
    BY <1>1 DEF Inv, Shape, ShapeOf, Outside, Welcoming
  <2> QED
    BY <1>1, <2>1 DEF Inv, Mail, Announced, Receives, KillToCome, Present
<1> QED
  BY InvHolds, <1>1, PTL

\* A FIFO has the ids of two users that are logged in, and was made by the one
\* who has the sender's id now (chatServer.cpp:129-136).
THEOREM FifosAreOfUsers == ASSUME ~Overlap PROVE Spec => []FifosOfUsers
<1>1. Inv => FifosOfUsers
  BY DEF Inv, Fifos
<1> QED
  BY InvHolds, <1>1, PTL

\* A process that drains a FIFO finds a writer that has not left by exit: it is
\* alive, so that the loop ends, or it died of SIGPIPE (chatServer.cpp:189,
\* 382-392).
THEOREM DrainsEnd == ASSUME ~Overlap PROVE Spec => []DrainEnds
<1>1. ASSUME Inv PROVE DrainEnds
  <2> SUFFICES ASSUME NEW c \in Clients, pc[c] = "drain"
               PROVE  LET f == fifo[todo[c].from][uid[c]] IN f # Nobody /\ (Alive(f) \/ pc[f] = "dead")
    BY DEF DrainEnds
  <2>1. TypeOK /\ ShapeOf(c)
    BY <1>1 DEF Inv, Shape
  <2>2. todo[c].op = "run" /\ todo[c].from # 0 /\ uid[c] \in Ids
    BY <2>1 DEF ShapeOf, Outside, Welcoming
  <2>3. todo[c].from \in Ids
    <3>1. todo[c] \in Commands
      BY <2>1, <2>2, MessageTypes DEF TypeOK
    <3> QED
      BY <2>2, <3>1, CommandKinds
  <2>4. fifo[todo[c].from][uid[c]] # Nobody
    BY <1>1 DEF Inv, Fifos, DrainedExists
  <2>5. PICK d \in Clients : d = fifo[todo[c].from][uid[c]]
    BY <2>1, <2>2, <2>3, <2>4 DEF TypeOK
  <2>6. Present(d) \/ pc[d] \in Leaving
    BY <1>1, <2>2, <2>3, <2>5 DEF Inv, Fifos, WriterStays
  <2>7. Alive(d) \/ pc[d] = "dead"
    BY <2>6 DEF Alive, Present, Sends, Leaving
  <2> QED
    BY <2>4, <2>5, <2>7
<1> QED
  BY InvHolds, <1>1, PTL

\* The signal handler shows only messages that were meant for the client of its
\* process (chatServer.cpp:32-34, 228-250).
THEOREM MessagesReachAddressee == ASSUME ~Overlap PROVE Spec => ShownToAddressee
<1>1. ASSUME Inv, [Next]_vars, NEW c \in Clients,
             "handling" \in sig'[c], "handling" \notin sig[c], slot[BufferOf(uid[c])].buffer # Nobody
      PROVE  c \in slot[BufferOf(uid[c])].buffer.for
  <2>0. TypeOK /\ Shape /\ ShapeOf(c) /\ SlotOf(c)
    BY <1>1 DEF Inv, Shape, Table, SlotOfProcess
  <2>1. HandlerShow(c)
    <3>1. PICK e \in Clients : Process(e)
      BY <1>1 DEF Next, vars
    <3>2. e = c
      BY <1>1, <2>0, <3>1, OthersKeep
    <3>3. ~SendKill(c)
      <4>1. SendKill(c) => sig'[c] = sig[c] \/ sig'[c] = sig[c] \cup {"pending"}
        BY <2>0, KillEffect
      <4> QED
        BY <1>1, <4>1
    <3>4. ~SendCheck(c) /\ ~SendPut(c) /\ ~HandlerClear(c) /\ ~HangUp(c)
      BY <1>1, <2>0, CheckEffect, WriterEffect, HandlerEffect DEF Dies
    <3>5. ~(Accept(c) \/ Scan(c) \/ Fill(c) \/ SetPid(c) \/ SetUid(c) \/ Leave(c) \/ Memset(c) \/ Unlink(c))
      BY <1>1, <2>0, WelcomeEffect, GoodbyeEffect
    <3>6. ~(OpenRead(c) \/ Drain(c) \/ OpenWrite(c) \/ \E cmd \in Commands : Start(c, cmd))
      BY <1>1, <2>0, CommandEffect
    <3> QED
      BY <3>1, <3>2, <3>3, <3>4, <3>5, <3>6 DEF Process
  <2>2. sig[c] # {} /\ uid[c] # 0
    BY <1>1, <2>0, <2>1, HandlerEffect DEF Dies
  <2>3. pc[c] \notin Outside /\ pc[c] # "gone"
    BY <2>0, <2>2 DEF ShapeOf
  <2>4. uid[c] = id[c] /\ uid[c] \in Ids
    BY <2>0, <2>3 DEF ShapeOf
  <2>5. pc[c] \in Welcoming \cup Leaving \cup
                  {"none", "idle", "check", "put", "kill", "read", "drain",
                   "stuck", "write", "leave", "gone", "crashed", "dead"}
    BY <2>0 DEF TypeOK
  <2>6. Present(c) \/ Departed(c)
    BY <2>3, <2>5 DEF Present, Departed, Sends, Outside
  <2>7. slot[uid[c]].pid = c
    <3>1. CASE slot[uid[c]].isConnected
      BY <2>0, <2>4, <2>6, <3>1 DEF SlotOf
    <3>2. CASE ~slot[uid[c]].isConnected
      <4>1. PICK e \in Clients : pc[e] = "memset" /\ slot[uid[c]].pid = e
        BY <1>1, <2>4, <3>2 DEF Inv, Table, ProcessOfSlot, ProcessOf, BufferOf
      <4>2. Departed(c)
        BY <2>0, <2>4, <2>6, <3>2 DEF SlotOf
      <4>3. e = c
        BY <1>1, <4>1, <4>2, Alone DEF Leaving
      <4> QED
        BY <4>1, <4>3
    <3> QED
      BY <3>1, <3>2
  <2>8. MeantFor(slot[uid[c]].buffer, uid[c])
    BY <1>1, <2>4 DEF Inv, Mail, InSlot, BufferOf
  <2> QED
    BY <2>7, <2>8 DEF MeantFor, BufferOf
<1>2. Inv /\ [Next]_vars =>
        [\A c \in Clients :
           (/\ "handling" \in sig'[c] /\ "handling" \notin sig[c]
            /\ slot[BufferOf(uid[c])].buffer # Nobody)
           => c \in slot[BufferOf(uid[c])].buffer.for]_vars
  BY <1>1
<1> QED
  BY InvHolds, <1>2, PTL DEF Spec, ShownToAddressee

\* The kill of a message brings the listener down only in the window of addUser
\* between isConnected and pid (chatServer.cpp:43, 168-169).
THEOREM ServerFallsOnlyDuringLogin == ASSUME ~Overlap PROVE Spec => KillsItselfOnlyDuringLogin
<1>1. ASSUME Inv, [Next]_vars, up, ~up'
      PROVE  \E c, d \in Clients : pc[c] = "kill" /\ pc[d] = "pid" /\ Next1(c) = id[d]
  <2>0. TypeOK /\ Shape
    BY <1>1 DEF Inv
  <2>1. PICK c \in Clients : Process(c)
    BY <1>1 DEF Next, vars
  <2>2. SendKill(c)
    BY <1>1, <2>1 DEF Process, SendCheck, SendPut, HandlerShow, HandlerClear, HangUp, Accept, Scan, Fill, SetPid,
                      SetUid, Leave, Memset, Unlink, OpenRead, Drain, OpenWrite, Start, table, local
  <2>3. pc[c] = "kill" /\ slot[Next1(c)].pid = Nobody
    BY <1>1, <2>0, <2>2, KillEffect
  <2>4. Next1(c) \in Ids
    BY <2>0, <2>3, Next1InTo DEF Shape, ShapeOf
  <2>5. slot[Next1(c)].isConnected
    BY <1>1, <2>3 DEF Inv, Table, SlotOfProcess, SlotOf
  <2> QED
    BY <1>1, <2>3, <2>4, <2>5 DEF Inv, Table, NoBroadcast
<1>2. Inv /\ [Next]_vars =>
        [up /\ ~up' => \E c, d \in Clients : /\ pc[c] = "kill" /\ pc[d] = "pid"
                                             /\ Next1(c) = id[d]]_vars
  BY <1>1
<1> QED
  BY InvHolds, <1>2, PTL DEF Spec, KillsItselfOnlyDuringLogin

=============================================================================
