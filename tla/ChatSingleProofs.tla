-------------------------- MODULE ChatSingleProofs --------------------------
(***************************************************************************)
(* Theorems about ChatSingle, for every set of clients, names, PATHs and   *)
(* command lines: the tables agree, user pipes reach their receivers,      *)
(* every user keeps its own PATH, lines of clients that wait for their     *)
(* prompts run as their own, and the user table implements RwgDirectory.   *)
(***************************************************************************)
EXTENDS ChatSingle, ProofFacts

-----------------------------------------------------------------------------
(* The loop of addUser.                                                    *)

\* The keys up to m - 1, when m is the first number that is not a key.
LEMMA PassedKeys ==
    ASSUME NEW keys, keys \subseteq Nat \ {0}, NEW m \in Nat \ {0}, m \notin keys,
           1 .. m - 1 \subseteq keys
    PROVE  Passed(keys) = 1 .. m - 1
<1>0. \A k \in keys : k \in Nat /\ k >= 1
  OBVIOUS
<1>1. ASSUME NEW k \in 1 .. m - 1 PROVE Rank(keys, k) = k
  <2>1. k \in Nat /\ \A i \in 1 .. k : i \in 1 .. m - 1
    OBVIOUS
  <2>2. \A i \in 1 .. k : i \in keys /\ i <= k
    BY <2>1
  <2>3. \A i \in keys : i <= k => i \in 1 .. k
    BY <1>0, <2>1
  <2>4. {j \in keys : j <= k} = 1 .. k
    BY <2>2, <2>3, Zenon
  <2>5. Cardinality(1 .. k) = k
    BY <2>1, FS_Interval
  <2> QED
    BY <2>4, <2>5 DEF Rank
<1>2. ASSUME NEW k \in keys, k > m PROVE Rank(keys, k) < k
  <2>1. k \in Nat /\ m \in 1 .. k /\ IsFiniteSet(1 .. k) /\ Cardinality(1 .. k) = k
    BY <1>0, <1>2, FS_Interval
  <2>2. IsFiniteSet((1 .. k) \ {m}) /\ Cardinality((1 .. k) \ {m}) = k - 1
    BY <2>1, FS_RemoveElement, ZenonT(60)
  <2> DEFINE T == {j \in keys : j <= k}
  <2>3. T \subseteq (1 .. k) \ {m}
    <3>1. \A i \in keys : i <= k => i \in 1 .. k /\ i # m
      BY <1>0, <2>1
    <3> QED
      BY <3>1
  <2> HIDE DEF T
  <2>4. Cardinality(T) <= k - 1 /\ Cardinality(T) \in Nat
    BY <2>2, <2>3, SubsetSize
  <2>5. Rank(keys, k) = Cardinality(T)
    BY DEF Rank, T
  <2> QED
    BY <2>1, <2>4, <2>5
<1>3. ASSUME NEW k \in 1 .. m - 1 PROVE k \in Passed(keys)
  <2>1. k \in keys
    OBVIOUS
  <2>2. ASSUME NEW j \in keys, j <= k PROVE ~(Rank(keys, j) < j)
    <3>1. j \in 1 .. m - 1
      BY <2>2
    <3> QED
      BY <1>1, <3>1
  <2> QED
    BY <2>1, <2>2 DEF Passed
<1>4. ASSUME NEW k \in Passed(keys) PROVE k \in 1 .. m - 1
  <2>1. k \in keys /\ ~(Rank(keys, k) < k)
    BY <1>4 DEF Passed
  <2>2. ~(k > m) /\ k # m
    BY <1>2, <2>1
  <2> QED
    BY <2>1, <2>2
<1> QED
  BY <1>3, <1>4

\* addUser picks the smallest positive number that is not a key.
LEMMA MinKeyIsLeastFree ==
    ASSUME NEW keys, NEW n \in Nat, keys \subseteq 1 .. n
    PROVE  /\ MinKey(keys) \in 1 .. n + 1 /\ MinKey(keys) \notin keys
           /\ \A j \in 1 .. MinKey(keys) - 1 : j \in keys
<1> DEFINE free == (1 .. n + 1) \ keys
<1>1. n + 1 \in free /\ free \subseteq Nat
  OBVIOUS
<1>2. PICK m \in free : \A k \in free : m <= k
  BY <1>1, LeastElement
<1>3. m \in Nat \ {0} /\ m \notin keys /\ 1 .. m - 1 \subseteq keys
  BY <1>2
<1>4. Passed(keys) = 1 .. m - 1
  <2>1. keys \subseteq Nat \ {0}
    OBVIOUS
  <2> QED
    BY <1>3, <2>1, PassedKeys
<1>5. Cardinality(1 .. m - 1) = m - 1
  BY <1>3, FS_Interval
<1>6. MinKey(keys) = m
  BY <1>3, <1>4, <1>5 DEF MinKey
<1> QED
  BY <1>2, <1>3, <1>6

-----------------------------------------------------------------------------
(* The inductive invariant.  The properties of the runs do not carry each  *)
(* other: a new user finds a free id because every user in the table was   *)
(* seen before (Known); a line read from a socket was typed by the client  *)
(* of that socket (SentByOwner); the PATH of a user is kept by its id, and *)
(* is the one it set as long as no line got to a wrong user (OwnEnv); a    *)
(* socket holds at most the one line that a client that waits for its      *)
(* prompt has sent (Waiting).                                              *)

Known == \A c \in Clients : Online(c) => c \in seen

SentByOwner == \A c \in Clients : \A k \in 1 .. Len(net[c]) : net[c][k].by = c

OwnEnv == \A c \in Clients : Online(c) /\ c \notin mixed => env[sockID[c]] = path[c]

Waiting ==
    /\ LinesRunAsTyped
    /\ ~ahead /\ ~eof => \A c \in Clients : wait[c] <= 1 /\ Len(net[c]) <= wait[c]

Inv == /\ TypeOK /\ TablesAgree /\ PipesReachReceiver
       /\ Known /\ SentByOwner /\ OwnEnv /\ Waiting

\* The server starts with empty tables.
LEMMA InvInit == Init => Inv
<1> SUFFICES ASSUME Init PROVE Inv
  OBVIOUS
<1>1. sent \in 0 .. MaxLines /\ busy \in Clients \cup {Nobody}
  BY MaxUsersAssumption DEF Init
<1>2. TypeOK
  <2>1. /\ up \in BOOLEAN /\ eof \in BOOLEAN /\ left \subseteq Leavers /\ seen \subseteq Clients
        /\ ahead \in BOOLEAN /\ mixed \subseteq Clients
    BY DEF Init
  <2>2. sockID \in [Clients -> Ids \cup {0}] /\ wait \in [Clients -> Nat]
    BY DEF Init
  <2>3. users \in [Ids -> Users \cup {Nobody}]
    BY DEF Init
  <2>4. userPipes \in [Ids -> [Ids -> UserPipes \cup {Nobody}]]
    BY DEF Init, NoPipes
  <2>5. env \in [Ids -> Paths] /\ path \in [Clients -> Paths] /\ PATH \in Paths
    BY BinPathAssumption DEF Init
  <2>6. net \in [Clients -> Seq(Typed)] /\ cin \in Seq(Typed)
    BY DEF Init
  <2>7. flow \in [by : Clients \cup {Nobody}, from : Clients \cup {Nobody}]
    BY DEF Init
  <2> QED
    BY <1>1, <2>1, <2>2, <2>3, <2>4, <2>5, <2>6, <2>7 DEF TypeOK
<1>3. TablesAgree /\ PipesReachReceiver /\ Known /\ OwnEnv
  BY DEF Init, TablesAgree, PipesReachReceiver, Known, OwnEnv, Online, NoPipes
<1>4. SentByOwner /\ Waiting
  BY DEF Init, SentByOwner, Waiting, LinesRunAsTyped
<1> QED
  BY <1>2, <1>3, <1>4 DEF Inv

\* A new connection gets the smallest free id, and there is one: the users in
\* the table are clients that were seen, all different, and this one was not.
LEMMA NewId ==
    ASSUME Inv, NEW c \in Clients, c \notin seen
    PROVE  LET id == MinKey({i \in Ids : users[i] # Nobody})
           IN  /\ id \in Ids /\ users[id] = Nobody
               /\ \A j \in 1 .. id - 1 : j \in Ids /\ users[j] # Nobody
<1> DEFINE keys == {i \in Ids : users[i] # Nobody}
           id   == MinKey(keys)
           f    == [i \in keys |-> users[i].sock]
<1>1. MaxUsers \in Nat /\ keys \subseteq 1 .. MaxUsers
  BY MaxUsersAssumption DEF Ids
<1> HIDE DEF id
<1>2. /\ id \in 1 .. MaxUsers + 1 /\ id \notin keys
      /\ \A j \in 1 .. id - 1 : j \in keys
  BY <1>1, MinKeyIsLeastFree DEF id
<1>3. ASSUME NEW i \in keys
      PROVE  users[i].sock \in Clients \ {c} /\ sockID[users[i].sock] = i
  <2>1. users[i] \in Users /\ i # 0 /\ sockID[users[i].sock] = i
    BY <1>1, <1>3 DEF Inv, TypeOK, TablesAgree, Ids
  <2>2. users[i].sock \in Clients
    BY <2>1 DEF Users
  <2>3. users[i].sock \in seen
    BY <2>1, <2>2 DEF Inv, Known, Online
  <2> QED
    BY <2>1, <2>2, <2>3
<1>4. f \in Injection(keys, Clients \ {c})
  <2>1. f \in [keys -> Clients \ {c}]
    BY <1>3
  <2>2. \A i, j \in keys : f[i] = f[j] => i = j
    BY <1>3
  <2> QED
    BY <2>1, <2>2, Zenon DEF Injection, IsInjective
<1>5. /\ IsFiniteSet(Clients \ {c}) /\ Cardinality(Clients \ {c}) = Cardinality(Clients) - 1
      /\ Cardinality(Clients) \in Nat
  BY ClientsAssumption, FS_RemoveElement, FS_CardinalityType
<1>6. Cardinality(keys) <= Cardinality(Clients \ {c})
  BY <1>4, <1>5, FS_Injection
<1> HIDE DEF keys, f
<1>7. id # MaxUsers + 1
  <2> SUFFICES ASSUME id = MaxUsers + 1 PROVE FALSE
    OBVIOUS
  <2>1. keys = 1 .. MaxUsers
    <3>1. 1 .. id - 1 = 1 .. MaxUsers
      BY <1>1
    <3> QED
      BY <1>1, <1>2, <3>1
  <2>2. Cardinality(1 .. MaxUsers) = MaxUsers
    BY <1>1, FS_Interval
  <2> QED
    BY <1>1, <1>5, <1>6, <2>1, <2>2, ClientsAssumption
<1>8. id \in Ids /\ users[id] = Nobody
  BY <1>1, <1>2, <1>7 DEF Ids, keys
<1> QED
  BY <1>2, <1>8 DEF id, keys

\* The user of an online socket is in the table.
LEMMA OnlineUser ==
    ASSUME Inv, NEW c \in Clients, Online(c)
    PROVE  /\ sockID[c] \in Ids /\ users[sockID[c]] \in Users
           /\ users[sockID[c]] # Nobody /\ users[sockID[c]].sock = c
BY DEF Inv, TypeOK, TablesAgree, Online

\* A pass of runShellLoop finds a well-formed line, and leaves the input
\* well-formed; a line that comes straight from the socket is its client's.
LEMMA ServedLine ==
    ASSUME Inv, NEW c \in Clients, NEW op, Serve(c, op)
    PROVE  /\ Line(c) \in LineType /\ Line(c).op = op /\ By(c) \in Clients
           /\ cin = << >> => By(c) = c
           /\ cin' \in Seq(Typed) /\ net' \in [Clients -> Seq(Typed)]
           /\ Online(c) /\ SentByOwner'
<1>1. net[c] \in Seq(Typed) /\ cin \in Seq(Typed)
  BY DEF Inv, TypeOK
<1>2. Buffered(c) \in Seq(Typed) /\ Buffered(c) # << >> /\ Online(c)
  BY <1>1 DEF Buffered, Serve, Ready
<1>3. Head(Buffered(c)) \in Typed /\ Tail(Buffered(c)) \in Seq(Typed)
  BY <1>2
<1>4. Line(c) \in LineType /\ Line(c).op = op /\ By(c) \in Clients
  BY <1>3, LinesAssumption DEF Line, By, Typed, Serve
<1>5. cin = << >> => By(c) = c
  <2> SUFFICES ASSUME cin = << >> PROVE By(c) = c
    OBVIOUS
  <2>1. Buffered(c) = net[c] /\ 1 \in 1 .. Len(net[c])
    BY <1>1, <1>2 DEF Buffered
  <2>2. Head(Buffered(c)) = net[c][1] /\ net[c][1].by = c
    BY <2>1 DEF Inv, SentByOwner
  <2> QED
    BY <2>2 DEF By
<1>6. cin' \in Seq(Typed)
  BY <1>3 DEF Serve
<1>7. net' \in [Clients -> Seq(Typed)]
  BY DEF Serve, Inv, TypeOK
<1>8. SentByOwner'
  <2> SUFFICES ASSUME NEW d \in Clients, NEW k \in 1 .. Len(net'[d])
               PROVE  net'[d][k].by = d
    BY DEF SentByOwner
  <2>1. net'[d] = net[d] \/ net'[d] = << >>
    BY DEF Serve, Inv, TypeOK
  <2> QED
    BY <2>1 DEF Inv, SentByOwner
<1> QED
  BY <1>2, <1>4, <1>5, <1>6, <1>7, <1>8

\* What a line does to the input, whatever it says: afterwards PATH has a value
\* again, clients whose lines got mixed up stay noted, and a client that waited
\* for its prompt has no line left in its socket.
LEMMA ServedInput ==
    ASSUME Inv, NEW c \in Clients, NEW op, Serve(c, op), Prompt(c) \/ UNCHANGED wait
    PROVE  /\ PATH' \in Paths /\ wait' \in [Clients -> Nat]
           /\ mixed \subseteq mixed' /\ mixed' \subseteq Clients
           /\ By(c) = c \/ {c, By(c)} \subseteq mixed'
           /\ Waiting'
<1>1. /\ Line(c) \in LineType /\ Line(c).op = op /\ By(c) \in Clients /\ Online(c)
      /\ cin = << >> => By(c) = c
  BY ServedLine
<1>2. PATH' \in Paths
  <2>1. op = "setenv" => Line(c).path \in Paths
    BY <1>1 DEF LineType
  <2>2. PathOf(c) \in Paths
    BY <1>1, OnlineUser DEF PathOf, ServingUserID, Inv, TypeOK
  <2> QED
    BY <2>1, <2>2 DEF Serve
<1>3. wait' \in [Clients -> Nat] /\ \A d \in Clients : d # c => wait'[d] = wait[d]
  <2>1. wait \in [Clients -> Nat]
    BY DEF Inv, TypeOK
  <2> QED
    BY <2>1 DEF Prompt
<1>4. /\ mixed \subseteq mixed' /\ mixed' \subseteq Clients
      /\ By(c) = c \/ {c, By(c)} \subseteq mixed'
  <2>1. mixed' = IF By(c) = c THEN mixed ELSE mixed \cup {c, By(c)}
    BY DEF Serve
  <2>2. mixed \subseteq Clients
    BY DEF Inv, TypeOK
  <2>3. CASE By(c) = c
    BY <2>1, <2>2, <2>3
  <2>4. CASE By(c) # c
    <3>1. mixed' = mixed \cup {c, By(c)} /\ By(c) \in Clients
      BY <1>1, <2>1, <2>4
    <3> QED
      BY <2>2, <3>1
  <2> QED
    BY <2>3, <2>4
<1>5. Waiting'
  <2> SUFFICES ASSUME ~ahead
               PROVE  /\ mixed' = {} /\ cin' = << >>
                      /\ \A d \in Clients : wait'[d] <= 1 /\ Len(net'[d]) <= wait'[d]
    BY DEF Waiting, LinesRunAsTyped, Serve
  <2>1. /\ mixed = {} /\ cin = << >> /\ ~eof
        /\ \A d \in Clients : wait[d] <= 1 /\ Len(net[d]) <= wait[d]
    BY DEF Inv, Waiting, LinesRunAsTyped, Serve
  <2>2. Buffered(c) = net[c] /\ net[c] \in Seq(Typed) /\ net[c] # << >>
    BY <2>1 DEF Buffered, Serve, Inv, TypeOK
  <2>3. Tail(net[c]) = << >>
    <3>1. Len(net[c]) <= 1
      BY <2>1, <2>2, <1>3 DEF Inv, TypeOK
    <3> QED
      BY <2>2, <3>1
  <2>4. net' = [net EXCEPT ![c] = << >>] /\ mixed' = mixed /\ cin' = << >>
    BY <1>1, <2>1, <2>2, <2>3 DEF Serve
  <2>5. wait'[c] <= 1 /\ wait'[c] >= 0
    BY <2>1 DEF Prompt, Inv, TypeOK
  <2> QED
    BY <1>3, <2>1, <2>4, <2>5 DEF Inv, TypeOK
<1> QED
  BY <1>2, <1>3, <1>4, <1>5

\* Every step preserves the invariant.
LEMMA InvNext == Inv /\ [Next]_vars => Inv'
<1> SUFFICES ASSUME Inv, [Next]_vars PROVE Inv'
  OBVIOUS
<1>1. ASSUME NEW c \in Clients, AddUser(c) PROVE Inv'
  <2> DEFINE id  == MinKey({i \in Ids : users[i] # Nobody})
             new == [sock |-> c, name |-> NoName, isConnected |-> TRUE]
  <2>1. id \in Ids /\ users[id] = Nobody /\ id # 0
    BY <1>1, NewId, MaxUsersAssumption DEF AddUser, Ids
  <2>2. new \in Users /\ new # Nobody /\ new.sock = c
    <3>1. new \in Users /\ new.sock = c
      BY DEF Users
    <3> QED
      BY <3>1, NobodyAssumption, Zenon
  <2>3. /\ sockID' = [sockID EXCEPT ![c] = id] /\ users' = [users EXCEPT ![id] = new]
        /\ userPipes' = [userPipes EXCEPT ![id] = NoPipes] /\ seen' = seen \cup {c}
        /\ path' = [path EXCEPT ![c] = env[id]] /\ up' \in BOOLEAN
        /\ UNCHANGED <<env, PATH, net, input, left, wait, sent, ahead, mixed, flow>>
        /\ c \notin seen
    BY <1>1 DEF AddUser, SendTo
  <2> HIDE DEF id, new
  <2>4. sockID[c] = 0
    BY <2>3 DEF Inv, Known, Online
  <2>5. TypeOK'
    <3>1. sockID' \in [Clients -> Ids \cup {0}] /\ users' \in [Ids -> Users \cup {Nobody}]
      BY <2>1, <2>2, <2>3 DEF Inv, TypeOK
    <3>2. userPipes' \in [Ids -> [Ids -> UserPipes \cup {Nobody}]]
      BY <2>1, <2>3 DEF Inv, TypeOK, NoPipes
    <3>3. path' \in [Clients -> Paths]
      BY <2>1, <2>3 DEF Inv, TypeOK
    <3> QED
      BY <2>3, <3>1, <3>2, <3>3 DEF Inv, TypeOK, input
  <2>6. TablesAgree'
    <3>1. ASSUME NEW d \in Clients, Online(d)'
          PROVE  users'[sockID'[d]] # Nobody /\ users'[sockID'[d]].sock = d
      <4>1. CASE d = c
        BY <2>1, <2>2, <2>3, <4>1 DEF Inv, TypeOK
      <4>2. CASE d # c
        <5>1. sockID'[d] = sockID[d] /\ Online(d)
          BY <2>3, <3>1, <4>2 DEF Inv, TypeOK, Online
        <5>2. users[sockID[d]] # Nobody /\ users[sockID[d]].sock = d /\ sockID[d] \in Ids
          BY <5>1, OnlineUser
        <5> QED
          BY <2>1, <2>3, <5>1, <5>2 DEF Inv, TypeOK
      <4> QED
        BY <4>1, <4>2
    <3>2. ASSUME NEW i \in Ids, users'[i] # Nobody PROVE sockID'[users'[i].sock] = i
      <4>1. CASE i = id
        BY <2>1, <2>2, <2>3, <4>1 DEF Inv, TypeOK
      <4>2. CASE i # id
        <5>1. users'[i] = users[i] /\ sockID[users[i].sock] = i /\ users[i] \in Users
          BY <2>3, <3>2, <4>2 DEF Inv, TypeOK, TablesAgree
        <5>2. users[i].sock \in Clients /\ users[i].sock # c
          BY <2>4, <5>1, MaxUsersAssumption DEF Users, Ids
        <5> QED
          BY <2>3, <5>1, <5>2 DEF Inv, TypeOK
      <4> QED
        BY <4>1, <4>2
    <3> QED
      BY <3>1, <3>2 DEF TablesAgree
  <2>7. PipesReachReceiver'
    BY <2>1, <2>3 DEF Inv, TypeOK, PipesReachReceiver, NoPipes
  <2>8. Known' /\ OwnEnv'
    BY <2>1, <2>3, <2>4 DEF Inv, TypeOK, Known, OwnEnv, Online
  <2>9. SentByOwner' /\ Waiting'
    BY <2>3 DEF Inv, SentByOwner, Waiting, LinesRunAsTyped, input
  <2> QED
    BY <2>5, <2>6, <2>7, <2>8, <2>9 DEF Inv
<1>2. ASSUME NEW c \in Clients, NEW l \in Lines[c], Send(c, l) PROVE Inv'
  <2> DEFINE m == [by |-> c, line |-> l]
  <2>1. net[c] \in Seq(Typed) /\ m \in Typed
    <3>1. net[c] \in Seq(Typed)
      BY DEF Inv, TypeOK
    <3>2. m \in Typed
      BY DEF Typed
    <3> QED
      BY <3>1, <3>2
  <2>2. /\ net' = [net EXCEPT ![c] = Append(net[c], m)]
        /\ wait' = [wait EXCEPT ![c] = wait[c] + 1] /\ ahead' = (ahead \/ wait[c] # 0)
        /\ UNCHANGED <<up, sockID, users, userPipes, env, PATH, cin, eof, busy, left,
                       seen, mixed, path, flow>>
    BY <1>2 DEF Send, chat, input
  <2>3. m.by = c
    OBVIOUS
  <2> HIDE DEF m
  <2>4. TypeOK'
    <3>1. Append(net[c], m) \in Seq(Typed)
      BY <2>1
    <3>2. net' \in [Clients -> Seq(Typed)]
      BY <2>2, <3>1 DEF Inv, TypeOK
    <3>3. wait' \in [Clients -> Nat] /\ sent' \in 0 .. MaxLines
      BY <1>2, MaxUsersAssumption DEF Send, Inv, TypeOK
    <3> QED
      BY <2>2, <3>2, <3>3 DEF Inv, TypeOK
  <2>5. SentByOwner'
    <3> SUFFICES ASSUME NEW d \in Clients, NEW k \in 1 .. Len(net'[d])
                 PROVE  net'[d][k].by = d
      BY DEF SentByOwner
    <3>1. CASE d # c
      BY <2>2, <3>1 DEF Inv, TypeOK, SentByOwner
    <3>2. CASE d = c
      <4>1. net'[c] = Append(net[c], m)
        BY <2>2 DEF Inv, TypeOK
      <4>2. \/ k = Len(net[c]) + 1 /\ net'[c][k] = m
            \/ k \in 1 .. Len(net[c]) /\ net'[c][k] = net[c][k]
        <5>1. k \in DOMAIN Append(net[c], m)
          BY <2>1, <3>2, <4>1, AppendElements
        <5> QED
          BY <2>1, <4>1, <5>1, AppendElements
      <4> QED
        BY <2>3, <3>2, <4>2 DEF Inv, SentByOwner
    <3> QED
      BY <3>1, <3>2
  <2>6. Waiting'
    <3>1. LinesRunAsTyped'
      BY <2>2 DEF Inv, Waiting, LinesRunAsTyped
    <3>2. ASSUME ~ahead', ~eof', NEW d \in Clients
          PROVE  wait'[d] <= 1 /\ Len(net'[d]) <= wait'[d]
      <4>1. ~ahead /\ ~eof /\ wait[c] = 0
        BY <2>2, <3>2
      <4>2. wait[d] <= 1 /\ Len(net[d]) <= wait[d] /\ Len(net[c]) <= wait[c]
        BY <4>1 DEF Inv, Waiting
      <4>3. CASE d # c
        BY <2>2, <4>2, <4>3 DEF Inv, TypeOK
      <4>4. CASE d = c
        <5>1. Len(Append(net[c], m)) = Len(net[c]) + 1 /\ Len(net[c]) \in Nat
          BY <2>1
        <5> QED
          BY <2>2, <4>1, <4>2, <4>4, <5>1 DEF Inv, TypeOK
      <4> QED
        BY <4>3, <4>4
    <3> QED
      BY <3>1, <3>2 DEF Waiting
  <2> QED
    BY <2>2, <2>4, <2>5, <2>6 DEF Inv, TablesAgree, PipesReachReceiver, OwnEnv, Known, Online
<1>3. ASSUME NEW c \in Clients, Disconnect(c) PROVE Inv'
  <2>1. /\ left' = left \cup {c} /\ c \in Leavers
        /\ UNCHANGED <<up, sockID, users, userPipes, env, PATH, net, cin, eof, busy, wait, sent,
                       seen, ahead, mixed, path, flow>>
    BY <1>3 DEF Disconnect, chat, input, history
  <2>2. TypeOK'
    BY <2>1 DEF Inv, TypeOK
  <2> QED
    BY <2>1, <2>2 DEF Inv, TablesAgree, PipesReachReceiver, OwnEnv, Known, Online,
                      SentByOwner, Waiting, LinesRunAsTyped
<1>4. ASSUME NEW c \in Clients, ServeNoLine(c) PROVE Inv'
  <2>1. /\ eof' = TRUE /\ up' \in BOOLEAN /\ Prompt(c) /\ PATH' = PathOf(c) /\ Online(c)
        /\ UNCHANGED <<sockID, users, userPipes, env, net, cin, busy, left, sent,
                       seen, ahead, mixed, path, flow>>
    BY <1>4 DEF ServeNoLine, SendTo, Ready, chat, history
  <2>2. wait' \in [Clients -> Nat] /\ PATH' \in Paths
    BY <2>1, OnlineUser DEF Prompt, PathOf, ServingUserID, Inv, TypeOK
  <2>3. TypeOK'
    BY <2>1, <2>2 DEF Inv, TypeOK
  <2>4. Waiting'
    BY <2>1 DEF Inv, Waiting, LinesRunAsTyped
  <2> QED
    BY <2>1, <2>3, <2>4 DEF Inv, TablesAgree, PipesReachReceiver, OwnEnv, Known, Online,
                            SentByOwner
<1>5. ASSUME NEW c \in Clients, Name(c) PROVE Inv'
  <2> DEFINE n == Line(c).name
             i == sockID[c]
             u == [users[i] EXCEPT !.name = n, !.isConnected = @ /\ n \notin LongNames]
  <2>1. /\ Serve(c, "name") /\ Online(c) /\ Prompt(c)
        /\ UNCHANGED <<eof, busy, left, sent, seen, ahead, sockID, userPipes, env, path, flow>>
    BY <1>5 DEF Name, Serve, Ready
  <2>2. n \in Names \cup LongNames
    BY <2>1, ServedLine, SMTT(30) DEF LineType
  <2>3. i \in Ids /\ users[i] \in Users /\ users[i].sock = c
    BY <2>1, OnlineUser
  <2>4. u \in Users /\ u # Nobody /\ u.sock = c
    <3>1. u \in Users /\ u.sock = c
      BY <2>2, <2>3 DEF Users
    <3> QED
      BY <3>1, NobodyAssumption, Zenon
  <2>5. up' \in BOOLEAN /\ (users' = users \/ users' = [users EXCEPT ![i] = u])
    BY <1>5, <2>3 DEF Name, SendTo, ServingUserID, Inv, TypeOK
  <2> HIDE DEF n, i, u
  <2>7. /\ users' \in [Ids -> Users \cup {Nobody}]
        /\ \A j \in Ids : /\ users'[j] = Nobody <=> users[j] = Nobody
                          /\ users'[j].sock = users[j].sock
    <3>1. CASE users' = users
      BY <3>1 DEF Inv, TypeOK
    <3>2. CASE users' = [users EXCEPT ![i] = u]
      <4>1. users[i] # Nobody
        BY <2>3, NobodyAssumption, Zenon
      <4> QED
        BY <2>3, <2>4, <3>2, <4>1 DEF Inv, TypeOK
    <3> QED
      BY <2>5, <3>1, <3>2
  <2>8. TypeOK' /\ SentByOwner'
    BY <2>1, <2>5, <2>7, ServedLine, ServedInput DEF Inv, TypeOK
  <2>9. TablesAgree' /\ PipesReachReceiver'
    <3>1. ASSUME NEW d \in Clients, Online(d)'
          PROVE  users'[sockID'[d]] # Nobody /\ users'[sockID'[d]].sock = d
      <4>1. Online(d) /\ sockID'[d] = sockID[d]
        BY <2>1, <3>1 DEF Online
      <4> QED
        BY <2>7, <4>1, OnlineUser
    <3>2. \A j \in Ids : users'[j] # Nobody => sockID'[users'[j].sock] = j
      BY <2>1, <2>7 DEF Inv, TablesAgree
    <3>3. PipesReachReceiver'
      BY <2>1, <2>7 DEF Inv, PipesReachReceiver
    <3> QED
      BY <3>1, <3>2, <3>3 DEF TablesAgree
  <2>10. OwnEnv' /\ Waiting'
    BY <2>1, ServedInput DEF Inv, OwnEnv, Online
  <2> QED
    BY <2>1, <2>8, <2>9, <2>10 DEF Inv, Known, Online
<1>6. ASSUME NEW c \in Clients, SetEnv(c) PROVE Inv'
  <2> DEFINE p == Line(c).path
             i == sockID[c]
  <2>1. /\ Serve(c, "setenv") /\ Online(c) /\ Prompt(c) /\ up' \in BOOLEAN
        /\ UNCHANGED <<eof, busy, left, sent, seen, ahead, sockID, users, userPipes, flow>>
        /\ env' = [env EXCEPT ![i] = p] /\ path' = [path EXCEPT ![By(c)] = p]
    BY <1>6 DEF SetEnv, Serve, SendTo, Ready, chat, ServingUserID
  <2>2. p \in Paths
    <3>1. Line(c) \in LineType /\ Line(c).op = "setenv"
      BY <2>1, ServedLine
    <3> QED
      BY <3>1 DEF LineType
  <2>3. i \in Ids /\ c \in seen
    BY <2>1, OnlineUser DEF Inv, Known
  <2> HIDE DEF p
  <2>4. TypeOK' /\ SentByOwner' /\ Waiting'
    BY <2>1, <2>2, ServedLine, ServedInput DEF Inv, TypeOK
  <2>5. \A d \in Clients : Online(d) /\ d # c => sockID[d] # i
    BY <2>1, OnlineUser
  <2>6. OwnEnv'
    <3> SUFFICES ASSUME NEW d \in Clients, Online(d), d \notin mixed'
                 PROVE  env'[sockID[d]] = path'[d]
      BY <2>1 DEF OwnEnv, Online
    <3>1. mixed \subseteq mixed' /\ (By(c) = c \/ {c, By(c)} \subseteq mixed') /\ By(c) \in Clients
      BY <2>1, ServedLine, ServedInput
    <3>2. CASE d = c
      BY <2>1, <2>3, <3>1, <3>2 DEF Inv, TypeOK
    <3>3. CASE d # c
      <4>1. d # By(c) /\ sockID[d] # i /\ d \notin mixed
        BY <2>5, <3>1, <3>3
      <4> QED
        BY <2>1, <4>1 DEF Inv, TypeOK, OwnEnv
    <3> QED
      BY <3>2, <3>3
  <2> QED
    BY <2>1, <2>4, <2>6 DEF Inv, TablesAgree, PipesReachReceiver, Known, Online
<1>7. ASSUME NEW c \in Clients, Tell(c) PROVE Inv'
  <2>1. /\ Serve(c, "tell") /\ Online(c) /\ Prompt(c) /\ up' \in BOOLEAN
        /\ UNCHANGED <<eof, busy, left, sent, seen, ahead, sockID, users, userPipes, env, path, flow>>
    BY <1>7 DEF Tell, Serve, SendTo, Ready, chat, ServingUserID
  <2>2. TypeOK' /\ SentByOwner' /\ Waiting'
    BY <2>1, ServedLine, ServedInput DEF Inv, TypeOK
  <2>3. OwnEnv'
    BY <2>1, ServedInput DEF Inv, OwnEnv, Online
  <2> QED
    BY <2>1, <2>2, <2>3 DEF Inv, TablesAgree, PipesReachReceiver, Known, Online
<1>8. ASSUME NEW c \in Clients, RunLine(c) PROVE Inv'
  <2> DEFINE i    == sockID[c]
             l    == Line(c)
             got  == l.from # 0 /\ users[l.from] # Nobody /\ userPipes[i][l.from] # Nobody
             mid  == IF got THEN [userPipes EXCEPT ![i][l.from] = Nobody] ELSE userPipes
             puts == l.to # 0 /\ users[l.to] # Nobody /\ mid[l.to][i] = Nobody
             p    == [by |-> c, for |-> users[l.to].sock]
  <2>1. /\ Serve(c, "run") /\ Online(c) /\ Prompt(c) /\ up' \in BOOLEAN
        /\ UNCHANGED <<eof, busy, left, sent, seen, ahead, sockID, users, env, path>>
    BY <1>8 DEF RunLine, Serve, SendTo, Ready
  <2>2. /\ flow' = IF got THEN [by |-> userPipes[i][l.from].by, from |-> users[l.from].sock]
                          ELSE flow
        /\ userPipes' = IF puts THEN [mid EXCEPT ![l.to][i] = p] ELSE mid
    BY <1>8 DEF RunLine, AfterWrite, ServingUserID
  <2>3. i \in Ids /\ l.from \in Ids \cup {0} /\ l.to \in Ids \cup {0}
    BY <2>1, OnlineUser, ServedLine, SMTT(30) DEF LineType
  <2> HIDE DEF i, l
  <2>4. flow' \in [by : Clients \cup {Nobody}, from : Clients \cup {Nobody}]
    <3>1. got => userPipes[i][l.from] \in UserPipes /\ users[l.from] \in Users
      BY <2>3 DEF Inv, TypeOK
    <3> QED
      BY <2>2, <3>1 DEF Inv, TypeOK, UserPipes, Users
  <2>5. /\ mid \in [Ids -> [Ids -> UserPipes \cup {Nobody}]]
        /\ \A a, b \in Ids : mid[a][b] # Nobody => mid[a][b] = userPipes[a][b]
    BY <2>3 DEF Inv, TypeOK
  <2>6. puts => p \in UserPipes /\ l.to \in Ids
    <3>1. puts => l.to \in Ids /\ users[l.to] \in Users
      BY <2>3 DEF Inv, TypeOK
    <3> QED
      BY <3>1 DEF UserPipes, Users
  <2> HIDE DEF mid
  <2>7. /\ userPipes' \in [Ids -> [Ids -> UserPipes \cup {Nobody}]]
        /\ \A a, b \in Ids : \/ userPipes'[a][b] = mid[a][b]
                             \/ userPipes'[a][b] = p /\ a = l.to /\ users[a] # Nobody
    <3>1. CASE ~puts
      <4>1. userPipes' = mid
        BY <2>2, <3>1
      <4> HIDE DEF p, puts
      <4> QED
        BY <2>5, <4>1
    <3>2. CASE puts
      <4>1. userPipes' = [mid EXCEPT ![l.to][i] = p]
        BY <2>2, <3>2
      <4>2. l.to \in Ids /\ p \in UserPipes /\ users[l.to] # Nobody
        BY <2>6, <3>2
      <4> DEFINE row == [mid[l.to] EXCEPT ![i] = p]
      <4> HIDE DEF p, puts
      <4>3. /\ row \in [Ids -> UserPipes \cup {Nobody}]
            /\ \A b \in Ids : row[b] = mid[l.to][b] \/ row[b] = p
        BY <2>3, <2>5, <4>2
      <4>4. userPipes' = [mid EXCEPT ![l.to] = row]
        BY <4>1
      <4> HIDE DEF row
      <4> QED
        BY <2>5, <4>2, <4>3, <4>4
    <3> QED
      BY <3>1, <3>2
  <2>8. PipesReachReceiver'
    <3> SUFFICES ASSUME NEW a \in Ids, NEW b \in Ids, userPipes'[a][b] # Nobody
                 PROVE  users[a] # Nobody /\ userPipes'[a][b].for = users[a].sock
      BY <2>1 DEF PipesReachReceiver
    <3>1. CASE userPipes'[a][b] = p /\ a = l.to /\ users[a] # Nobody
      BY <3>1
    <3>2. CASE userPipes'[a][b] = mid[a][b]
      BY <2>5, <3>2 DEF Inv, PipesReachReceiver
    <3> QED
      BY <2>7, <3>1, <3>2
  <2>9. TypeOK' /\ SentByOwner' /\ Waiting'
    BY <2>1, <2>4, <2>7, ServedLine, ServedInput DEF Inv, TypeOK
  <2>10. OwnEnv'
    BY <2>1, ServedInput DEF Inv, OwnEnv, Online
  <2> QED
    BY <2>1, <2>8, <2>9, <2>10 DEF Inv, TablesAgree, Known, Online
<1>9. ASSUME NEW c \in Clients, Exit(c) PROVE Inv'
  <2> DEFINE i == sockID[c]
  <2>1. /\ Serve(c, "exit") /\ Online(c) /\ up' \in BOOLEAN
        /\ UNCHANGED <<eof, busy, left, wait, sent, seen, ahead, env, path, flow>>
        /\ users' = [users EXCEPT ![i] = Nobody]
        /\ userPipes' = [userPipes EXCEPT ![i] = NoPipes]
        /\ sockID' = [sockID EXCEPT ![c] = 0]
    BY <1>9 DEF Exit, Serve, SendTo, Ready
  <2>2. i \in Ids /\ users[i].sock = c
    BY <2>1, OnlineUser
  <2>3. TypeOK' /\ SentByOwner' /\ Waiting'
    <3>1. userPipes' \in [Ids -> [Ids -> UserPipes \cup {Nobody}]]
      BY <2>1 DEF Inv, TypeOK, NoPipes
    <3>2. sockID' \in [Clients -> Ids \cup {0}] /\ users' \in [Ids -> Users \cup {Nobody}]
      BY <2>1 DEF Inv, TypeOK
    <3> QED
      BY <2>1, <3>1, <3>2, ServedLine, ServedInput DEF Inv, TypeOK
  <2>4. \A d \in Clients : Online(d)' => d # c /\ Online(d) /\ sockID'[d] = sockID[d] /\ sockID[d] # i
    BY <2>1, OnlineUser, ZenonT(60) DEF Online, Inv, TypeOK
  <2>5. TablesAgree'
    <3>1. ASSUME NEW d \in Clients, Online(d)'
          PROVE  users'[sockID'[d]] # Nobody /\ users'[sockID'[d]].sock = d
      BY <2>1, <2>4, <3>1, OnlineUser DEF Inv, TypeOK
    <3>2. ASSUME NEW j \in Ids, users'[j] # Nobody PROVE sockID'[users'[j].sock] = j
      <4>1. j # i /\ users'[j] = users[j] /\ users[j] \in Users
        BY <2>1, <3>2 DEF Inv, TypeOK
      <4>2. sockID[users[j].sock] = j /\ users[j].sock \in Clients
        BY <3>2, <4>1 DEF Inv, TablesAgree, Users
      <4> QED
        BY <2>1, <4>1, <4>2 DEF Inv, TypeOK
    <3> QED
      BY <3>1, <3>2 DEF TablesAgree
  <2>6. PipesReachReceiver'
    BY <2>1 DEF Inv, TypeOK, PipesReachReceiver, NoPipes
  <2>7. Known' /\ OwnEnv'
    BY <2>1, <2>4, ServedInput DEF Inv, Known, OwnEnv
  <2> QED
    BY <2>3, <2>5, <2>6, <2>7 DEF Inv
<1>10. ASSUME NEW c \in Clients, Cat(c) PROVE Inv'
  <2>1. /\ Serve(c, "cat") /\ busy' = c
        /\ UNCHANGED <<up, eof, left, wait, sent, seen, ahead, sockID, users, userPipes, env,
                       path, flow>>
    BY <1>10 DEF Cat, Serve, chat
  <2>2. TypeOK' /\ SentByOwner' /\ Waiting'
    BY <2>1, ServedLine, ServedInput DEF Inv, TypeOK
  <2>3. OwnEnv'
    BY <2>1, ServedInput DEF Inv, OwnEnv, Online
  <2> QED
    BY <2>1, <2>2, <2>3 DEF Inv, TablesAgree, PipesReachReceiver, Known, Online
<1>11. ASSUME NEW c \in Clients, CatReads(c) PROVE Inv'
  <2>1. /\ net' = [net EXCEPT ![c] = << >>]
        /\ UNCHANGED <<up, sockID, users, userPipes, env, PATH, cin, eof, busy, left, wait, sent,
                       seen, ahead, mixed, path, flow>>
    BY <1>11 DEF CatReads, chat, input, history
  <2>2. TypeOK'
    BY <2>1 DEF Inv, TypeOK
  <2>3. SentByOwner' /\ Waiting'
    <3>1. \A d \in Clients : net'[d] = net[d] \/ net'[d] = << >>
      BY <2>1 DEF Inv, TypeOK
    <3>2. SentByOwner'
      BY <3>1 DEF Inv, SentByOwner
    <3>3. Waiting'
      BY <2>1, <3>1 DEF Inv, TypeOK, Waiting, LinesRunAsTyped
    <3> QED
      BY <3>2, <3>3
  <2> QED
    BY <2>1, <2>2, <2>3 DEF Inv, TablesAgree, PipesReachReceiver, OwnEnv, Known, Online
<1>12. ASSUME NEW c \in Clients, CatEnds(c) PROVE Inv'
  <2>1. /\ busy' = Nobody /\ up' \in BOOLEAN /\ Prompt(c) /\ net[c] = << >>
        /\ UNCHANGED <<sockID, users, userPipes, env, PATH, net, cin, eof, left, sent,
                       seen, ahead, mixed, path, flow>>
    BY <1>12 DEF CatEnds, SendTo, chat, history
  <2>2. TypeOK'
    <3>1. wait \in [Clients -> Nat]
      BY DEF Inv, TypeOK
    <3>2. wait' \in [Clients -> Nat]
      BY <2>1, <3>1 DEF Prompt
    <3> QED
      BY <2>1, <3>2 DEF Inv, TypeOK
  <2>3. Waiting'
    BY <2>1 DEF Prompt, Inv, TypeOK, Waiting, LinesRunAsTyped
  <2> QED
    BY <2>1, <2>2, <2>3 DEF Inv, TablesAgree, PipesReachReceiver, OwnEnv, Known, Online,
                            SentByOwner
<1>13. CASE UNCHANGED vars
  BY <1>13 DEF vars, chat, input, history, Inv, TypeOK, TablesAgree, PipesReachReceiver,
               OwnEnv, Known, Online, SentByOwner, Waiting, LinesRunAsTyped
<1> QED
  BY <1>1, <1>2, <1>3, <1>4, <1>5, <1>6, <1>7, <1>8, <1>9, <1>10, <1>11, <1>12, <1>13
     DEF Next, Served

-----------------------------------------------------------------------------
(* The theorems.                                                           *)

\* The inductive invariant holds in every reachable state.
THEOREM InvHolds == Spec => []Inv
BY InvInit, InvNext, PTL DEF Spec

\* Whatever the clients send and in whatever order the sockets are served, the
\* tables of the server keep their types (chatServer.hpp, np_single_proc.cpp).
THEOREM TypeCorrect == Spec => []TypeOK
<1>1. Inv => TypeOK
  BY DEF Inv
<1> QED
  BY <1>1, InvHolds, PTL

\* A socket has one user and a user one socket, through every sequence of
\* logins and exits, because addUser finds an id that is free.
THEOREM TablesAlwaysAgree == Spec => []TablesAgree
<1>1. Inv => TablesAgree
  BY DEF Inv
<1> QED
  BY <1>1, InvHolds, PTL

\* A user pipe can only be read by the user it was written for: the pipes of an
\* id start empty when the id is given to somebody else.
THEOREM PipesAlwaysReachReceiver == Spec => []PipesReachReceiver
<1>1. Inv => PipesReachReceiver
  BY DEF Inv
<1> QED
  BY <1>1, InvHolds, PTL

\* A command runs with the PATH that its user set, though env_table is kept by
\* id and an id keeps its entry when its owner leaves: PATH is switched before
\* every line, and no line got to a wrong user.
THEOREM PathsStayApart == Spec => OwnPath
<1> DEFINE Own == \A c \in Clients : RunLine(c) /\ c \notin mixed' => PATH' = path[c]
<1>1. Inv /\ [Next]_vars => [Own]_vars
  <2> SUFFICES ASSUME Inv, NEW c \in Clients, RunLine(c), c \notin mixed'
               PROVE  PATH' = path[c]
    OBVIOUS
  <2>1. Serve(c, "run") /\ Prompt(c)
    BY DEF RunLine
  <2>2. PATH' = env[sockID[c]]
    BY <2>1 DEF Serve, PathOf, ServingUserID
  <2>3. Online(c) /\ c \notin mixed
    BY <2>1, ServedLine, ServedInput
  <2> QED
    BY <2>2, <2>3 DEF Inv, OwnEnv
<1> QED
  BY <1>1, InvHolds, PTL DEF Spec, OwnPath

\* As long as every client waits for its prompt, no line is left in std::cin for
\* the user of another socket: the buffer is shared, but holds one line at most.
THEOREM LinesStayApart == Spec => []LinesRunAsTyped
<1>1. Inv => LinesRunAsTyped
  BY DEF Inv, Waiting
<1> QED
  BY <1>1, InvHolds, PTL

-----------------------------------------------------------------------------
(* The refinement: every step of the server is a step of the directory of  *)
(* users or leaves the directory alone, except a name that is set while    *)
(* the check of names does not see every user.                             *)

\* addUser is a login under the smallest unused id.
LEMMA AddUserIsLogin ==
    ASSUME Inv, NEW c \in Clients, AddUser(c)
    PROVE  Directory!Login(c)
<1> DEFINE id  == MinKey({i \in Ids : users[i] # Nobody})
           new == [sock |-> c, name |-> NoName, isConnected |-> TRUE]
<1>1. /\ id \in Ids /\ users[id] = Nobody
      /\ \A j \in 1 .. id - 1 : j \in Ids /\ users[j] # Nobody
  BY NewId DEF AddUser
<1>2. users' = [users EXCEPT ![id] = new] /\ c \notin seen
  BY DEF AddUser
<1> HIDE DEF id
<1>3. \A i \in Ids : users[i] # Nobody => users[i].sock \in Clients /\ users[i].sock # c
  <2> SUFFICES ASSUME NEW i \in Ids, users[i] # Nobody
               PROVE  users[i].sock \in Clients /\ users[i].sock # c
    OBVIOUS
  <2>1. users[i].sock \in Clients /\ sockID[users[i].sock] = i /\ i # 0
    BY MaxUsersAssumption DEF Inv, TypeOK, Users, TablesAgree, Ids
  <2> QED
    BY <1>2, <2>1 DEF Inv, Known, Online
<1>4. new # Nobody /\ c # Nobody
  <2>1. new \in Users
    BY DEF Users
  <2> QED
    BY <2>1, NobodyAssumption, Zenon
<1>5. \A i \in Ids : who[i] # c
  BY <1>3, <1>4 DEF who
<1>6. who[id] = Nobody /\ \A j \in 1 .. id - 1 : who[j] # Nobody
  BY <1>1, <1>3, NobodyAssumption DEF who
<1>7. who' = [who EXCEPT ![id] = c] /\ called' = called
  BY <1>1, <1>2, <1>4 DEF who, called, Inv, TypeOK, Users
<1> QED
  BY <1>1, <1>5, <1>6, <1>7 DEF Directory!Login, Directory!Ids, Ids, who, called

\* name is a renaming, unless the name is taken: when every user is connected,
\* the check sees the names of all.  It never changes who has which id.
LEMMA NameIsRename ==
    ASSUME Inv, NEW c \in Clients, Name(c)
    PROVE  \/ \E i \in Ids : \E n \in Names \cup LongNames : Directory!Rename(i, n)
           \/ UNCHANGED <<who, called>>
           \/ ~NobodyHidden /\ UNCHANGED who
<1> DEFINE n == Line(c).name
           i == sockID[c]
           u == [users[i] EXCEPT !.name = n, !.isConnected = @ /\ n \notin LongNames]
<1>1. Serve(c, "name") /\ Online(c)
  BY DEF Name, Serve, Ready
<1>2. n \in Names \cup LongNames
  BY <1>1, ServedLine, SMTT(30) DEF LineType
<1>3. i \in Ids /\ users[i] \in Users /\ users[i].sock = c /\ users[i] # Nobody
  BY <1>1, OnlineUser
<1>4. \/ users' = users
      \/ users' = [users EXCEPT ![i] = u] /\ ~NameTaken(i, n)
  BY <1>3 DEF Name, ServingUserID, Inv, TypeOK
<1>5. CASE users' = users
  BY <1>5 DEF who, called
<1>6. CASE users' = [users EXCEPT ![i] = u] /\ ~NameTaken(i, n)
  <2>1. u \in Users /\ u.sock = c /\ u.name = n
    BY <1>2, <1>3 DEF Users
  <2>2. u # Nobody
    BY <2>1, NobodyAssumption, Zenon
  <2> HIDE DEF u, i, n
  <2>3. who' = who
    BY <1>3, <1>6, <2>1, <2>2 DEF who, Inv, TypeOK
  <2>4. called' = [called EXCEPT ![i] = n]
    BY <1>3, <1>6, <2>1, <2>2 DEF called, Inv, TypeOK
  <2>5. ASSUME NobodyHidden, NEW j \in Ids PROVE called[j] # n
    BY <1>2, <1>6, <2>5, NoNameAssumption DEF called, NameTaken, NobodyHidden
  <2>6. who[i] # Nobody
    BY <1>3, NobodyAssumption DEF who, Users
  <2>7. PICK a \in Ids, b \in Names \cup LongNames : a = i /\ b = n
    BY <1>2, <1>3
  <2>8. ASSUME NobodyHidden PROVE Directory!Rename(a, b)
    BY <2>3, <2>4, <2>5, <2>6, <2>7, <2>8 DEF Directory!Rename, Directory!Ids, Ids, who, called
  <2> QED
    BY <2>3, <2>8
<1> QED
  BY <1>4, <1>5, <1>6

\* exit is a logout.
LEMMA ExitIsLogout ==
    ASSUME Inv, NEW c \in Clients, Exit(c)
    PROVE  \E i \in Ids : Directory!Logout(i)
<1> DEFINE i == sockID[c]
<1>1. Online(c) /\ users' = [users EXCEPT ![i] = Nobody]
  BY DEF Exit, Serve, Ready
<1>2. i \in Ids /\ users[i] \in Users /\ users[i] # Nobody
  BY <1>1, OnlineUser
<1> HIDE DEF i
<1>3. who[i] # Nobody
  BY <1>2, NobodyAssumption DEF who, Users
<1>4. who' = [who EXCEPT ![i] = Nobody] /\ called' = [called EXCEPT ![i] = NoName]
  BY <1>1, <1>2 DEF who, called, Inv, TypeOK
<1>5. PICK a \in Ids : a = i
  BY <1>2
<1>6. Directory!Logout(a)
  BY <1>3, <1>4, <1>5 DEF Directory!Logout, who, called
<1> QED
  BY <1>6

\* The user table implements the directory of users, whatever the clients do and
\* whoever runs their lines: ids are always the smallest free ones and belong to
\* one client, and no two users share a name as long as the name of none fills
\* its array (chatServer.cpp:138-203, 271-295).
THEOREM DirectoryImplemented == Spec => ImplementsDirectory
<1> DEFINE Hidden == ~NobodyHidden /\ UNCHANGED who
<1>1. Init => Directory!Init
  BY DEF Init, Directory!Init, Directory!Ids, Ids, who, called
<1>2. Inv /\ [Next]_vars => [Directory!Next \/ Hidden]_<<who, called>>
  <2> SUFFICES ASSUME Inv, [Next]_vars
               PROVE  Directory!Next \/ Hidden \/ UNCHANGED <<who, called>>
    OBVIOUS
  <2>1. ASSUME NEW c \in Clients, AddUser(c) PROVE Directory!Next
    BY <2>1, AddUserIsLogin DEF Directory!Next
  <2>2. ASSUME NEW c \in Clients, Name(c) PROVE Directory!Next \/ Hidden \/ UNCHANGED <<who, called>>
    BY <2>2, NameIsRename DEF Directory!Next, Directory!Ids, Ids
  <2>3. ASSUME NEW c \in Clients, Exit(c) PROVE Directory!Next
    BY <2>3, ExitIsLogout DEF Directory!Next, Directory!Ids, Ids
  <2>4. ASSUME UNCHANGED users PROVE UNCHANGED <<who, called>>
    BY <2>4 DEF who, called
  <2>5. ASSUME NEW c \in Clients,
               \/ SetEnv(c) \/ Tell(c) \/ RunLine(c) \/ ServeNoLine(c) \/ Disconnect(c)
               \/ Cat(c) \/ CatReads(c) \/ CatEnds(c)
               \/ \E l \in Lines[c] : Send(c, l)
        PROVE  UNCHANGED users
    BY <2>5 DEF SetEnv, Tell, RunLine, ServeNoLine, Disconnect, Cat, CatReads, CatEnds, Send, chat
  <2>6. CASE UNCHANGED vars
    BY <2>4, <2>6 DEF vars, chat
  <2> QED
    BY <2>1, <2>2, <2>3, <2>4, <2>5, <2>6 DEF Next, Served
<1> QED
  BY <1>1, <1>2, InvHolds, PTL DEF Spec, ImplementsDirectory

=============================================================================
