----------------------------- MODULE ChatSingle -----------------------------
(***************************************************************************)
(* The single-process chat server of project 2, np_single_proc: the select *)
(* loop, the user table, the private PATH of every id, the user pipes and  *)
(* the input buffer of std::cin, which all the clients share.              *)
(*                                                                         *)
(* Serving a client is one step: the server runs a whole command line of   *)
(* one user before it looks at the next socket.  Only a program that reads *)
(* the socket of its user runs for longer, and keeps the server waiting.   *)
(* The programs that a line executes, its numbered pipes and their         *)
(* descriptors are the subject of NpShell; here a command line is what it  *)
(* does to the server.                                                     *)
(***************************************************************************)
EXTENDS Naturals, Sequences, FiniteSets, SequencesExt

CONSTANTS
    Clients,     \* the connections; each is opened at most once
    MaxUsers,    \* ids are 1 .. MaxUsers
    Names,       \* names shorter than MAX_USER_NAME_LEN
    LongNames,   \* names of MAX_USER_NAME_LEN characters
    NoName,      \* "(no name)"
    Nobody,      \* no user, no pipe
    Paths,       \* values of PATH
    BinPath,     \* "bin:.", the initial PATH
    Lines,       \* Lines[c]: the command lines that client c may send
    Leavers,     \* the clients that may close their connection without exit
    MaxAhead,    \* how many lines a client sends before it waits for a prompt
    MaxLines     \* bound: how many lines are sent in all

Ids == 1 .. MaxUsers

\* A command line by what it does to the server: a name change, a setenv
\* of PATH, a message (uid 0 for yell), a command that reads the user pipe
\* of `from' and writes the one to `to' (0 for none), cat, which reads what the
\* client sends until it closes its connection, or exit.
LineType ==
    [op : {"name"}, name : Names \cup LongNames] \cup [op : {"setenv"}, path : Paths]
    \cup [op : {"tell"}, uid : Ids \cup {0}] \cup [op : {"cat", "exit"}]
    \cup [op : {"run"}, from : Ids \cup {0}, to : Ids \cup {0}]

ASSUME LinesAssumption == \A c \in Clients : Lines[c] \subseteq LineType
ASSUME MaxUsersAssumption == MaxUsers \in Nat /\ MaxAhead \in Nat /\ MaxLines \in Nat
ASSUME LeaversAssumption == Leavers \subseteq Clients
ASSUME BinPathAssumption == BinPath \in Paths
ASSUME NoNameAssumption == NoName \notin Names \cup LongNames
ASSUME ClientsAssumption == IsFiniteSet(Clients) /\ Cardinality(Clients) <= MaxUsers

VARIABLES
    up,          \* the server process is alive
    sockID,      \* sockID_table: 0 before the connection and after it
    users,       \* users[i] = [sock, name, isConnected], or Nobody
    userPipes,   \* userPipes[i][j]: users[i]->userPipes[j], written by id j
    env,         \* env_table[i]["PATH"]
    PATH,        \* the PATH of the server process, which programs inherit
    net,         \* net[c] = lines of c in its socket, not read yet
    cin,         \* lines read from a socket that getline has not returned yet
    eof,         \* std::cin has met an end of file, and stays in that state
    busy,        \* the client whose cat the server waits for, or Nobody
    left,        \* clients that closed their connection without exit
    wait,        \* wait[c] = lines c sent and saw no prompt for
    sent,        \* number of lines sent so far (bounded by MaxLines)
    seen,        \* history: the clients that were ever connected
    ahead,       \* history: some client sent a line before it saw its prompt
    mixed,       \* history: the clients that ran a line of another, or had one
                 \* of theirs run by another
    path,        \* history: the last PATH a client set, at first that of its id
    flow         \* history: who wrote and who read the last user pipe

chat == <<sockID, users, userPipes>>
history == <<seen, ahead, mixed, path, flow>>
input == <<cin, eof, busy>>
vars == <<up, chat, env, PATH, net, input, left, wait, sent, history>>

Users == [sock : Clients, name : Names \cup LongNames \cup {NoName}, isConnected : BOOLEAN]
\* A user pipe by who wrote it and who was to read it.
UserPipes == [by : Clients, for : Clients]
ASSUME NobodyAssumption == Nobody \notin Clients \cup Users
Typed == [by : Clients, line : UNION {Lines[c] : c \in Clients}]      \* a line with the client that sent it

TypeOK ==
    /\ up \in BOOLEAN
    /\ sockID \in [Clients -> Ids \cup {0}]
    /\ users \in [Ids -> Users \cup {Nobody}]
    /\ userPipes \in [Ids -> [Ids -> UserPipes \cup {Nobody}]]
    /\ env \in [Ids -> Paths] /\ PATH \in Paths
    /\ net \in [Clients -> Seq(Typed)]
    /\ cin \in Seq(Typed) /\ eof \in BOOLEAN /\ busy \in Clients \cup {Nobody}
    /\ left \subseteq Leavers
    /\ wait \in [Clients -> Nat]
    /\ sent \in 0 .. MaxLines
    /\ seen \subseteq Clients /\ ahead \in BOOLEAN /\ mixed \subseteq Clients
    /\ path \in [Clients -> Paths]
    /\ flow \in [by : Clients \cup {Nobody}, from : Clients \cup {Nobody}]

\* Mutant: the pipes of a new user are not empty, though nobody wrote them.
NoPipesUnset == [j \in Ids |-> [by |-> Nobody, for |-> Nobody]]
NoPipes == [j \in Ids |-> Nobody]

Init ==
    /\ up = TRUE
    /\ sockID = [c \in Clients |-> 0]
    /\ users = [i \in Ids |-> Nobody]
    /\ userPipes = [i \in Ids |-> NoPipes]
    /\ env = [i \in Ids |-> BinPath] /\ PATH = BinPath
    /\ net = [c \in Clients |-> << >>] /\ cin = << >> /\ eof = FALSE /\ busy = Nobody
    /\ left = {} /\ wait = [c \in Clients |-> 0] /\ sent = 0
    /\ seen = {} /\ ahead = FALSE /\ mixed = {} /\ path = [c \in Clients |-> BinPath]
    /\ flow = [by |-> Nobody, from |-> Nobody]

Online(c) == sockID[c] # 0
\* The sockets of the users, to which broadcastMessage sends.
Members == {users[i].sock : i \in {j \in Ids : users[j] # Nobody}}

\* send to the sockets of S: one that the client has closed may raise SIGPIPE,
\* which ends the server.
SendTo(S) == up' \in {TRUE, S \cap left = {}}

-----------------------------------------------------------------------------
(* Connections.                                                            *)

\* Mutant: the number of users.
MinKeyCount(keys) == Cardinality(keys) + 1

\* The loop of addUser over the keys of the map, in order: minKey counts the
\* keys up to the one the loop is at, and the loop stops at the first key that
\* is larger than that.
Rank(keys, id)   == Cardinality({k \in keys : k <= id})
Passed(keys)     == {id \in keys : \A k \in keys : k <= id => ~(Rank(keys, k) < k)}
MinKey(keys)     == Cardinality(Passed(keys)) + 1

\* accept and addUser; the welcome, the login broadcast and the prompt.
AddUser(c) ==
    /\ up /\ busy = Nobody /\ c \notin seen
    /\ LET id == MinKey({i \in Ids : users[i] # Nobody})
       IN  /\ sockID' = [sockID EXCEPT ![c] = id]
           /\ users' = [users EXCEPT ![id] = [sock |-> c, name |-> NoName, isConnected |-> TRUE]]
           /\ userPipes' = [userPipes EXCEPT ![id] = NoPipes]
           /\ path' = [path EXCEPT ![c] = env[id]]
    /\ SendTo(Members)
    /\ seen' = seen \cup {c}
    /\ UNCHANGED <<env, PATH, net, input, left, wait, sent, ahead, mixed, flow>>

\* A client sends a line.
Send(c, l) ==
    /\ up /\ Online(c) /\ c \notin left /\ wait[c] < MaxAhead /\ sent < MaxLines
    /\ net' = [net EXCEPT ![c] = Append(@, [by |-> c, line |-> l])]
    /\ wait' = [wait EXCEPT ![c] = @ + 1]
    /\ sent' = sent + 1
    /\ ahead' = (ahead \/ wait[c] # 0)
    /\ UNCHANGED <<up, chat, env, PATH, input, left, seen, mixed, path, flow>>

\* A client closes its connection without exit.
Disconnect(c) ==
    /\ up /\ Online(c) /\ c \in Leavers \ left
    /\ left' = left \cup {c}
    /\ UNCHANGED <<up, chat, env, PATH, net, input, wait, sent, history>>

\* Mutant: the loop ends one descriptor early.
ReadyButLast(c) == Online(c) /\ sockID[c] < MaxUsers /\ (net[c] # << >> \/ c \in left)
\* select reports the socket: there is something to read, or the end.
Ready(c) == Online(c) /\ (net[c] # << >> \/ c \in left)

\* Mutant: standard input is the socket of the user with the largest id.
ServingUserIDLargest(c) == Max({i \in Ids : users[i] # Nobody})
BufferedLargest(c) == IF cin = << >> THEN net[users[ServingUserIDLargest(c)].sock] ELSE cin
\* What getline finds when socket c is on standard input: it reads the socket
\* only when nothing is left in the buffer of std::cin.
Buffered(c) == IF cin = << >> THEN net[c] ELSE cin
Line(c) == Head(Buffered(c)).line
By(c)   == Head(Buffered(c)).by

ServingUserID(c) == sockID[c]

\* Mutant: PATH is not switched.
PathKept(c) == PATH
PathOf(c) == env[ServingUserID(c)]

Prompt(c) == wait' = [wait EXCEPT ![c] = IF @ = 0 THEN 0 ELSE @ - 1]

\* runShellLoop for a ready socket: switch PATH and take a line.  The line runs
\* as the user of socket c, whoever sent it.
Serve(c, op) ==
    /\ up /\ busy = Nobody /\ Ready(c) /\ ~eof /\ Buffered(c) # << >>
    /\ Line(c).op = op
    /\ PATH' = IF op = "setenv" THEN Line(c).path ELSE PathOf(c)
    /\ cin' = Tail(Buffered(c))
    /\ net' = IF cin = << >> \/ op = "exit" THEN [net EXCEPT ![c] = << >>] ELSE net
    /\ mixed' = IF By(c) = c THEN mixed ELSE mixed \cup {c, By(c)}
    /\ UNCHANGED <<eof, left, sent, seen, ahead>>

\* runShellLoop without a line: getline meets the end of the connection, or
\* fails because it once has.  The user stays, and gets a prompt.
ServeNoLine(c) ==
    /\ up /\ busy = Nobody /\ Ready(c) /\ (eof \/ Buffered(c) = << >>)
    /\ PATH' = PathOf(c)
    /\ eof' = TRUE
    /\ Prompt(c) /\ SendTo({c})
    /\ UNCHANGED <<chat, env, net, cin, busy, left, sent, history>>

-----------------------------------------------------------------------------
(* The commands.                                                           *)

\* Mutant: only the user's own name is compared.
NameTakenSelf(i, n) == users[i].name = n
NameTaken(i, n) == \E j \in Ids : /\ users[j] # Nobody /\ users[j].isConnected
                                  /\ users[j].name = n

\* Name: strcpy of a name that fills the array also writes the byte behind it,
\* isConnected, unless the library aborts the process.
Name(c) ==
    /\ Serve(c, "name")
    /\ LET n == Line(c).name
           i == ServingUserID(c)
       IN  \/ NameTaken(i, n) /\ SendTo({c}) /\ UNCHANGED users
           \/ /\ ~NameTaken(i, n)
              /\ users' = [users EXCEPT ![i].name = n,
                                        ![i].isConnected = @ /\ n \notin LongNames]
              /\ SendTo(Members)
           \/ /\ ~NameTaken(i, n) /\ n \in LongNames
              /\ up' = FALSE
              /\ UNCHANGED users
    /\ Prompt(c)
    /\ UNCHANGED <<sockID, userPipes, env, busy, path, flow>>

\* setenv PATH.
SetEnv(c) ==
    /\ Serve(c, "setenv")
    /\ env' = [env EXCEPT ![ServingUserID(c)] = Line(c).path]
    /\ path' = [path EXCEPT ![By(c)] = Line(c).path]
    /\ Prompt(c) /\ SendTo({c})
    /\ UNCHANGED <<chat, busy, flow>>

\* Tell and Yell: a message to one user that exists, or to all.
Tell(c) ==
    /\ Serve(c, "tell")
    /\ LET i  == Line(c).uid
           to == IF i = 0 THEN Members ELSE {users[j].sock : j \in {k \in {i} : users[k] # Nobody}}
       IN  SendTo(to \cup {c})
    /\ Prompt(c)
    /\ UNCHANGED <<chat, env, busy, path, flow>>

\* Mutant: the pipe is filed under the sender.
AfterWriteSender(pipes, i, j, p) == [pipes EXCEPT ![j][i] = p]
\* writeUserPipe files the pipe of sender j under the receiver i.
AfterWrite(pipes, i, j, p) == [pipes EXCEPT ![i][j] = p]

\* A command that reads from user `from' and writes to user `to': first the
\* read, then the write; without the user or the pipe, /dev/null instead.
RunLine(c) ==
    /\ Serve(c, "run")
    /\ LET i    == ServingUserID(c)
           l    == Line(c)
           got  == l.from # 0 /\ users[l.from] # Nobody /\ userPipes[i][l.from] # Nobody
           mid  == IF got THEN [userPipes EXCEPT ![i][l.from] = Nobody] ELSE userPipes
           puts == l.to # 0 /\ users[l.to] # Nobody /\ mid[l.to][i] = Nobody
       IN  /\ flow' = IF got THEN [by   |-> userPipes[i][l.from].by,
                                   from |-> users[l.from].sock]
                             ELSE flow
           /\ userPipes' = IF puts
                           THEN AfterWrite(mid, l.to, i, [by |-> c, for |-> users[l.to].sock])
                           ELSE mid
           /\ SendTo(IF got \/ puts THEN Members ELSE {c})
    /\ Prompt(c)
    /\ UNCHANGED <<sockID, users, env, busy, path>>

\* A program that reads its standard input, the socket: waitpid does not return,
\* and no other socket is served, before the client closes its connection.
Cat(c) ==
    /\ Serve(c, "cat")
    /\ busy' = c
    /\ UNCHANGED <<up, chat, env, wait, path, flow>>
CatReads(c) ==
    /\ up /\ busy = c /\ net[c] # << >>
    /\ net' = [net EXCEPT ![c] = << >>]
    /\ UNCHANGED <<up, chat, env, PATH, input, left, wait, sent, history>>
CatEnds(c) ==
    /\ up /\ busy = c /\ net[c] = << >> /\ c \in left
    /\ busy' = Nobody
    /\ Prompt(c) /\ SendTo({c})
    /\ UNCHANGED <<chat, env, PATH, net, cin, eof, left, sent, history>>

\* exit: runShellLoop returns false and removeUser forgets the user, with the
\* pipes sent to it; the pipes it sent stay with their receivers.
Exit(c) ==
    /\ Serve(c, "exit")
    /\ users' = [users EXCEPT ![sockID[c]] = Nobody]
    /\ userPipes' = [userPipes EXCEPT ![sockID[c]] = NoPipes]
    /\ sockID' = [sockID EXCEPT ![c] = 0]
    /\ SendTo(Members \ {c})
    /\ UNCHANGED <<env, busy, wait, path, flow>>

Served(c) == \/ Name(c) \/ SetEnv(c) \/ Tell(c) \/ RunLine(c) \/ Cat(c) \/ Exit(c)
             \/ ServeNoLine(c)
Next == \E c \in Clients : \/ AddUser(c) \/ Served(c) \/ CatReads(c) \/ CatEnds(c) \/ Disconnect(c)
                           \/ \E l \in Lines[c] : Send(c, l)

\* A pass of the select loop serves every socket that is ready, and a program
\* that can go on does.
Spec == /\ Init /\ [][Next]_vars
        /\ \A c \in Clients : WF_vars(Served(c)) /\ WF_vars(CatReads(c) \/ CatEnds(c))

-----------------------------------------------------------------------------
(* Properties.                                                             *)

\* The socket table and the user table agree: a socket has one user, a user
\* one socket (chatServer.cpp:153-170, 184-195).
TablesAgree ==
    /\ \A c \in Clients : Online(c) =>
         users[sockID[c]] # Nobody /\ users[sockID[c]].sock = c
    /\ \A i \in Ids : users[i] # Nobody => sockID[users[i].sock] = i

\* Every user pipe is filed under the user it was written for, so nobody else
\* can read it, not even the next owner of the id (chatServer.cpp:158, 316).
PipesReachReceiver ==
    \A i, j \in Ids : userPipes[i][j] # Nobody =>
        users[i] # Nobody /\ userPipes[i][j].for = users[i].sock

\* Data received from user #n was written by the user who has id n now; all
\* the pipes of a user are closed when it leaves (specification 5.9).
PipesComeFromSender == [][flow' # flow => flow'.by = flow'.from]_vars

\* The programs of a user run with the PATH it set last, whoever else sets
\* theirs, or the one its id had when it logged in.  Users between whom lines got
\* mixed up, one running what the other typed, are excepted (chatServer.cpp:483-497).
OwnPath == [][\A c \in Clients : RunLine(c) /\ c \notin mixed' => PATH' = path[c]]_vars

\* As long as every client waits for its prompt before it sends the next line,
\* every line runs as the user that typed it, and none is left in the buffer of
\* std::cin, which they share (cmdHandler.cpp:22, chatServer.cpp:490-512).
LinesRunAsTyped == ~ahead => mixed = {} /\ cin = << >>

\* A socket with lines in it does not stay so: it is read, by the server or by
\* the cat of its user, or closed at an exit.  The exceptions: an end of file was
\* met, after which getline fails for everyone; the server is gone; it waits for
\* ever for the cat of a client (cmdHandler.cpp:22, 103, np_single_proc.cpp:67-100).
\* An exit that another client left in the buffer closes a socket with its lines
\* unread; LinesRunAsTyped says when there is no such exit.
EverySocketServed ==
    \A c \in Clients : net[c] # << >> ~> net[c] = << >> \/ eof \/ ~up \/ [](busy # Nobody)

\* The directory of users as the server's table shows it.
who    == [i \in Ids |-> IF users[i] = Nobody THEN Nobody ELSE users[i].sock]
called == [i \in Ids |-> IF users[i] = Nobody THEN NoName ELSE users[i].name]
Directory == INSTANCE RwgDirectory WITH Names <- Names \cup LongNames

\* Every user is connected as far as the table says: no name has reached the
\* byte behind its array.
NobodyHidden == \A i \in Ids : users[i] # Nobody => users[i].isConnected

\* The user table implements the directory of users: ids are the smallest free
\* ones, and names are unique (chatServer.cpp:138-203, 271-295).  While the name
\* of a user fills its array, which hides the user from the check of names, a
\* new name may be one that is in use; ids are given out as before.
ImplementsDirectory ==
    Directory!Init /\ [][Directory!Next \/ (~NobodyHidden /\ UNCHANGED who)]_<<who, called>>
=============================================================================
