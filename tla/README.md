# Verification of the NYCU network programming projects

TLA+ models of the four C++ programs of this repository, the TLC runs that
check them and the theorems that TLAPS proves about them. `PROJECT.json` lists
the components, runs, mutants, findings, hazards and theorems, and maps every
definition to the source lines it models. In this text P1 to P4 are the
directories `src/312552017_np_project1` to `...project4`.

To check a run: `tlc -config X.cfg M`. To check the proofs of a component:
`tlapm NpShellProofs.tla`, and the same for `ChatSingleProofs`,
`ChatMultiProofs`, `HttpServerProofs`, `CgiServerProofs`, `WebConsoleProofs`,
`Socks4Proofs` and the lemmas they share, `ProofFacts`.

## 1. The system

| Part | State | Operations | What is hard |
|---|---|---|---|
| **NPShell** (P1 `shell/`, `npshell.cpp`) | descriptor table, ring of 1024 numbered pipes, `currPipe`, `prevPipe`, `eol`, the last two pids, children | read a line, create pipes, fork, wait, synchronise a numbered line, prompt, SIGINT | descriptor numbers that outlive what they name; children in any order; waiting for a process that waits for the shell; descriptors and pids at their limit |
| **Parser** (P1, P2 `cmdHandler.cpp` `parseCommand`) | words of the current command, current command line, result queue | one step per token | several numbered pipes on a line; containers, and in P2 user ids, reused after `std::move` |
| **Command programs** (P1, P2 `commands/`) | none | copy or produce text | none: they are the environment of the shell |
| **np_simple** (P2) | none shared | accept, fork one shell per client | none beyond NPShell |
| **np_single_proc** (P2 `np_single_proc.cpp`, `server/`) | socket and user tables, user pipes, private environments, buffer of `std::cin` | accept, serve one line of one client, name, setenv, tell, yell, pipe, exit | ids used again; one input buffer and one end-of-file state for all clients; pipes of users who left |
| **np_multi_proc** (P2 `np_multi_proc.cpp`, `server/`) | user table in shared memory, one message buffer per user, FIFOs | the same, with one process per client and SIGUSR1 | no lock anywhere; signals between any two accesses; a FIFO without a writer |
| **http_server, cgi_session** (P3) | sockets, request, environment of the CGI program | accept, read, fork, send the status line, exec, wait | the child inherits the event loop with what is ready in it; the parent waits for the child; exceptions of a connection that was reset |
| **console.cgi, cgi_application** (P3, P4) | one session per shell server, file of commands, receive buffer | connect (through SOCKS in P4), read until a prompt, send the next command, print | the prompt `% ` inside output; buffers that outlive callbacks; a failed proxy reply |
| **cgi_server** (P3, Windows) | the two above in one process; one browser connection shared by its sessions | as above | lifetime of buffers passed to `async_write`; a buffer without its terminating zero; any `%` taken for a prompt; a request cut by the network |
| **cgi_util** (P3, P4) | none | query parsing, columns and sessions of the console, HTML escaping | order of the replacements; an entry taken for another; escapes inside a JavaScript string inside HTML |
| **socks_server** (P4) | listener, one process per client with two sockets | accept, fork, read request, connect or bind, reply, relay | partial requests and writes; half-close; one thread for two directions; failures between reply and relay |
| **Firewall** (P4 `socks4_util.cpp`) | `socks.conf` | rule to regular expression, match | order of the two replacement passes |

Interaction: the chat servers run the shell of P1 (extended by user pipes) for
every client; the web console is a client of those servers, in P4 through the
SOCKS server; the HTTP server starts the console. Inside P1 and np_multi_proc
the parts are processes that share pipes, FIFOs, shared memory and signals;
inside np_single_proc a single thread and a `select` loop; in P3 and P4 Asio
callbacks on one thread per process.

What makes each part correct:

* NPShell: each command reads and writes what the line says, also N lines
  later; the shell keeps nothing open that keeps others waiting, reaps its
  children, prompts after the output, and finishes every line.
* Parser: the commands and command lines are those of the text, in order.
* Chat servers: an id is the smallest free one and belongs to one client; names
  are unique; messages, pipes and environments go to and come from the right
  user, also after ids have changed hands; nothing is left for ever.
* SOCKS: only permitted connections; replies tell the truth; bytes and ends of
  file pass in order; every request is answered; the relay does not stop.
* Consoles: commands go to the server in order, one per prompt; every session
  has a column of its own, in which output and commands stand in order; what
  the shell prints is what the browser shows.
* HTTP server: a client gets the answer to its own request, and every request
  ends; nothing a client does ends the server.

## 2. Modules and how they correspond to the code

| Module | Models | Depends on |
|---|---|---|
| `NpShell` | `CmdHandler::runShell` of P1 with its pipes, ring and children | - |
| `CmdParser` | `parseCommand` of P1 and P2, with a reference definition | - |
| `CgiUtil` | query parsing, columns and sessions, escaping; what a browser makes of it | - |
| `MCNpShell` | instances of `NpShell`; input lines are token sequences that go through `CmdParser` | both |
| `MCText` | all command lines, queries and texts up to a length; all rules of four fields | `CmdParser`, `CgiUtil`, `Firewall` |
| `RwgDirectory` | abstract: ids and names of who is online | - |
| `ChatSingle`, `MCChatSingle` | np_single_proc, shown to implement `RwgDirectory` | `RwgDirectory` |
| `ChatMulti`, `MCChatMulti` | np_multi_proc | - |
| `Firewall` | rule conversion and matching, with a reference definition | - |
| `Socks4`, `MCSocks4` | socks_server | `Firewall` |
| `WebConsole`, `MCWebConsole` | `console.cgi` of P3 and P4 | - |
| `HttpServer`, `MCHttpServer` | `http_server` and `CGI::Session` of P3 | - |
| `CgiServer`, `MCCgiServer` | the Windows `cgi_server` of P3 | - |
| `ProofFacts` | lemmas about sets of numbers and sequences | TLAPS |
| `NpShellProofs`, `ChatSingleProofs`, `ChatMultiProofs`, `HttpServerProofs`, `CgiServerProofs`, `WebConsoleProofs`, `Socks4Proofs` | theorems about the module of that name | that module, `ProofFacts` |

**NpShell.** `fdt` is the shell's descriptor table: it maps numbers to open
objects, because the code stores numbers and a number can mean something else
later. `buffer` and `head` are the circular buffer, `currPipe`, `prevPipe`,
`eol` and `pipelineProcessor` the members of the same names. `pc` names the
place in `runShell`: every system call that can block or that another process
can observe ends a step. `RunCommand` is one turn of the loop up to `fork()`;
the child's standard descriptors are computed from the table the shell has at
that moment (`Child`), the rest of its copies close at `Exec` (O_CLOEXEC).
Programs are external and of three kinds, by what they do to their pipes. A
child whose `execvp` fails writes "Unknown command" to its standard error
(`Failed`), which is the terminal or, behind `!N`, the numbered pipe; until it
has, it `Complains`.
`Interrupt` is SIGINT without SA_RESTART: it cuts the blocking call short.
`PipeFails` is EMFILE.

**CmdParser.** `OnToken` is the body of the token loop, folded over the line.
Splitting text into words is iostream's. The reference (`Segments`) cuts the
line at its connectors. P2's parser is P1's with three more kinds of token, so
one fold serves both: `<n` and `>n` set the ids of the current line, and a chat
command takes the rest of the line as its text.

**CgiUtil.** A query is a sequence of fields, a text a sequence of characters;
the name of an HTML entity is one item behind its `&`. `Console3`, `Console4`
and `ConsoleW` say which columns the page has and which session writes where.
`Shows` is the browser: it reads the JavaScript string and then the HTML.

**ChatSingle.** `sockID`, `users`, `userPipes`, `env` are the tables of the same
purpose, `PATH` the variable of the server process that programs inherit; `net`
and `cin` are what is in a socket and what `std::cin` has read ahead. `Serve` is
one turn of the select loop for a ready socket: switch `PATH` to that of the
socket's user, take a line, run it as that user, send the prompt. The line may
be one that another client left in `cin` (`By`). A `cat` that reads the client's
socket keeps the only thread `busy` until that client closes its connection
(`Cat`, `CatReads`, `CatEnds`). `Disconnect` is a client that closes its
connection without `exit`; `ServeNoLine` is the turn in which `getline` fails
for it, and from then on for everyone (`eof`). Whatever sends to the socket of
such a client may raise SIGPIPE and end the server (`SendTo`): a prompt, a
message, a broadcast of any other user. `Name` with a name of 20 characters
overwrites `isConnected`, or ends the server where the library checks bounds.
The variables after `sent` are history, used by properties only: `ahead` says
that some client did not wait for its prompt, `mixed` who ran a line of another
or had one run, `path` the PATH that a client typed. Numbered pipes of a user
work as in `NpShell` and are not repeated.

**ChatMulti.** Each access of a process to the shared table that another
process can interfere with is a step: the test and the assignment of
`isConnected`, the pid, `snprintf` into a buffer, `kill`, the handler's show
and clear, the two halves of `removeUser`. A pending signal is handled before
the process goes on. `kill` with a pid of 0 reaches the whole process group,
and the listener dies of it, as it has no slot. Commands of two clients do not
overlap (project specification 5.7). `Overlap` says whether logins and logouts
may overlap with one another. A client may close its connection without `exit`
(`HangUp`): `getline` then fails for ever, its process writes prompts and
messages until SIGPIPE kills it (`DiesOfSigpipe`, also in the handler), and as
`removeUser` is not reached, its slot stays connected and its FIFOs stay, without
a writer (`"dead"`). A reader that drains such a FIFO does not come back
(`"stuck"`).

**Socks4.** The four byte streams of a session are bounded queues; `dir` and
`writing` are the two callback chains and the `write_some` that the process's
one thread is in. `HandleRead` covers `handleRead`, `resolveEndpoint`,
`handleCommand` and the start of `connect` and `bind`. An exception ends the
process (`Over(c, "dead")`); a handler that is destroyed leaves the process
behind (`"idle"`). A request that arrives in two segments is read as an
arbitrary header, because the rest of the buffer is uninitialised. A unit in a
stream stands for what one `write_some` took; what it did not take is lost in
the code and not represented. Both ends may shut down one direction or close
their socket completely (`gone`, `rgone`): a reply or a `write_some` to an end
that has closed either succeeds, and the data is lost, or throws and ends the
process with both directions of the relay.

**WebConsole.** A server's output is a stream of three tokens, a line, `%` and
a space, because the code looks for a newline or for the two characters of the
prompt; a read may end after any token. `Receive` is one read and, when the
delimiter is there, the callback: show all that was read, then read again, or
send the next line of the file, or shut down. `Run` is P3's asynchronous
connect; `ConnectProxy` is P4's, blocking, one session after the other before
`io_context.run()`, whose uncaught exceptions end the console. The servers are
external: they greet, prompt, execute what they get and close after `exit`
(the last line of a file, if it is there). `produced`, `prompts`, `fake` and
`torn` are history.

**HttpServer.** Processes are numbered; each has a state (`st`), the queue of
its `io_context`, and its copy of every session. `RunPoll` is the turn of epoll;
the other `Run...` actions are one callback each. Asio tries an operation when
it is asked for and puts the callback into the queue, or registers it with
epoll: `StartSession` and `ChildStarts` follow that. `ForkCGI` copies queue and
sessions to a new process, which is why the child can accept and read until its
`RunWrite` executes the program. A process keeps its copies of the sockets, and
a connection ends (`Ended`) when no process has it. Two variables are history:
`raced` has the connections that a fork found in the queue, and those that the
event loop of a child has accepted or read; `crowded` has those whose child
found callbacks about others in the queue it was forked with.

**CgiServer.** One browser connection with its `Session` (`phase`) and its
`NPShellApp`s (`app`). A token of a shell server's output names the command
that produced it, so that the order of a column can be stated. `DoRead` is one
`async_read_some` and its callback; `CommandWritten` the callback of the write.
`Writes` counts what the browser has not received; a write beyond `Room` reads
freed memory (`garbled`). A read that fills the buffer leaves no terminating
zero, so the text that is shown and searched for the prompt goes on into the
heap: nothing, some bytes (`"heap"`), or bytes with a per cent sign (`"heap%"`,
`OverRead`). A browser that has left is noticed only when a write fails: the
header or the page may still be taken by the socket, and then the sessions
start. A query that `parseQueryString` cannot handle ends the server in the
callback of the header.

## 3. Runs

| Run | Result | Question |
|---|---|---|
| `NpShellPipes` | pass | all interleavings of shell and children, three lines from seven kinds |
| `Text` | pass | parser, console queries, escapes and firewall rules against their references |
| `NpShellLarge` | violation of `EveryLineCompletes` | a numbered pipe whose output does not fit |
| `NpShellRing` | violation of `NumberedPipeAlways` | the ring wraps around |
| `ChatSingle` | pass | three clients with type-ahead, long names, a `cat` and disconnection; refinement of `RwgDirectory` |
| `ChatSingleLeftSender` | violation of `PipesComeFromSender` | a pipe whose sender left |
| `ChatMulti` | pass | three processes, logins one at a time, a client that hangs up |
| `ChatMultiOverlap` | violation of `SlotsDistinct` | two logins at once |
| `Socks4` | pass | two clients, all kinds of requests, four units of data |
| `WebConsole` | pass | two sessions, direct and proxied, the stream cut anywhere |
| `HttpServer` | pass | three clients, all kinds of CGI programs, closes, resets and failing forks |
| `CgiServer` | pass | two sessions that share a browser connection |

### Bounds

* `NpShell`: ring of 8 slots, 12 descriptors (9 besides the standard ones), pipe capacity of one
  unit, three typed lines. Three lines are enough for a numbered pipe to cross
  a line and for two writers to share one; a capacity of one makes writers
  block; 12 descriptors let `pipe2` fail in the third line. The lines include a
  three-stage pipeline, `>`, `|1`, `!2`, a line that is split, a filter whose
  reader fails to execute, a writer whose reader exits early, and `exit`. Three
  typed lines are at most six command lines, so that with 8 slots all that is due
  is within the first turn of the ring (`BeforeWrap`).
  `NpShellRing` needs four to six lines to go around a ring of three.
* `Text`: five tokens hold two connectors with words around them, or three in
  a row, with user pipes before and behind a numbered pipe. A query has two
  servers, each field empty or not, with and without the SOCKS fields. Four
  characters hold an entity's beginning and anything around it; the characters
  are one of each kind that the code treats differently. The rules
  (`RulesAreMeant`) are those of four fields, each a number or `*`, against
  every address of two numbers.
* `ChatSingle`: three clients and three ids let an id change hands while two
  others look on. The clients differ in what they may send, so that between
  them all commands occur: one pipes, takes an ordinary or a long name and
  leaves; one reads, answers, sets its PATH, takes the same ordinary name and
  leaves; one reads, sets another PATH, yells, runs a `cat` and may disconnect.
  Three lines in all, two of one client at once.
  `ChatSingleLeftSender` needs four for pipe, exit, login and read.
* `ChatMulti`: three processes, three commands, one client that hangs up
  (`MaxHangups`); clients are symmetric.
* `Socks4`: capacity 1 and four units is the least with which the relay and an
  echoing destination can block each other. One process at a time before
  `fork()` fails; sessions share nothing else, so the second client only needs
  to meet the listener and the limit.
* `WebConsole`: two commands per file; one session's output may look like a
  prompt and its file ends without `exit`, the other's file ends with it. Two
  sessions are the least with which one can take the other down (P4).

* `HttpServer`: three clients and three processes, so that a fork can find an
  accepted connection and a read in the queue, and a child can fork. In one
  assignment two clients ask for programs that end and one for a program that
  is not there, in the other one cannot be executed and one never ends.
* `CgiServer`: a buffer of two tokens, so that a read can fill it, and room for
  three writes. Files with a line that mentions exit, with `exit` and without
  any line.

`CHECK_DEADLOCK FALSE` is set in the runs of the servers, of the consoles and of
`Text`, where the bounded supply of commands, data or connections ends, and in
`NpShellLarge`, which is about a shell that hangs. `NpShellPipes` checks deadlock.

### Fairness

`NpShell`: weak fairness of the shell's steps and of the children's steps: the
kernel runs a process that can run. No fairness for the user. A program that
never ends is not among the programs of a run. `Socks4`: weak fairness of the
listener, of each child process and of the two ends' reading and echoing;
`connect()` ends because TCP gives up. None for what a client sends, when it
closes, or whether a peer connects to a BIND port. `WebConsole`: weak fairness
of each session's callbacks (the event loop runs what is ready) and of each
server; the SOCKS server answers or closes, which `Socks4` shows. `ChatSingle`:
weak fairness of serving each client, because every pass of the select loop
visits all sockets that are ready, and of a running `cat`; none for what
clients do. `HttpServer`: weak
fairness of each process, which is scheduled; programs end, except the kind
that never does. `CgiServer`: weak fairness of the callbacks, of the shell
servers and of the network.

### What the passing runs show

* `HeldOnlyForLater`, `PipelineWiring`, `NumberedPipeDelivery`: the close and
  reuse of descriptors across `fork()` joins exactly the commands the line
  joins, and the shell holds on to a pipe only for a line that is to come.
  These, and the other properties stated with `BeforeWrap`, are about the
  first turn of the ring: neither the command lines that ran nor the ones a
  numbered pipe is due at are more than its slots (1024 in the program).
* `NoSelfWait`, `EveryLineCompletes`: the shell never waits for a reader whose
  end of file it prevents, and finishes each line, as long as output fits.
* `UnreapedBound`, `PromptAfterOutput`, `NumberedLineSynced`,
  `BrokenPipeNeedsReader`: no zombies pile up, the prompt comes after all output
  and after the reports of unknown commands, except that of the command in front
  of the last of a pipeline, `readEOF` synchronises a numbered line, and the
  shell does not cause SIGPIPE.
* `ParsesAsWritten`, `UsersOfOwnLine`: the parsed commands are those of the
  text, cut at the numbered pipes; user pipes belong to the line that names
  them, up to the first one of an input line.
* `TablesAgree`, `PipesReachReceiver`: ids and user pipes of np_single_proc stay
  with their users through logins, exits and type-ahead.
* `LinesRunAsTyped`: as long as every client waits for its prompt before it
  types on, no line is left in the buffer of `std::cin` and every line runs as
  the user that typed it. `OwnPath`: the programs of a user run with the PATH
  that it typed last, except for users whose lines got mixed up (`mixed`).
* `EverySocketServed`: a socket with lines does not stay unread, until the first
  end of file, the death of the server, or a `cat` that never ends.
* `ImplementsDirectory`: ids are the smallest free ones and names are unique. A
  name that is set while that of some user fills its array (`NobodyHidden` is
  false) is the one step that may leave the directory, and it leaves the ids as
  they are.
* `SlotsDistinct`, `NoStrandedMessage`, `ShownToAddressee`, `FifosOfUsers`,
  `DrainEnds`, `KillsItselfOnlyDuringLogin`: the same for np_multi_proc under
  every placement of signals, if logins do not overlap; the window between
  `isConnected` and `pid` is the only one in which a message takes the server
  down. What a process that died of SIGPIPE leaves behind is excepted: its unread
  messages, and the FIFOs that nobody writes any more.
* `FirewallObeyed`, `RepliesTell`, `RelayedInOrder`,
  `EveryRequestAnswered`, `DataArrives`: a connection is made only if permitted;
  "granted" is told as often as it is owed, once per CONNECT and twice per BIND,
  and is told in full when the connection exists; data arrives in order or was
  dropped by a socket that its owner closed. `DataArrives` names the deadlock of
  the relay, `Crossed`, which the model reaches.
* `NothingLost`, `OneCommandPerPrompt`, `EverySessionEnds`: however the stream
  is cut, the console shows all of it and answers each prompt once; a session
  ends unless a read ended between the two characters of a prompt (`torn`).
* `SessionsHaveColumns`, `EscapedTextShows`: every filled-in server has a
  session and a column with its name in all three consoles; text survives both
  escapes, apart from the characters the property names.
* `RightAnswer`: a client gets the answer to its own request. The exceptions
  are named: a connection that a fork caught in the queue or a child took
  (`raced`); a program that is missing or cannot be executed, and a refused fork;
  a client whose child found others in its queue (`crowded`), one of which has
  reset its connection, so that the child ends before its program starts.
* `OnlyResetsStop`, `EveryRequestEnds`: what a child or a program does never ends
  the server, and a request waits for ever only in the cases of `Blocked`.
* `ColumnsReadLikeTerminals`, `EverySessionEnds` of `CgiServer`: sharing the
  connection does not disturb the order within a column, and bytes of the heap
  are shown only right behind a read that filled the buffer; the exceptions are
  per session and named (`fake`, `garbled`).

`TypeOK` is stated in every module with state; the runs of `NpShell` and
`ChatSingle` check it.

### Disagreements found

The four violation runs are in `findings`. Seen while modelling, without a run
of their own:

* Every ordinary command line leaks the two descriptors of `eol` (P1
  `cmdHandler.cpp:26`; only `readEOF` closes them), so a shell ends after some
  500 lines when `pipe2` fails (`PipeFails`); 3.1.3 names only `exit` and EOF.
* The console hangs when a read ends right after the `%` of a prompt that
  follows a newline: `clear()` drops it (P3 `cgi_application.cpp:42`).
* A session of P4's console that gets no SOCKS reply ends all sessions.
* A line with built-ins only does not advance the ring, although the
  specification of P1 counts it (3.5.6): `parseCommand` returns an empty queue.
* At end of file on standard input the shell prompts for ever
  (`npshell.cpp`; `GetLineEof`), the specification wants it to end (3.1.3).
* A pipeline of four large stages can wait for its oldest stage before a later
  one exists, like `NpShellLarge`.
* After `nosuch | ls` the shell waits for the last child only and may prompt
  before the first has reported "Unknown command" (P1 `cmdHandler.cpp:78`; 3.4.3
  shows the message in front of the prompt): the exception of
  `PromptAfterOutput`.
* np_single_proc gives a new user the PATH the former owner of the id had set
  (`env_table` is not reset); the specification has `bin:.` set for every new
  client (P2, 4.6.1). `OwnPath` takes this PATH for the user's own.
* A name of exactly 20 characters overwrites `isConnected` (P2
  `chatServer.cpp:292`), so the check of names skips its user and a second one
  may take the same name, under which `who` lists and `tell` signs both:
  `ImplementsDirectory` without its `NobodyHidden` fails.
* `getline` on `std::cin` leaves a second line of the same segment in a buffer
  that all clients of np_single_proc share; it runs as the next user served (P2
  `cmdHandler.cpp:22`), is signed with that user's name and changes that user's
  PATH; an `exit` among such lines closes the wrong connection.
  `LinesRunAsTyped` without its `~ahead` fails.
* A client of np_multi_proc that closes its connection without `exit` keeps its
  slot, and its FIFOs stay; specification 5.9 has them closed. Who reads one
  that the dead process had written does not come back from `readFIFO`
  (`np_multi_proc.cpp:88`, `chatServer.cpp:382`): the exception of `DrainEnds`.
* After a client of np_single_proc has closed its connection without `exit`,
  `getline` fails for every client; the server prompts in a busy loop or ends by
  SIGPIPE (`ServeNoLine`).
* `cat <2 |1 ls` in P2: the moved `NpCommandLine` keeps its ids, so `ls` is
  taken to read from user 2 as well (`cmdHandler.cpp:184`).
* A child of `http_server` can accept a connection, or read a request, that its
  program then never answers: its parent has the descriptor too, so the client
  waits (P3 `cgi_session.cpp:98`; `raced`). If it finds the read of a connection
  that has been reset, it ends by an exception before its own program runs, and
  the client it was forked for gets a status line and nothing else.
* A client that resets its connection ends `http_server` (`saveParms` throws,
  `cgi_session.cpp:75`), or leaves it waiting for a child that could not write
  the status line (`:110`).
* `console.cgi` of P4 takes the last shell server for the SOCKS server when the
  form has no SOCKS fields (`console.cpp:15`).
* A backslash at the end of a line breaks the script that `cgi_html_escape`
  writes; `printEscape` writes negative character codes for bytes that are not
  ASCII (P3 `cgi_util.cpp:106, 139`).
* `cgi_server` shows the heap behind a buffer that a read has filled
  (`cgi_server.cpp:55`).
* `cgi_server` writes from strings that no longer exist (`cgi_server.cpp:81`),
  takes any `%` for a prompt (`:63`), and reads one segment as the whole request
  (`:123`, `:147`).
* One buffer per user of np_multi_proc: of two messages that come before the
  handler runs, the first is lost (`chatServer.cpp:42`). `write_some` of the
  SOCKS relay may take fewer bytes than were read (`socks4_handler.cpp:122`).

## 4. Proofs

Every theorem holds for all values of the constants that satisfy the named
assumptions of the component's module (sets of clients and lines of any size,
any limits and capacities). Each `...Proofs` module has the same layout: facts
about the helper operators, the inductive invariant, one lemma for each action,
the theorem that a step preserves the invariant, and at the end the theorems
about the properties that the runs check. TLC checked each inductive invariant
on the instance of the component's run before it was proved.

**NpShellProofs.**

* `TypeCorrect`: `Spec => []TypeOK`. `TypeOK` alone is not inductive: that
  `Head(queue)[pos]` is a command needs the position invariants
  (`Positions`): while a line runs, `queue` is not empty and `pos` is within
  it. `TypeInv` is the conjunction. Lemmas give the types of the descriptor
  helpers, of a new child, of `CreatePipe` and of `waitpid`; `TypeNext` has one
  step per action.
* `ZombiesAreBounded`: `Spec => []UnreapedBound`. Inductive relative to
  `TypeInv`: the wait reaps the first of the two remembered pids before it is
  shifted out (`WaitpidReaps`), a step of a child never changes who is reaped
  (`ChildStepUnreaped`), all else leaves both alone (`UnreapedStutter`).
* `PipelinesAreWired`, `NumberedPipesDeliver`, `ShellNeverWaitsForItself`,
  `PipesAreClosed`, `PromptComesLast`, `ReadEOFSyncs`, `NoEarlyBrokenPipe`: the
  seven properties about pipes. They follow from one invariant, `WiringInv`,
  under the hypothesis `ProperLines`.

`ProperLines` says that the lines are the ones the project's specification
describes: commands are joined by `|`; a file, a numbered pipe or nothing comes
last; the N of a numbered pipe is positive; `exit` has a line to itself. The
code accepts others (`atoi` makes a number of anything, and `exit` among other
commands closes `currPipe`, which can be the pipe of a line to come), and the
properties do not hold for them. `MCNpShell` has TLC evaluate that the lines of
every run are of this kind.

`WiringInv` says, for every place of `runShell`, what the numbers it has stored
stand for; none of the properties is inductive without that, because the code
closes and reuses numbers:

* `KidEnds`, `KidOrder`, `Pids`: what the standard descriptors of a child can be
  after its connector, that a place in a line has one child, which children
  `pipelineProcessor` names. These hold also when the shell is over.
* `Table`: an end of a pipe is open under at most one number. `HeldFile`,
  `HeldOut`, `HeldIn`: what a descriptor that is open on an end of a child's
  pipe is stored in, `prevPipe`, `currPipe` or a slot of a line to come.
* `Prev`, `Curr`, `Ring`, `Eol`: `prevPipe` is the pipe the child forked last
  reads, `currPipe` the one it writes to or the one the line begins with; the
  slot of each line to come holds both ends of the pipe that exactly the
  children due there write to (`Feeds`), or is empty if there are none; a fork
  in the middle of a line keeps a pipe between `Piped` (one writer, no reader)
  and the reader. `NumberedPipeDelivery` and `PipelineWiring` become true at the
  fork of the reader from what `Curr` says just before.
* `Progress`: how far the line is and which command was forked last.
* `Drained`, `Readable`, `Synced`: the children that write to the terminal are
  reaped before the line is over; a pipe with a live writer has had a reader or
  is readable by the shell; the children of a numbered line have executed.

`PromptComesLast` needs a second invariant, `Reported`: the only child of a
numbered pipe that has not called `execvp` yet is the one just forked, and the
last child of every other line is reaped before the prompt. With
`ZombiesAreBounded` that leaves one child that can still report an unknown
command, the last but one.

The steps fall into two kinds. Most fork nobody and only move children forward
(`Calm`): what is said of who is on which pipe is then unchanged. A fork
(`ForkStep`) names the writers of the pipe the child reads, and the lemmas
`Fork...` say what it does to each part. `BeforeWrap` is used where two lines
to come must have different slots (`RingSlots`).

**ChatSingleProofs** (`TypeCorrect`, `TablesAlwaysAgree`,
`PipesAlwaysReachReceiver`, `PathsStayApart`, `LinesStayApart`,
`DirectoryImplemented`). The invariant adds to the checked ones that every
table entry is of a client the server knows (`Known`), that what is in a socket
was sent by its client (`SentByOwner`), that `env` has the PATH its user typed
unless lines got mixed up (`OwnEnv`), and that a client that waits for its
prompt has at most one line on the way (`Waiting`), without which a second line
could be left in `std::cin`. `PathsStayApart` is an action property: it follows
from the invariant in the state before the step. `DirectoryImplemented` is the
refinement of `RwgDirectory`: each action maps to a step of the directory or
leaves it alone, but for a name that is set while a user is hidden from the
check. The step for a login shows that the code's search for the first free
entry finds the smallest free id, and that one exists, because there are no
more clients than ids (`ClientsAssumption`).

**ChatMultiProofs** (`TypeCorrect`, `SlotsAreOwned`, `NoMessageIsStranded`,
`FifosAreOfUsers`, `DrainsEnd`, `MessagesReachAddressee`,
`ServerFallsOnlyDuringLogin`). The hypothesis of all of them is `~Overlap`:
logins and logouts do not overlap with one another. It cannot be dropped; the
run `ChatMultiOverlap` is the counterexample. The invariant has six parts: the
types, what a process has in its local variables at each place (`Shape`), that
at most one process is in `addUser` or `removeUser` and at most one runs a
command (`Exclusive`), which slot belongs to whom, also halfway through a login
or logout (`Table`), for every buffer that is filled a signal that is pending,
being handled or about to be sent (`Mail`), and for every FIFO its two ends
(`Fifos`). A process that died of SIGPIPE keeps its part of the table, and
`NoMessageIsStranded` and `DrainsEnd` except what is addressed to it or was to
come from it. The signal handler runs between any two steps, so every part is
stated for processes that are anywhere in their commands.

**HttpServerProofs** (`TypeCorrect`, `ServerSurvives`, `AnswersAreRight`). That the server stays up
is not inductive: it depends on what is in the queue of its event loop. The
invariant says that the turn of epoll is in the queue of every process that
runs its loop (`Polls`), that a process that waits or was forked serves a
client (`Serves`), and that the queue of the first process holds no callback of
a reply, which only children have (`MainServes`).

`AnswersAreRight`: its invariant `AnswerInv`
has four parts. The processes are a stack: each waits for the one above it, and
only the top one runs (`Chain`). Nothing is done about a connection before it
is accepted (`Opened`), and it is in the backlog once (`Waiting`). `Life`
follows a connection from there: at each state of the server's session it says
which callback about it is in the server's queue, and there is at most one
(`AtServer`); while the server waits, what its child is doing about it
(`InChild`); all other processes hold at most a read (`Elsewhere`). The queue a
child was forked with holds only callbacks about clients in `raced`, and none if
the client it serves is not `crowded` (`Around`); its status line is written
once, behind them (`OneWrite`), unless one of them throws because its client has
reset the connection, which is the exception the property names. A child that
goes on as a server of its own serves a client that has reset its connection.
Callbacks have to be counted because `fork()` copies them: a connection that is
not caught has none in the copy. Steps are proved by what they do about one
connection: `LifeApart` for a step that leaves the server alone, `LifeAtServer`
for one of the server, `LifeEnds` for a process that ends.

**CgiServerProofs** (`TypeCorrect`, `ColumnsAreTerminals`). Per session, as long
as every per cent sign was a prompt: what is on the way is output of the command
executed last and its prompt can only be the last token (`InTurn`), so a read
with a prompt takes all of it and one command is under way at a time; what is
shown has ascending ranks up to the last command sent (`InOrder`); and why a
session is closed (`Closing`). Bytes of the heap are shown only behind a full
buffer (`OverRead`). How often the browser's connection is written to
by other sessions does not matter: each column is appended to by its own.

**WebConsoleProofs** (`TypeCorrect`, `NothingIsLost`, `OneCommandAPrompt`). The
invariant counts per session: a server has prompted once for its greeting and
once for each command it took, except `exit`; what was sent and what is still
to be answered are at most the prompts and the outputs that look like one;
shown, buffered and on the way add up to what was produced. Prompts
are counted by the set of their positions; putting two texts together adds at
most the prompt where they meet (`PromptsConcat`), and what is still to be read
ends with a prompt or is the second half of one (`Ending`).

**Socks4Proofs** (`TypeCorrect`, `RepliesAreTrue`, `RelayKeepsOrder`,
`FirewallIsObeyed`). `Phase` says what a session has done at each place of its
process, `Told` which replies it has sent. Order is proved on all that is on
the way in one direction, from the receiver back to the sender (`AllUp`,
`AllDown`): a move of the relay changes how it is divided, not what it is, by
associativity of concatenation, and it grows only by the next number. Replies
are added only while nothing else is on the way. End of file is passed on only
when nothing is in a `write_some` of that direction (`EofLast`).
`FirewallIsObeyed` has the hypothesis `RulesMean`: the regular expression of
each rule matches the addresses the rule covers, on the addresses of the
instance. The match is a recursive function on text, so the hypothesis is not
proved; `Text` evaluates it for the rules of four fields (`RulesAreMeant`), and
those of the repository's `socks.conf` are of that form.

Only model-checked:

* Liveness under fairness (`EveryLineCompletes`, `EverySocketServed`,
  `EveryRequestAnswered`, `DataArrives`, `EverySessionEnds`,
  `EveryRequestEnds`): beyond this prover.
* `ParsesAsWritten`, `UsersOfOwnLine`, `SessionsHaveColumns`,
  `EscapedTextShows`, `RulesAreMeant`: what folds and recursive functions
  compute from a text, which needs induction over the text.
* What happens after the ring of numbered pipes has wrapped around, beyond the
  types and the bound on zombies: the properties do not hold there
  (`NpShellRing`).

## 5. Not modelled

* npshell: a `fork()` that fails. Its -1 would be remembered as a pid, and the
  `waitpid(-1)` after it would take any child (P1 `cmdHandler.cpp:58`).
* np_simple: its children are `NpShell`; nothing is shared.
* np_multi_proc: the test for a name in use (excluded by 5.7), the contents of
  FIFOs, SIGINT. np_single_proc: user pipes that fill up, which block its only
  thread as a full numbered pipe blocks the shell (`NpShellLarge`), more than 30
  users (5.1), the part of a last line without a newline.
* socks_server: SIGINT, errors of accept, the bytes inside a unit.
* `console.cgi`: a write that takes only a part of a command, a server that
  resets the connection, the query.
* `http_server`: SIGINT, a client that closes and then resets, requests that
  arrive in pieces (`http::async_read` waits for all of one), the text of the
  environment. The Windows build of `CGI::Session` (`routeAPI`, `write`,
  `doWrite`), which no program of the repository uses.
* `cgi_server`: several browser connections, which share nothing; SIGINT.
* The panel's form (`generatePanel`), percent-encoding in queries (not decoded
  by the code either), logging, `printenv` and `who` (no state).

## 6. What is left

Every safety invariant and action property that a run checks is a theorem,
except those about texts. What could follow: `RulesMean` of `Socks4Proofs` from
the definition of the match, and the parser and the escapes, by induction over
the text; np_multi_proc with logins that overlap, once the code has a lock.
