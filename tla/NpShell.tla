------------------------------ MODULE NpShell ------------------------------
(***************************************************************************)
(* The NPShell of project 1: CmdHandler::runShell with the pipes, the ring *)
(* of numbered pipes and the child processes it creates.                   *)
(*                                                                         *)
(* The shell's descriptor table maps each descriptor number to the open    *)
(* object behind it, because the program stores and closes NUMBERS: what a *)
(* stored number means can change between the moment it is stored and the  *)
(* moment it is used.  A child is created with the table the shell has at  *)
(* fork(); its stdin and stdout are the objects its two dup2() calls find  *)
(* there.  Between fork() and exec() it holds everything it inherited;     *)
(* exec() closes all of it but stdin, stdout and stderr (O_CLOEXEC).       *)
(*                                                                         *)
(* The programs the children execute are external.  Three of them are      *)
(* enough to tell the shell's decisions apart: one that writes some units  *)
(* of output and exits ("src"), one that copies its input until end of     *)
(* file ("filter"), and one that does not exist ("unknown").               *)
(***************************************************************************)
EXTENDS Integers, Sequences, FiniteSets

CONSTANTS
    Size,       \* CIRCULAR_BUFFER_SIZE
    FdLimit,    \* RLIMIT_NOFILE: descriptors 0 .. FdLimit-1 exist
    Capacity,   \* units of data a pipe holds before write() blocks
    Lines,      \* the input lines, as parseCommand returns them
    MaxLines    \* bound: how many input lines are typed

Programs == [kind : {"src", "filter", "unknown"}, units : Nat]

\* An ExeCommand with the connector that follows it in its NpCommandLine.
Commands == [prog : Programs,
             conn : {"END", "PIPE", "FILE_CMD", "NUMBERED_PIPE"},
             n    : Nat,          \* m_number of a NumberedPipeCommand
             err  : BOOLEAN]      \* what pipeError() returns

\* What parseCommand makes of one input line: the queue of command lines it
\* returns, and whether it met "exit" on the way.
Inputs == [queue : Seq(Seq(Commands) \ {<< >>}), exit : BOOLEAN]

ASSUME SizeAssumption == Size \in Nat \ {0}
ASSUME FdLimitAssumption == FdLimit \in Nat
ASSUME CapacityAssumption == Capacity \in Nat \ {0}
ASSUME MaxLinesAssumption == MaxLines \in Nat
ASSUME LinesAssumption == Lines \subseteq Inputs

Fds   == 3 .. FdLimit - 1              \* 0, 1 and 2 are never closed
Pipes == [in : Fds \cup {-1}, out : Fds \cup {-1}]

\* Mutant: the write end of an empty pipe is 0, not -1.
NoPipeZero == [in |-> -1, out |-> 0]
NoPipe == [in |-> -1, out |-> -1]      \* Pipe::clear, Pipe::empty

Objects == [end : {"none", "tty", "file", "r", "w"}, id : Nat]
Closed  == [end |-> "none", id |-> 0]
Tty     == [end |-> "tty",  id |-> 0]
File    == [end |-> "file", id |-> 0]
R(id)   == [end |-> "r", id |-> id]
W(id)   == [end |-> "w", id |-> id]

VARIABLES
    pc,        \* where runShell is
    running,   \* the global flag of main's loop
    eof,       \* standard input has been closed by the user
    typed,     \* number of lines typed so far (bounded by MaxLines)
    queue,     \* spiltedNumberedCommands
    pos,       \* index i of the command being run in Head(queue)
    fdt,       \* the shell's descriptor table
    buffer,    \* s_numberPipeList.buffer
    head,      \* s_numberPipeList.head
    currPipe, prevPipe, eol,
    pipelineProcessor,   \* <<[0], [1]>>, pids as indices of procs, 0 for none
    data,      \* data[id] = units in pipe id
    procs,     \* every child ever forked, in order
    lineno     \* history: how many times the ring was advanced

input   == <<eof, typed>>
pipes   == <<currPipe, prevPipe, eol>>
ring    == <<buffer, head>>
shellVars == <<pc, running, input, queue, pos, fdt, pipes, ring, pipelineProcessor,
               lineno>>
vars == <<shellVars, data, procs>>
\* what a step that only moves pc leaves alone
rest == <<queue, pos, fdt, pipes, ring, pipelineProcessor, data, procs, lineno>>

Procs == [line : Nat, pos : Nat, cmd : Commands,
          st   : {"forked", "running", "zombie", "reaped"},
          in   : Objects, out : Objects, err : Objects,
          inh  : SUBSET Objects,    \* inherited copies that exec() will close
          left : Nat,               \* units it still has to write
          killed : BOOLEAN]         \* it died of SIGPIPE

TypeOK ==
    /\ pc \in {"getline", "loop", "cmd", "wait", "end", "waitlast", "readEOF",
               "exited", "failed"}
    /\ running \in BOOLEAN
    /\ eof \in BOOLEAN
    /\ typed \in 0 .. MaxLines
    /\ queue \in Seq(Seq(Commands) \ {<< >>})
    /\ pos \in Nat
    /\ fdt \in [Fds -> Objects]
    /\ buffer \in [0 .. Size - 1 -> Pipes]
    /\ head \in 0 .. Size - 1
    /\ currPipe \in Pipes /\ prevPipe \in Pipes /\ eol \in Pipes
    /\ pipelineProcessor \in [1 .. 2 -> Nat]
    /\ data \in Seq(Nat)
    /\ procs \in Seq(Procs)
    /\ lineno \in Nat

Init ==
    /\ pc = "getline" /\ running = TRUE /\ eof = FALSE /\ typed = 0
    /\ queue = << >> /\ pos = 1
    /\ fdt = [f \in Fds |-> Closed]
    /\ buffer = [s \in 0 .. Size - 1 |-> NoPipe] /\ head = 0
    /\ currPipe = NoPipe /\ prevPipe = NoPipe /\ eol = NoPipe
    /\ pipelineProcessor = <<0, 0>>
    /\ data = << >> /\ procs = << >>
    /\ lineno = 0

-----------------------------------------------------------------------------
(* Descriptors.                                                            *)

\* What descriptor fd is open on in table t.
At(t, fd) == IF fd \in Fds THEN t[fd] ELSE Closed

\* Mutant: closePipe forgets the write end.
ClosePipeIn(t, p) == [f \in Fds |-> IF f = p.in THEN Closed ELSE t[f]]

\* Pipe::closePipe: close() of a number that is not open has no effect.
ClosePipe(t, p) == [f \in Fds |-> IF f \in {p.in, p.out} THEN Closed ELSE t[f]]

\* The kernel hands out the lowest free descriptor.
LowestFree(t, f) ==
    /\ f \in Fds /\ t[f] = Closed
    /\ \A g \in Fds : g < f => t[g] # Closed

\* pipe2() succeeds on table t and stores the descriptors p.
Pipe2(t, p) ==
    /\ LowestFree(t, p.in)
    /\ LowestFree([t EXCEPT ![p.in] = R(Len(data) + 1)], p.out)

Opened(t, p) == [t EXCEPT ![p.in] = R(Len(data) + 1), ![p.out] = W(Len(data) + 1)]

\* pipe2() fails with EMFILE.
NoTwoFree(t) == ~\E f, g \in Fds : f # g /\ t[f] = Closed /\ t[g] = Closed

\* A standard descriptor of a child after dup2(fd, ...): unchanged if fd is not open.
Dup2(t, fd) == IF At(t, fd) = Closed THEN Tty ELSE At(t, fd)

Alive(c)  == procs[c].st \in {"forked", "running"}
Holds(o)  == \/ \E f \in Fds : fdt[f] = o /\ pc \notin {"exited", "failed"}
             \/ \E c \in DOMAIN procs : /\ Alive(c)
                                        /\ \/ o \in procs[c].inh
                                           \/ o \in {procs[c].in, procs[c].out, procs[c].err}
HasWriter(id) == Holds(W(id))
HasReader(id) == Holds(R(id))

-----------------------------------------------------------------------------
(* runShell, from getline to the prompt.                                   *)

Command == Head(queue)[pos]

\* Mutant: the slot one line too late.
SlotLate(n) == (head + n + 1) % Size

\* circular_buffer::get and set.
Slot(n) == (head + n) % Size

\* Mutant: the test for a pipe an earlier line created is missing.
SlotAlwaysEmpty(n) == TRUE
SlotEmpty(n) == buffer[Slot(n)] = NoPipe

\* getline and parseCommand.  "exit" closes the three pipes while the line is
\* parsed; whatever else is on the line still runs.
GetLine(l) ==
    /\ pc = "getline" /\ ~eof /\ typed < MaxLines
    /\ typed' = typed + 1
    /\ queue' = l.queue
    /\ \/ /\ l.exit
          /\ running' = FALSE
          /\ fdt' = ClosePipe(ClosePipe(ClosePipe(fdt, eol), prevPipe), currPipe)
          /\ eol' = NoPipe /\ prevPipe' = NoPipe /\ currPipe' = NoPipe
       \/ ~l.exit /\ UNCHANGED <<running, fdt, pipes>>
    /\ pc' = "loop"
    /\ UNCHANGED <<eof, pos, ring, pipelineProcessor, data, procs, lineno>>

\* The user closes standard input.
CloseInput ==
    /\ pc = "getline" /\ ~eof
    /\ eof' = TRUE
    /\ UNCHANGED <<pc, running, typed, rest>>

\* getline at end of file leaves the line empty, and so the queue.
GetLineEof ==
    /\ pc = "getline" /\ eof
    /\ pc' = "loop"
    /\ UNCHANGED <<running, input, rest>>

\* The top of the while loop: eol.create(), next(), currPipe = front().
StartCommandLine ==
    /\ pc = "loop" /\ queue # << >>
    /\ \E p \in Pipes :
         /\ Pipe2(fdt, p)
         /\ eol' = p
         /\ fdt' = Opened(fdt, p)
         /\ data' = Append(data, 0)
    /\ head' = (head + 1) % Size
    /\ currPipe' = buffer[head']
    /\ pos' = 1
    /\ lineno' = lineno + 1
    /\ pc' = "cmd"
    /\ UNCHANGED <<running, input, queue, buffer, prevPipe, pipelineProcessor, procs>>

\* Pipe::create exits the shell when pipe2() fails.
NeedsPipe ==
    \/ pc = "loop" /\ queue # << >> /\ NoTwoFree(fdt)
    \/ /\ pc = "cmd" /\ NoTwoFree(ClosePipe(fdt, prevPipe))
       /\ \/ Command.conn = "PIPE"
          \/ Command.conn = "NUMBERED_PIPE" /\ SlotEmpty(Command.n)
PipeFails ==
    /\ NeedsPipe
    /\ pc' = "failed"
    /\ UNCHANGED <<running, input, rest>>

\* createPipe of the connector that follows the command, on table t.
CreatePipe(cmd, t) ==
    \/ /\ cmd.conn = "END"
       /\ fdt' = t
       /\ UNCHANGED <<currPipe, buffer, data>>
    \/ \E p \in Pipes :
         /\ \/ cmd.conn = "PIPE" /\ UNCHANGED buffer
            \/ /\ cmd.conn = "NUMBERED_PIPE" /\ SlotEmpty(cmd.n)
               /\ buffer' = [buffer EXCEPT ![Slot(cmd.n)] = p]
         /\ Pipe2(t, p)
         /\ currPipe' = p
         /\ fdt' = Opened(t, p)
         /\ data' = Append(data, 0)
    \/ /\ cmd.conn = "NUMBERED_PIPE" /\ ~SlotEmpty(cmd.n)
       /\ currPipe' = buffer[Slot(cmd.n)]
       /\ fdt' = t
       /\ UNCHANGED <<buffer, data>>
    \/ /\ cmd.conn = "FILE_CMD"            \* the result of open() is not checked
       /\ \/ \E f \in Fds : /\ LowestFree(t, f)
                            /\ currPipe' = [in |-> -1, out |-> f]
                            /\ fdt' = [t EXCEPT ![f] = File]
          \/ currPipe' = NoPipe /\ fdt' = t
       /\ UNCHANGED <<buffer, data>>

\* Mutant: the child closes the pipe it should write to before dup2().
StdoutLate(t, r, w) == Dup2(ClosePipe(t, w), w.out)

\* stdout of a child that has closed r and now calls w.write().  When r and w
\* are the same pipe, dup2() fails and the output goes to the terminal.
Stdout(t, r, w) == Dup2(ClosePipe(t, r), w.out)

\* The child fork() creates on table t: it reads from r and writes to w.
Child(cmd, t, r, w) ==
    LET stdout == Stdout(t, r, w)
    IN  [line |-> lineno, pos |-> pos, cmd |-> cmd, st |-> "forked",
         in |-> Dup2(t, r.in), out |-> stdout, err |-> IF cmd.err THEN stdout ELSE Tty,
         inh |-> {t[f] : f \in Fds}, killed |-> FALSE,
         left |-> CASE cmd.prog.kind = "src"     -> cmd.prog.units
                    [] cmd.prog.kind = "unknown" -> 1          \* the message
                    [] OTHER                     -> 0]

\* One EXE command of the line, up to its fork().
RunCommand ==
    /\ pc = "cmd"
    /\ prevPipe' = currPipe
    /\ CreatePipe(Command, ClosePipe(fdt, prevPipe))
    /\ procs' = Append(procs, Child(Command, fdt', prevPipe', currPipe'))
    /\ pc' = "wait"
    /\ UNCHANGED <<running, input, queue, pos, head, eol, pipelineProcessor, lineno>>

\* Mutant: waitpid with WNOHANG.
WaitpidNoHang(c) ==
    IF c # 0 /\ procs[c].st = "zombie" THEN procs' = [procs EXCEPT ![c].st = "reaped"]
                                       ELSE UNCHANGED procs

\* waitpid(c): returns at once when c has been reaped before (ECHILD).
Waitpid(c) ==
    \/ /\ c \in DOMAIN procs => procs[c].st = "reaped"
       /\ UNCHANGED procs
    \/ /\ c \in DOMAIN procs /\ procs[c].st = "zombie"
       /\ procs' = [procs EXCEPT ![c].st = "reaped"]

\* Mutant: the new child replaces the one before it, which is forgotten.
ShiftLast(pid) == <<pipelineProcessor[1], pid>>
Shift(pid) == <<pipelineProcessor[2], pid>>

\* After the first waitpid: shift pipelineProcessor, go on with the line.
AfterWait ==
    /\ pc = "wait"
    /\ pipelineProcessor' = Shift(Len(procs))
    /\ pos' = pos + 1
    /\ pc' = IF pos < Len(Head(queue)) THEN "cmd" ELSE "end"
    /\ UNCHANGED <<input, queue, fdt, ring, pipes, data, lineno>>
WaitOldest == AfterWait /\ Waitpid(pipelineProcessor[1]) /\ UNCHANGED running

\* Mutant: the numbered pipe is closed like any other.
TableAtEndAll(t, numbered) ==
    ClosePipe(ClosePipe(ClosePipe(t, prevPipe), currPipe), [in |-> -1, out |-> eol.out])

\* The descriptors after the loop over the commands: prevPipe is closed and,
\* at the end of a numbered line, the write end of eol (readEOF).
TableAtEnd(t, numbered) ==
    ClosePipe(ClosePipe(t, prevPipe), [in |-> -1, out |-> IF numbered THEN eol.out ELSE -1])

EndCommands ==
    /\ pc = "end"
    /\ prevPipe' = NoPipe
    /\ LET numbered == Head(queue)[Len(Head(queue))].conn = "NUMBERED_PIPE"
       IN  /\ pc' = IF numbered THEN "readEOF" ELSE "waitlast"
           /\ fdt' = TableAtEnd(fdt, numbered)
    /\ UNCHANGED <<running, input, queue, pos, ring, currPipe, eol,
                   pipelineProcessor, data, procs, lineno>>

\* After the waitpid of an ordinary line: close currPipe, pop the line.
AfterWaitLast ==
    /\ pc = "waitlast"
    /\ fdt' = ClosePipe(fdt, currPipe) /\ currPipe' = NoPipe
    /\ queue' = Tail(queue)
    /\ pc' = "loop"
    /\ UNCHANGED <<input, pos, ring, prevPipe, eol, pipelineProcessor, data, lineno>>
WaitLast == AfterWaitLast /\ Waitpid(pipelineProcessor[2]) /\ UNCHANGED running

\* After readEOF's reads: close the read end; eol keeps both numbers.
AfterReadEOF ==
    /\ pc = "readEOF"
    /\ fdt' = ClosePipe(fdt, [in |-> eol.in, out |-> -1])
    /\ queue' = Tail(queue)
    /\ pc' = "loop"
    /\ UNCHANGED <<input, pos, ring, pipes, pipelineProcessor, data, procs, lineno>>

\* Mutant: readEOF does not read.
AtEofNow(fd) == TRUE

\* read() on fd no longer blocks and returns 0, or fails.
AtEof(fd) == At(fdt, fd).end = "r" => ~HasWriter(At(fdt, fd).id)
ReadEOF ==
    /\ AfterReadEOF
    /\ AtEof(eol.in)
    /\ UNCHANGED running

\* The queue is empty: prompt, and main's loop tests running.
Prompt ==
    /\ pc = "loop" /\ queue = << >>
    /\ pc' = IF running THEN "getline" ELSE "exited"
    /\ UNCHANGED <<running, input, rest>>

\* SIGINT: exitHandler clears the flag, and the system call the shell is
\* blocked in returns early (no SA_RESTART); the signal may also come just
\* before that call.  The children are not signalled.
Interrupt ==
    /\ running /\ running' = FALSE
    /\ \/ /\ pc \notin {"exited", "failed"}
          /\ UNCHANGED <<pc, input, rest>>
       \/ /\ pc = "getline" /\ pc' = "loop"
          /\ UNCHANGED <<input, rest>>
       \/ AfterWait /\ UNCHANGED procs
       \/ AfterWaitLast /\ UNCHANGED procs
       \/ AfterReadEOF

-----------------------------------------------------------------------------
(* The children.                                                           *)

\* Mutant: descriptors made without O_CLOEXEC.
SurvivesExecAll(objs) == objs
SurvivesExec(objs) == {}

\* exec() closes what was inherited.  When it fails, run() has written its message
\* (Write), and the child exits.
Exec(c) ==
    /\ procs[c].st = "forked"
    /\ procs[c].cmd.prog.kind = "unknown" => procs[c].left = 0
    /\ procs' = [procs EXCEPT
         ![c].st  = IF procs[c].cmd.prog.kind = "unknown" THEN "zombie" ELSE "running",
         ![c].inh = SurvivesExec(procs[c].inh)]
    /\ UNCHANGED <<shellVars, data>>

\* Where child c writes: a program to its stdout, run() after an exec() that
\* failed to its stderr.
Failed(c) == procs[c].st = "forked" /\ procs[c].cmd.prog.kind = "unknown"
Target(c) == IF Failed(c) THEN procs[c].err ELSE procs[c].out

\* A child writes one unit: it blocks on a full pipe and dies of SIGPIPE on a
\* pipe nobody can read.
Write(c) ==
    /\ procs[c].st = "running" \/ Failed(c)
    /\ procs[c].left > 0
    /\ LET id == Target(c).id
       IN  \/ /\ Target(c).end # "w"
              /\ procs' = [procs EXCEPT ![c].left = @ - 1]
              /\ UNCHANGED data
           \/ /\ Target(c).end = "w" /\ HasReader(id) /\ data[id] < Capacity
              /\ procs' = [procs EXCEPT ![c].left = @ - 1]
              /\ data' = [data EXCEPT ![id] = @ + 1]
           \/ /\ Target(c).end = "w" /\ ~HasReader(id)
              /\ procs' = [procs EXCEPT ![c].st = "zombie", ![c].killed = TRUE]
              /\ UNCHANGED data
    /\ UNCHANGED shellVars

\* A filter reads one unit, which it then has to write.
Read(c) ==
    /\ procs[c].st = "running" /\ procs[c].left = 0
    /\ procs[c].cmd.prog.kind = "filter" /\ procs[c].in.end = "r"
    /\ data[procs[c].in.id] > 0
    /\ data' = [data EXCEPT ![procs[c].in.id] = @ - 1]
    /\ procs' = [procs EXCEPT ![c].left = 1]
    /\ UNCHANGED shellVars

\* A program exits: a filter at end of file, the others when they have written
\* everything.  What is typed at the terminal is not for the filters here.
Exit(c) ==
    /\ procs[c].st = "running" /\ procs[c].left = 0
    /\ procs[c].cmd.prog.kind = "filter" /\ procs[c].in.end = "r" =>
         data[procs[c].in.id] = 0 /\ ~HasWriter(procs[c].in.id)
    /\ procs' = [procs EXCEPT ![c].st = "zombie"]
    /\ UNCHANGED <<shellVars, data>>

-----------------------------------------------------------------------------
Terminated == pc \in {"exited", "failed"} /\ UNCHANGED vars

Shell == \/ GetLineEof \/ StartCommandLine \/ PipeFails \/ RunCommand \/ WaitOldest
         \/ EndCommands \/ WaitLast \/ ReadEOF \/ Prompt
Children == \E c \in DOMAIN procs : Exec(c) \/ Write(c) \/ Read(c) \/ Exit(c)
User == CloseInput \/ Interrupt \/ \E l \in Lines : GetLine(l)

Next == Shell \/ Children \/ User \/ Terminated

Spec == Init /\ [][Next]_vars

\* The shell takes its next step when it can; so does some child.
FairSpec == Spec /\ WF_vars(Shell) /\ WF_vars(Children)

-----------------------------------------------------------------------------
(* Properties.                                                             *)

\* No slot of the ring has been used twice yet: the lines that have run and the
\* lines a numbered pipe is due at are all within its first turn (1024 lines).
BeforeWrap ==
    /\ lineno <= Size
    /\ \A c \in DOMAIN procs : procs[c].cmd.conn = "NUMBERED_PIPE" =>
         procs[c].line + procs[c].cmd.n <= Size

\* Commands are joined by "|"; a file, a numbered pipe with N > 0, "|" or
\* nothing follows the last one.
ProperCommandLine(s) ==
    \A i \in DOMAIN s : /\ i < Len(s) => s[i].conn = "PIPE"
                        /\ s[i].conn = "NUMBERED_PIPE" => s[i].n > 0

\* Every line that can be typed consists of such command lines, and "exit"
\* has a line to itself.
ProperLines ==
    \A l \in Lines : /\ l.exit => l.queue = << >>
                     /\ \A q \in DOMAIN l.queue : ProperCommandLine(l.queue[q])

\* The shell closes its copies of a pipe once the reader has them, so at the
\* prompt it holds a pipe of a child only for a numbered pipe whose line is
\* still to come (cmdHandler.cpp:44, 73, 79), and no output file.
HeldOnlyForLater ==
    BeforeWrap /\ pc = "getline" =>
        /\ \A f \in Fds : fdt[f] # File
        /\ \A c \in DOMAIN procs :
             (/\ procs[c].out.end = "w"
              /\ \E f \in Fds : fdt[f] \in {R(procs[c].out.id), W(procs[c].out.id)})
             => procs[c].cmd.conn = "NUMBERED_PIPE" /\ procs[c].line + procs[c].cmd.n > lineno

\* Two commands joined by "|" share a pipe, and nobody else is on it
\* (cmdHandler.cpp:44-62).
PipelineWiring ==
    BeforeWrap => \A a, b \in DOMAIN procs :
        procs[a].cmd.conn = "PIPE" /\ procs[a].line = procs[b].line
                                   /\ procs[b].pos = procs[a].pos + 1
        => /\ procs[a].out = W(procs[b].in.id) /\ procs[b].in.end = "r"
           /\ \A c \in DOMAIN procs : /\ procs[c].out = procs[a].out => c = a
                                      /\ procs[c].in = procs[b].in => c = b

\* The writers whose output is due at the first command of command line `at'.
DueAt(at) == {a \in DOMAIN procs : /\ procs[a].cmd.conn = "NUMBERED_PIPE"
                                   /\ procs[a].line + procs[a].cmd.n = at}
\* Child b reads from exactly the children in ws.
ReadsFrom(b, ws) ==
    IF ws = {} THEN procs[b].in = Tty
               ELSE /\ procs[b].in.end = "r"
                    /\ {a \in DOMAIN procs : procs[a].out = W(procs[b].in.id)} = ws

\* |N and !N: the first command of the N-th next command line reads the output
\* of exactly the commands piped to that line, or the terminal when there are
\* none (cmdType.cpp:31-37, util.hpp:12-18), until the ring wraps around.
NumberedPipeDelivery ==
    BeforeWrap => \A b \in DOMAIN procs :
        procs[b].pos = 1 => ReadsFrom(b, DueAt(procs[b].line))

\* The same without the bound, as the project's specification demands it of
\* every line (3.5.3).
NumberedPipeAlways ==
    \A b \in DOMAIN procs : procs[b].pos = 1 => ReadsFrom(b, DueAt(procs[b].line))

\* The child the shell is blocked on, 0 for none.
WaitsFor == CASE pc = "wait" -> pipelineProcessor[1]
              [] pc = "waitlast" -> pipelineProcessor[2]
              [] OTHER -> 0

\* The shell never waits for a child that waits for the shell: it holds no
\* write end of the pipe the child it waits for reads (cmdHandler.cpp:44, 73).
NoSelfWait ==
    BeforeWrap /\ WaitsFor # 0 /\ procs[WaitsFor].in.end = "r"
        => \A f \in Fds : fdt[f] # W(procs[WaitsFor].in.id)

\* While the shell runs, every child it has not reaped is one of the last two,
\* or the one just forked, so zombies never pile up (cmdHandler.cpp:68-70, 78).
UnreapedBound ==
    running => \A c \in DOMAIN procs : procs[c].st # "reaped" =>
        \/ c \in {pipelineProcessor[1], pipelineProcessor[2]}
        \/ pc = "wait" /\ c = Len(procs)

\* Child c has yet to report an unknown command on the terminal.
Complains(c) == Failed(c) /\ procs[c].left > 0 /\ procs[c].err = Tty

\* When the shell prompts, no child that writes its output to the terminal is
\* alive, and none that has yet to report an unknown command there, but for the
\* last but one command of the line, which a "|" follows (cmdHandler.cpp:78, 87).
PromptAfterOutput ==
    BeforeWrap /\ running /\ pc = "getline" =>
        \A c \in DOMAIN procs : Alive(c) =>
            /\ procs[c].out # Tty
            /\ Complains(c) => c = pipelineProcessor[1] /\ procs[c].cmd.conn = "PIPE"

\* When a numbered line is over, each of its children has executed its program
\* or has failed to: readEOF waits for them (cmdHandler.cpp:81).
NumberedLineSynced ==
    (/\ BeforeWrap /\ running /\ pc = "loop" /\ procs # << >>
     /\ procs[Len(procs)].cmd.conn = "NUMBERED_PIPE") =>
            \A c \in DOMAIN procs : procs[c].line = lineno => procs[c].st # "forked"

\* While the shell runs, a child dies of SIGPIPE only if its output had a
\* reader: the shell keeps the read end until then (cmdHandler.cpp:73-82).
BrokenPipeNeedsReader ==
    [][BeforeWrap /\ running /\ pc # "failed" => \A c \in DOMAIN procs :
         procs'[c].killed /\ ~procs[c].killed =>
            \E b \in DOMAIN procs : procs[b].in = R(procs[c].out.id)]_vars

\* Every line that is typed is finished, whatever the children's timing: the
\* shell comes back to getline or leaves (cmdHandler.cpp:25-86).
EveryLineCompletes == pc = "loop" ~> pc \in {"getline", "exited", "failed"}
====
