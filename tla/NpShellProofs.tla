--------------------------- MODULE NpShellProofs ---------------------------
(***************************************************************************)
(* Theorems about NpShell, for every ring size, descriptor limit, pipe     *)
(* capacity and set of input lines.                                        *)
(***************************************************************************)
EXTENDS NpShell, ProofFacts

-----------------------------------------------------------------------------
(* Facts about descriptor tables.                                          *)

\* The constants of the model have their types.
LEMMA ConstantTypes ==
    /\ NoPipe \in Pipes
    /\ Closed \in Objects /\ Tty \in Objects /\ File \in Objects
    /\ \A id \in Nat : R(id) \in Objects /\ W(id) \in Objects
BY DEF NoPipe, Pipes, Closed, Tty, File, R, W, Objects

\* Closing, opening and duplicating descriptors keep tables well-formed.
LEMMA TableTypes ==
    ASSUME NEW t \in [Fds -> Objects], NEW p \in Pipes, data \in Seq(Nat)
    PROVE  /\ ClosePipe(t, p) \in [Fds -> Objects]
           /\ Opened(t, p) \in [Fds -> Objects]
           /\ \A fd : At(t, fd) \in Objects /\ Dup2(t, fd) \in Objects
<1>1. Len(data) + 1 \in Nat
  OBVIOUS
<1>2. ClosePipe(t, p) \in [Fds -> Objects]
  BY ConstantTypes DEF ClosePipe
<1>3. Opened(t, p) \in [Fds -> Objects]
  BY <1>1, ConstantTypes DEF Opened
<1>4. \A fd : At(t, fd) \in Objects /\ Dup2(t, fd) \in Objects
  BY ConstantTypes DEF At, Dup2
<1> QED
  BY <1>2, <1>3, <1>4

\* A child that fork() creates is well-formed.
LEMMA ChildType ==
    ASSUME TypeOK, NEW cmd \in Commands, NEW t \in [Fds -> Objects],
           NEW r \in Pipes, NEW w \in Pipes
    PROVE  Child(cmd, t, r, w) \in Procs
<1>1. ClosePipe(t, r) \in [Fds -> Objects]
  BY TableTypes DEF TypeOK
<1>2. Stdout(t, r, w) \in Objects /\ Dup2(t, r.in) \in Objects
  BY <1>1, TableTypes DEF TypeOK, Stdout
<1>3. {t[f] : f \in Fds} \in SUBSET Objects
  OBVIOUS
<1>4. cmd.prog.units \in Nat /\ cmd.err \in BOOLEAN
  BY DEF Commands, Programs
<1> QED
  BY <1>2, <1>3, <1>4, ConstantTypes DEF Child, Procs, TypeOK

-----------------------------------------------------------------------------
(* Type correctness.  The types alone are not inductive: RunCommand takes  *)
(* the command at pos of the first command line, which exists because pc   *)
(* says where in the loops of runShell the shell is.                       *)

Positions ==
    /\ pc \in {"cmd", "wait"} => queue # << >> /\ pos \in 1 .. Len(Head(queue))
    /\ pc \in {"end", "waitlast", "readEOF"} => queue # << >>

TypeInv == TypeOK /\ Positions

\* The initial state, with all pipes empty, satisfies the inductive invariant.
LEMMA TypeInit == Init => TypeInv
<1> SUFFICES ASSUME Init PROVE TypeInv
  OBVIOUS
<1>1. 0 \in 0 .. MaxLines /\ 0 \in 0 .. Size - 1
  BY SizeAssumption, MaxLinesAssumption
<1>2. fdt \in [Fds -> Objects] /\ buffer \in [0 .. Size - 1 -> Pipes]
  BY ConstantTypes DEF Init
<1>3. << >> \in Seq(Seq(Commands) \ {<< >>}) /\ << >> \in Seq(Nat) /\ << >> \in Seq(Procs)
  OBVIOUS
<1>4. <<0, 0>> \in [1 .. 2 -> Nat]
  OBVIOUS
<1> QED
  BY <1>1, <1>2, <1>3, <1>4, ConstantTypes DEF Init, TypeInv, TypeOK, Positions

\* The ring, the pipes and the descriptor table after createPipe.
LEMMA CreatePipeTypes ==
    ASSUME TypeOK, NEW cmd \in Commands, NEW t \in [Fds -> Objects], CreatePipe(cmd, t)
    PROVE  /\ fdt' \in [Fds -> Objects]
           /\ currPipe' \in Pipes
           /\ buffer' \in [0 .. Size - 1 -> Pipes]
           /\ data' \in Seq(Nat)
<1>1. CASE cmd.conn = "END" /\ fdt' = t /\ UNCHANGED <<currPipe, buffer, data>>
  BY <1>1 DEF TypeOK
<1>2. ASSUME NEW p \in Pipes,
             \/ UNCHANGED buffer
             \/ buffer' = [buffer EXCEPT ![Slot(cmd.n)] = p],
             currPipe' = p, fdt' = Opened(t, p), data' = Append(data, 0)
      PROVE  /\ fdt' \in [Fds -> Objects]
             /\ currPipe' \in Pipes
             /\ buffer' \in [0 .. Size - 1 -> Pipes]
             /\ data' \in Seq(Nat)
  <2>1. fdt' \in [Fds -> Objects]
    BY <1>2, TableTypes DEF TypeOK
  <2>2. data' \in Seq(Nat)
    BY <1>2 DEF TypeOK
  <2> QED
    BY <1>2, <2>1, <2>2 DEF TypeOK
<1>3. CASE /\ currPipe' = buffer[Slot(cmd.n)]
           /\ fdt' = t
           /\ UNCHANGED <<buffer, data>>
  <2>1. Slot(cmd.n) \in 0 .. Size - 1
    BY SizeAssumption, SMTT(30) DEF Slot, TypeOK, Commands
  <2> QED
    BY <1>3, <2>1 DEF TypeOK
<1>4. CASE /\ \/ \E f \in Fds : /\ LowestFree(t, f)
                                /\ currPipe' = [in |-> -1, out |-> f]
                                /\ fdt' = [t EXCEPT ![f] = File]
              \/ currPipe' = NoPipe /\ fdt' = t
           /\ UNCHANGED <<buffer, data>>
  <2>1. buffer' \in [0 .. Size - 1 -> Pipes] /\ data' \in Seq(Nat)
    BY <1>4 DEF TypeOK
  <2>2. ASSUME NEW f \in Fds,
               currPipe' = [in |-> -1, out |-> f],
               fdt' = [t EXCEPT ![f] = File]
        PROVE  fdt' \in [Fds -> Objects] /\ currPipe' \in Pipes
    <3>1. fdt' \in [Fds -> Objects]
      BY <2>2, ConstantTypes
    <3>2. currPipe' \in Pipes
      BY <2>2 DEF Pipes
    <3> QED
      BY <3>1, <3>2
  <2>3. CASE currPipe' = NoPipe /\ fdt' = t
    BY <2>1, <2>3, ConstantTypes
  <2> QED
    BY <1>4, <2>1, <2>2, <2>3
<1> QED
  BY <1>1, <1>2, <1>3, <1>4 DEF CreatePipe

\* waitpid(c) changes the state of one child at most (cmdHandler.cpp:68, 78).
LEMMA WaitpidTypes ==
    ASSUME TypeOK, NEW c, Waitpid(c)
    PROVE  procs' \in Seq(Procs)
<1>1. CASE UNCHANGED procs
  BY <1>1 DEF TypeOK
<1>2. CASE /\ c \in DOMAIN procs
           /\ procs' = [procs EXCEPT ![c].st = "reaped"]
  <2>1. procs[c] \in Procs
    BY <1>2 DEF TypeOK
  <2>2. [procs[c] EXCEPT !.st = "reaped"] \in Procs
    BY <2>1 DEF Procs
  <2> QED
    BY <1>2, <2>2, SeqExcept DEF TypeOK
<1> QED
  BY <1>1, <1>2 DEF Waitpid

\* Every step of the shell, of a child or of the user keeps the inductive
\* invariant: one step of the proof for each action.
LEMMA TypeNext == TypeInv /\ [Next]_vars => TypeInv'
<1> SUFFICES ASSUME TypeInv, [Next]_vars PROVE TypeInv'
  OBVIOUS
<1> USE DEF TypeInv
<1>1. ASSUME NEW l \in Lines, GetLine(l) PROVE TypeInv'
  <2>1. l.queue \in Seq(Seq(Commands) \ {<< >>})
    BY LinesAssumption DEF Inputs
  <2>2. typed' \in 0 .. MaxLines
    BY <1>1, MaxLinesAssumption DEF GetLine, TypeOK
  <2>3. fdt' \in [Fds -> Objects]
    <3>1. ClosePipe(fdt, eol) \in [Fds -> Objects]
      BY TableTypes DEF TypeOK
    <3>2. ClosePipe(ClosePipe(fdt, eol), prevPipe) \in [Fds -> Objects]
      BY <3>1, TableTypes DEF TypeOK
    <3>3. ClosePipe(ClosePipe(ClosePipe(fdt, eol), prevPipe), currPipe) \in [Fds -> Objects]
      BY <3>2, TableTypes DEF TypeOK
    <3> QED
      BY <1>1, <3>3 DEF GetLine, TypeOK
  <2>4. running' \in BOOLEAN
    BY <1>1, Zenon DEF GetLine, TypeOK
  <2>5. eol' \in Pipes /\ prevPipe' \in Pipes /\ currPipe' \in Pipes
    BY <1>1, ConstantTypes DEF GetLine, TypeOK, pipes
  <2> QED
    BY <1>1, <2>1, <2>2, <2>3, <2>4, <2>5 DEF GetLine, TypeOK, Positions, ring
<1>2. CASE CloseInput
  BY <1>2 DEF CloseInput, TypeOK, Positions, rest, ring, pipes
<1>3. CASE GetLineEof
  BY <1>3 DEF GetLineEof, TypeOK, Positions, input, rest, ring, pipes
<1>4. CASE StartCommandLine
  <2>1. /\ eol' \in Pipes /\ fdt' \in [Fds -> Objects] /\ data' \in Seq(Nat)
    <3>1. PICK p \in Pipes : eol' = p /\ fdt' = Opened(fdt, p) /\ data' = Append(data, 0)
      BY <1>4 DEF StartCommandLine
    <3>2. Opened(fdt, p) \in [Fds -> Objects]
      BY TableTypes DEF TypeOK
    <3>3. Append(data, 0) \in Seq(Nat)
      BY DEF TypeOK
    <3> QED
      BY <3>1, <3>2, <3>3
  <2>2. head' \in 0 .. Size - 1
    BY <1>4, SizeAssumption DEF StartCommandLine, TypeOK
  <2>3. currPipe' \in Pipes
    BY <1>4, <2>2 DEF StartCommandLine, TypeOK
  <2>4. Head(queue) \in Seq(Commands) \ {<< >>}
    BY <1>4 DEF StartCommandLine, TypeOK
  <2>5. 1 \in 1 .. Len(Head(queue))
    BY <2>4
  <2> QED
    <3>1. /\ queue' = queue /\ queue # << >> /\ pos' = 1 /\ pc' = "cmd"
      BY <1>4 DEF StartCommandLine
    <3>2. Positions'
      BY <2>5, <3>1 DEF Positions
    <3>3. /\ lineno' = lineno + 1
          /\ UNCHANGED <<running, eof, typed, buffer, prevPipe, pipelineProcessor, procs>>
      BY <1>4 DEF StartCommandLine, input
    <3>4. TypeOK'
      BY <2>1, <2>2, <2>3, <3>1, <3>3 DEF TypeOK
    <3> QED
      BY <3>2, <3>4
<1>5. CASE PipeFails
  BY <1>5 DEF PipeFails, TypeOK, Positions, input, rest, ring, pipes
<1>6. CASE RunCommand
  <2>1. Command \in Commands
    <3>1. Head(queue) \in Seq(Commands) /\ pos \in 1 .. Len(Head(queue))
      BY <1>6 DEF RunCommand, TypeOK, Positions
    <3> QED
      BY <3>1 DEF Command
  <2>2. ClosePipe(fdt, prevPipe) \in [Fds -> Objects]
    BY TableTypes DEF TypeOK
  <2>3. /\ fdt' \in [Fds -> Objects] /\ currPipe' \in Pipes
        /\ buffer' \in [0 .. Size - 1 -> Pipes] /\ data' \in Seq(Nat)
    BY <1>6, <2>1, <2>2, CreatePipeTypes DEF RunCommand
  <2>4. prevPipe' \in Pipes
    BY <1>6 DEF RunCommand, TypeOK
  <2>5. Child(Command, fdt', prevPipe', currPipe') \in Procs
    BY <2>1, <2>3, <2>4, ChildType
  <2>6. procs' \in Seq(Procs)
    BY <1>6, <2>5 DEF RunCommand, TypeOK
  <2> QED
    BY <1>6, <2>3, <2>4, <2>6 DEF RunCommand, TypeOK, Positions, input
<1>7. ASSUME AfterWait, procs' \in Seq(Procs), running' \in BOOLEAN PROVE TypeInv'
  <2>1. pipelineProcessor' \in [1 .. 2 -> Nat]
    BY <1>7 DEF AfterWait, Shift, TypeOK
  <2>2. Head(queue) \in Seq(Commands) /\ pos \in 1 .. Len(Head(queue)) /\ queue # << >>
    BY <1>7 DEF AfterWait, Positions, TypeOK
  <2>3. pos' \in Nat /\ (pc' = "cmd" => pos' \in 1 .. Len(Head(queue)))
    BY <1>7, <2>2 DEF AfterWait
  <2> QED
    BY <1>7, <2>1, <2>2, <2>3 DEF AfterWait, TypeOK, Positions, input, ring, pipes
<1>8. CASE WaitOldest
  BY <1>7, <1>8, WaitpidTypes DEF WaitOldest, TypeOK
<1>9. CASE EndCommands
  <2> DEFINE wr == [in |-> -1, out |-> eol.out]
             none == [in |-> -1, out |-> -1]
  <2>1. wr \in Pipes /\ none \in Pipes
    BY DEF Pipes, TypeOK
  <2>2. ClosePipe(fdt, prevPipe) \in [Fds -> Objects]
    BY TableTypes DEF TypeOK
  <2>3. /\ ClosePipe(ClosePipe(fdt, prevPipe), wr) \in [Fds -> Objects]
        /\ ClosePipe(ClosePipe(fdt, prevPipe), none) \in [Fds -> Objects]
    BY <2>1, <2>2, TableTypes DEF TypeOK
  <2>4. fdt' \in [Fds -> Objects]
    BY <1>9, <2>3 DEF EndCommands, TableAtEnd
  <2> QED
    BY <1>9, <2>4, ConstantTypes DEF EndCommands, TypeOK, Positions, input, ring
<1>10. ASSUME AfterWaitLast, procs' \in Seq(Procs), running' \in BOOLEAN PROVE TypeInv'
  <2>1. fdt' \in [Fds -> Objects]
    BY <1>10, TableTypes DEF AfterWaitLast, TypeOK
  <2>2. queue' \in Seq(Seq(Commands) \ {<< >>})
    BY <1>10 DEF AfterWaitLast, TypeOK, Positions
  <2> QED
    BY <1>10, <2>1, <2>2, ConstantTypes
       DEF AfterWaitLast, TypeOK, Positions, input, ring
<1>11. CASE WaitLast
  BY <1>10, <1>11, WaitpidTypes DEF WaitLast, TypeOK
<1>12. ASSUME AfterReadEOF, running' \in BOOLEAN PROVE TypeInv'
  <2>1. [in |-> eol.in, out |-> -1] \in Pipes
    BY DEF Pipes, TypeOK
  <2>2. fdt' \in [Fds -> Objects]
    BY <1>12, <2>1, TableTypes DEF AfterReadEOF, TypeOK
  <2>3. queue' \in Seq(Seq(Commands) \ {<< >>})
    BY <1>12 DEF AfterReadEOF, TypeOK, Positions
  <2> QED
    BY <1>12, <2>2, <2>3 DEF AfterReadEOF, TypeOK, Positions, input, ring, pipes
<1>13. CASE ReadEOF
  BY <1>12, <1>13 DEF ReadEOF, TypeOK
<1>14. CASE Prompt
  BY <1>14 DEF Prompt, TypeOK, Positions, input, rest, ring, pipes
<1>15. CASE Interrupt
  <2>1. running' \in BOOLEAN
    BY <1>15 DEF Interrupt
  <2>2. UNCHANGED procs => procs' \in Seq(Procs)
    BY DEF TypeOK
  <2>3. CASE AfterWait /\ UNCHANGED procs
    BY <1>7, <2>1, <2>2, <2>3
  <2>4. CASE AfterWaitLast /\ UNCHANGED procs
    BY <1>10, <2>1, <2>2, <2>4
  <2>5. CASE AfterReadEOF
    BY <1>12, <2>1, <2>5
  <2>6. CASE UNCHANGED <<input, rest>> /\ (UNCHANGED pc \/ pc' = "loop")
    BY <2>1, <2>6 DEF TypeOK, Positions, input, rest, ring, pipes
  <2> QED
    BY <1>15, <2>3, <2>4, <2>5, <2>6 DEF Interrupt
<1>16. ASSUME NEW c \in DOMAIN procs, Exec(c) \/ Write(c) \/ Read(c) \/ Exit(c)
       PROVE  TypeInv'
  <2>0. procs[c] \in Procs
    BY DEF TypeOK
  <2>1. procs[c] \in Procs /\ procs[c].left \in Nat
    BY <2>0 DEF Procs
  <2>2. procs' \in Seq(Procs)
    <3>1. PICK v \in Procs : procs' = [procs EXCEPT ![c] = v]
      <4>1. CASE Exec(c)
        <5>1. /\ [procs[c] EXCEPT !.st = "zombie", !.inh = {}] \in Procs
              /\ [procs[c] EXCEPT !.st = "running", !.inh = {}] \in Procs
          BY <2>1 DEF Procs
        <5> QED
          BY <4>1, <5>1 DEF Exec, SurvivesExec
      <4>2. CASE Write(c)
        <5>1. [procs[c] EXCEPT !.st = "zombie", !.killed = TRUE] \in Procs
          BY <2>1 DEF Procs
        <5>2. procs[c].left > 0 => [procs[c] EXCEPT !.left = @ - 1] \in Procs
          BY <2>1 DEF Procs
        <5> QED
          BY <4>2, <5>1, <5>2 DEF Write
      <4>3. CASE Read(c)
        <5>1. [procs[c] EXCEPT !.left = 1] \in Procs
          BY <2>1 DEF Procs
        <5> QED
          BY <4>3, <5>1 DEF Read
      <4>4. CASE Exit(c)
        <5>1. [procs[c] EXCEPT !.st = "zombie"] \in Procs
          BY <2>1 DEF Procs
        <5> QED
          BY <4>4, <5>1 DEF Exit
      <4> QED
        BY <1>16, <4>1, <4>2, <4>3, <4>4
    <3> QED
      BY <3>1, SeqExcept DEF TypeOK
  <2>3. data' \in Seq(Nat)
    <3>1. CASE UNCHANGED data
      BY <3>1 DEF TypeOK
    <3>2. ASSUME NEW id, data' = [data EXCEPT ![id] = @ + 1] PROVE data' \in Seq(Nat)
      <4>1. id \in 1 .. Len(data) => data[id] + 1 \in Nat
        BY SMTT(30) DEF TypeOK
      <4> QED
        BY <3>2, <4>1, SeqExcept DEF TypeOK
    <3>3. ASSUME NEW id, data[id] > 0, data' = [data EXCEPT ![id] = @ - 1]
          PROVE  data' \in Seq(Nat)
      <4>1. id \in 1 .. Len(data) => data[id] - 1 \in Nat
        BY <3>3, SMTT(30) DEF TypeOK
      <4> QED
        BY <3>3, <4>1, SeqExcept DEF TypeOK
    <3> QED
      BY <1>16, <3>1, <3>2, <3>3 DEF Exec, Write, Read, Exit
  <2>4. UNCHANGED shellVars
    BY <1>16 DEF Exec, Write, Read, Exit
  <2> QED
    BY <2>2, <2>3, <2>4
       DEF TypeOK, Positions, shellVars, input, ring, pipes
<1>17. CASE UNCHANGED vars
  BY <1>17 DEF vars, shellVars, TypeOK, Positions, input, ring, pipes
<1> QED
  BY <1>1, <1>2, <1>3, <1>4, <1>5, <1>6, <1>8, <1>9, <1>11, <1>13, <1>14, <1>15, <1>16, <1>17
     DEF Next, Shell, Children, User, Terminated

\* Every variable of the shell keeps its type (the shell of project 1, all
\* actions); the command runShell looks at always exists.
THEOREM TypeCorrect == Spec => []TypeOK
<1>1. TypeInv => TypeOK
  BY DEF TypeInv
<1> QED
  BY <1>1, TypeInit, TypeNext, PTL DEF Spec

-----------------------------------------------------------------------------
(* Zombies.  Outside the waitpid that follows a fork, the children not yet *)
(* reaped are among the two pids the shell remembers; the waitpid removes  *)
(* the older one before the new pid takes its place.                       *)

\* A step that forks and reaps nobody and is not the end of a wait.
LEMMA UnreapedStutter ==
    ASSUME UnreapedBound, UNCHANGED <<procs, pipelineProcessor>>, running' => running,
           pc = "wait" => pc' = "wait"
    PROVE  UnreapedBound'
BY DEF UnreapedBound

\* waitpid(c) touches no other child, and afterwards c is reaped.
LEMMA WaitpidReaps ==
    ASSUME TypeOK, NEW c, Waitpid(c)
    PROVE  /\ Len(procs') = Len(procs) /\ DOMAIN procs' = DOMAIN procs
           /\ \A d \in DOMAIN procs : procs'[d].st # "reaped" =>
                 d # c /\ procs[d].st # "reaped"
<1>1. CASE (c \in DOMAIN procs => procs[c].st = "reaped") /\ UNCHANGED procs
  BY <1>1
<1>2. CASE c \in DOMAIN procs /\ procs' = [procs EXCEPT ![c].st = "reaped"]
  <2>1. procs[c] \in Procs
    BY <1>2 DEF TypeOK
  <2>2. [procs[c] EXCEPT !.st = "reaped"] \in Procs
    BY <2>1 DEF Procs
  <2>3. Len(procs') = Len(procs) /\ DOMAIN procs' = DOMAIN procs
    BY <1>2, <2>2, SeqExcept DEF TypeOK
  <2>4. [procs[c] EXCEPT !.st = "reaped"].st = "reaped"
    BY <2>1 DEF Procs
  <2>5. procs'[c].st = "reaped" /\ \A d \in DOMAIN procs \ {c} : procs'[d] = procs[d]
    BY <1>2, <2>4 DEF TypeOK
  <2> QED
    BY <2>3, <2>5
<1> QED
  BY <1>1, <1>2 DEF Waitpid

\* A child that runs was not reaped, and running it does not reap it.
LEMMA ChildStepUnreaped ==
    ASSUME TypeOK, NEW c \in DOMAIN procs, Exec(c) \/ Write(c) \/ Read(c) \/ Exit(c)
    PROVE  /\ Len(procs') = Len(procs) /\ DOMAIN procs' = DOMAIN procs
           /\ procs[c].st # "reaped"
           /\ \A d \in DOMAIN procs \ {c} : procs'[d] = procs[d]
<1>1. procs[c].st \in {"forked", "running"}
  BY DEF Exec, Write, Read, Exit, Failed
<1>2. procs \in [1 .. Len(procs) -> Procs] /\ Len(procs) \in Nat
  BY DEF TypeOK
<1>3. PICK v : procs' = [procs EXCEPT ![c] = v]
  BY DEF Exec, Write, Read, Exit
<1>4. DOMAIN procs' = DOMAIN procs /\ \A d \in DOMAIN procs \ {c} : procs'[d] = procs[d]
  BY <1>2, <1>3
<1>5. procs \in Seq(Procs \cup {v})
  BY DEF TypeOK
<1>6. Len(procs') = Len(procs)
  BY <1>3, <1>5, SeqExcept
<1> QED
  BY <1>1, <1>4, <1>6

\* Every step keeps the bound on the children that are not reaped: the wait
\* for the older one comes before its place is taken (cmdHandler.cpp:68-70).
LEMMA UnreapedNext == TypeInv /\ UnreapedBound /\ [Next]_vars => UnreapedBound'
<1> SUFFICES ASSUME TypeInv, UnreapedBound, [Next]_vars PROVE UnreapedBound'
  OBVIOUS
<1> USE DEF TypeInv
<1>1. CASE \E l \in Lines : GetLine(l)
  BY <1>1, UnreapedStutter DEF GetLine
<1>2. CASE CloseInput \/ GetLineEof \/ PipeFails \/ Prompt
  BY <1>2, UnreapedStutter DEF CloseInput, GetLineEof, PipeFails, NeedsPipe, Prompt, rest
<1>3. CASE StartCommandLine
  BY <1>3, UnreapedStutter DEF StartCommandLine
<1>4. CASE RunCommand
  <2>1. /\ procs \in Seq(Procs) /\ pc = "cmd" /\ pc' = "wait"
        /\ UNCHANGED <<running, pipelineProcessor>>
        /\ procs' = Append(procs, Child(Command, fdt', prevPipe', currPipe'))
    BY <1>4 DEF RunCommand, TypeOK
  <2>2. /\ Len(procs') = Len(procs) + 1
        /\ \A d \in DOMAIN procs' : \/ d = Len(procs')
                                    \/ d \in DOMAIN procs /\ procs'[d] = procs[d]
    BY <2>1, AppendElements
  <2> QED
    BY <2>1, <2>2 DEF UnreapedBound
<1>5. CASE WaitOldest
  <2>1. /\ pc = "wait" /\ UNCHANGED running
        /\ pipelineProcessor'[1] = pipelineProcessor[2]
        /\ pipelineProcessor'[2] = Len(procs)
    BY <1>5 DEF WaitOldest, AfterWait, Shift
  <2>2. /\ DOMAIN procs' = DOMAIN procs
        /\ \A d \in DOMAIN procs : procs'[d].st # "reaped" =>
              d # pipelineProcessor[1] /\ procs[d].st # "reaped"
    BY <1>5, WaitpidReaps DEF WaitOldest
  <2> QED
    BY <2>1, <2>2 DEF UnreapedBound
<1>6. CASE EndCommands
  BY <1>6, UnreapedStutter DEF EndCommands
<1>7. CASE WaitLast
  <2>1. /\ pc = "waitlast" /\ UNCHANGED <<running, pipelineProcessor>>
    BY <1>7 DEF WaitLast, AfterWaitLast
  <2>2. /\ DOMAIN procs' = DOMAIN procs
        /\ \A d \in DOMAIN procs : procs'[d].st # "reaped" => procs[d].st # "reaped"
    BY <1>7, WaitpidReaps DEF WaitLast
  <2> QED
    BY <2>1, <2>2 DEF UnreapedBound
<1>8. CASE ReadEOF
  BY <1>8, UnreapedStutter DEF ReadEOF, AfterReadEOF
<1>9. CASE Interrupt
  BY <1>9 DEF Interrupt, UnreapedBound
<1>10. CASE Children
  <2>1. PICK c \in DOMAIN procs : Exec(c) \/ Write(c) \/ Read(c) \/ Exit(c)
    BY <1>10 DEF Children
  <2>2. UNCHANGED <<pc, running, pipelineProcessor>>
    BY <2>1 DEF Exec, Write, Read, Exit, shellVars
  <2>3. /\ Len(procs') = Len(procs) /\ DOMAIN procs' = DOMAIN procs
        /\ procs[c].st # "reaped"
        /\ \A d \in DOMAIN procs \ {c} : procs'[d] = procs[d]
    BY <2>1, ChildStepUnreaped
  <2>4. ASSUME NEW d \in DOMAIN procs', procs'[d].st # "reaped"
        PROVE  d \in DOMAIN procs /\ procs[d].st # "reaped"
    BY <2>3, <2>4
  <2> QED
    BY <2>2, <2>3, <2>4 DEF UnreapedBound
<1>11. CASE UNCHANGED vars
  BY <1>11, UnreapedStutter DEF vars, shellVars
<1> QED
  BY <1>1, <1>2, <1>3, <1>4, <1>5, <1>6, <1>7, <1>8, <1>9, <1>10, <1>11
     DEF Next, Shell, User, Terminated

\* While the shell runs, every child that is not reaped is one of the two it
\* remembers in pipelineProcessor or the one it has just forked, whatever the
\* lines are and in whatever order the children end (cmdHandler.cpp:58-78).
THEOREM ZombiesAreBounded == Spec => []UnreapedBound
<1>1. Init => UnreapedBound
  BY DEF Init, UnreapedBound
<1> QED
  BY <1>1, TypeInit, TypeNext, UnreapedNext, PTL DEF Spec

-----------------------------------------------------------------------------
(* The pipes.  The theorems of this part are about the command lines the   *)
(* project's specification describes, and about the first turn of the ring *)
(* (BeforeWrap).  Their inductive invariant says, for every place of       *)
(* runShell, which pipe each stored pair of descriptor numbers stands for, *)
(* which children are on that pipe, and that nothing else is open.         *)

\* The child forked last.
Last == procs[Len(procs)]

\* The shell will not use its descriptors again.
Over == \/ pc \in {"exited", "failed"}
        \/ pc = "loop" /\ queue = << >> /\ ~running

\* The shell is inside the commands of a line, one of which it has forked.
MidLine == pc \in {"wait", "end"} \/ (pc = "cmd" /\ pos > 1)

\* It has forked a command of the line and not popped the line.
Forked == MidLine \/ pc \in {"waitlast", "readEOF"}

\* p holds both ends of pipe id in the shell's table.
Owns(p, id) == /\ p.in \in Fds /\ p.out \in Fds
               /\ fdt[p.in] = R(id) /\ fdt[p.out] = W(id)

\* The children in ws, and nobody else, write to pipe id; nobody reads it yet.
Fed(id, ws) == /\ \A a \in DOMAIN procs : procs[a].out = W(id) <=> a \in ws
               /\ \A b \in DOMAIN procs : procs[b].in # R(id)

\* p is the pipe the children in ws write to; for no children there is no pipe.
Piped(p, ws) == \E id \in DOMAIN data : Owns(p, id) /\ Fed(id, ws)
Feeds(p, ws) == (ws = {} /\ p = NoPipe) \/ (ws # {} /\ Piped(p, ws))

\* p is in the slot of a line to come.
Ahead(p) == \E k \in lineno + 1 .. Size : p = buffer[k % Size]

\* Every descriptor is open on a file or on an end of a pipe that exists, and
\* no end of a pipe is open twice.
Table ==
    /\ \A f \in Fds : \/ fdt[f] = Closed \/ fdt[f] = File
                      \/ \E i \in DOMAIN data : fdt[f] = R(i) \/ fdt[f] = W(i)
    /\ \A i \in DOMAIN data : \A f, g \in Fds :
         /\ fdt[f] = R(i) /\ fdt[g] = R(i) => f = g
         /\ fdt[f] = W(i) /\ fdt[g] = W(i) => f = g

\* What the standard descriptors of a child can be, given its connector.
KidEnds ==
    \A c \in DOMAIN procs :
        /\ procs[c].in = Tty \/ \E i \in DOMAIN data : procs[c].in = R(i)
        /\ \/ /\ procs[c].cmd.conn \in {"END", "FILE_CMD"}
              /\ procs[c].out = Tty \/ procs[c].out = File
           \/ /\ procs[c].cmd.conn \in {"PIPE", "NUMBERED_PIPE"}
              /\ \E i \in DOMAIN data : procs[c].out = W(i)

\* Each place in a command line is taken by one child.
KidOrder ==
    /\ \A c \in DOMAIN procs : procs[c].line <= lineno /\ procs[c].pos >= 1
    /\ \A c, d \in DOMAIN procs :
         procs[c].line = procs[d].line /\ procs[c].pos = procs[d].pos => c = d

\* pipelineProcessor holds the children forked last.
Pids ==
    /\ pc = "wait" => pipelineProcessor[2] + 1 = Len(procs) /\ pipelineProcessor[1] < Len(procs)
    /\ pc # "wait" => pipelineProcessor[2] = Len(procs) /\ pipelineProcessor[1] <= Len(procs)

\* How far the shell is in the line, and which command it has forked last.
Progress ==
    /\ pc = "cmd" => \A c \in DOMAIN procs : procs[c].line = lineno => procs[c].pos < pos
    /\ pc = "wait" => \A c \in DOMAIN procs : procs[c].line = lineno => procs[c].pos <= pos
    /\ Forked => procs # << >> /\ Last.line = lineno
    /\ pc = "cmd" /\ pos > 1 => Last.pos = pos - 1 /\ Last.cmd.conn = "PIPE"
    /\ pc = "wait" => Last.pos = pos /\ Last.cmd = Command
    /\ pc \in {"end", "waitlast", "readEOF"} => Last.cmd = Head(queue)[Len(Head(queue))]
    /\ pc = "waitlast" => Last.cmd.conn # "NUMBERED_PIPE"
    /\ pc = "readEOF" => Last.cmd.conn = "NUMBERED_PIPE"
    /\ pc = "getline" => queue = << >>
    /\ \A q \in DOMAIN queue : ProperCommandLine(queue[q])

\* prevPipe is the pipe that the child forked last reads.
Prev ==
    \/ prevPipe = NoPipe
    \/ MidLine /\ \E id \in DOMAIN data : Owns(prevPipe, id) /\ Last.in = R(id)

\* currPipe is the pipe the next command will read and the child forked last
\* writes to, if any; between lines, it is empty or in the ring.
Curr ==
    /\ pc \in {"getline", "loop"} => currPipe = NoPipe \/ Ahead(currPipe)
    /\ pc = "cmd" /\ pos = 1 => Feeds(currPipe, DueAt(lineno))
    /\ Forked /\ Last.cmd.conn = "PIPE" => Piped(currPipe, {Len(procs)})
    /\ Forked /\ Last.cmd.conn = "FILE_CMD" =>
         currPipe = NoPipe \/ (currPipe.in = -1 /\ currPipe.out \in Fds /\ fdt[currPipe.out] = File)
    /\ Forked /\ Last.cmd.conn = "NUMBERED_PIPE" => Ahead(currPipe)
    /\ MidLine /\ Last.cmd.conn = "END" => currPipe = prevPipe
    /\ pc = "waitlast" /\ Last.cmd.conn = "END" =>
         At(fdt, currPipe.in) = Closed /\ At(fdt, currPipe.out) = Closed

\* eol is a pipe of its own, whose write end the line's children inherit.
EolOpen(id) ==
    /\ Fed(id, {})
    /\ eol.in \in Fds /\ fdt[eol.in] = R(id)
    /\ pc # "readEOF" => eol.out \in Fds /\ fdt[eol.out] = W(id)
    /\ \A c \in DOMAIN procs :
         procs[c].line = lineno /\ procs[c].st = "forked" => W(id) \in procs[c].inh
Eol == pc \in {"cmd", "wait", "end", "readEOF"} => \E id \in DOMAIN data : EolOpen(id)

\* The slot of each line to come has the pipe of the children piped to it.
Ring ==
    /\ head = lineno % Size
    /\ \A k \in lineno + 1 .. Size : Feeds(buffer[k % Size], DueAt(k))

\* f is one of the two numbers of p.
InUse(p, f) == f = p.in \/ f = p.out

\* A file, and a pipe that a child writes to, is open only as currPipe or
\* prevPipe or for a line to come.
HeldFile ==
    \A f \in Fds : fdt[f] = File => /\ MidLine \/ pc = "waitlast"
                                    /\ Last.cmd.conn = "FILE_CMD" /\ f = currPipe.out
HeldOut ==
    \A c \in DOMAIN procs : \A i \in DOMAIN data : \A f \in Fds :
        procs[c].out = W(i) /\ (fdt[f] = R(i) \/ fdt[f] = W(i)) =>
            \/ procs[c].cmd.conn = "NUMBERED_PIPE" /\ procs[c].line + procs[c].cmd.n > lineno
            \/ InUse(prevPipe, f) \/ InUse(currPipe, f)

\* A pipe that a child reads is open only as prevPipe, right after its fork.
HeldIn ==
    \A c \in DOMAIN procs : \A i \in DOMAIN data : \A f \in Fds :
        procs[c].in = R(i) /\ (fdt[f] = R(i) \/ fdt[f] = W(i)) =>
            c = Len(procs) /\ InUse(prevPipe, f)

\* A child that does not write to a pipe is reaped before the line is over.
Drained ==
    running => \A c \in DOMAIN procs :
        procs[c].st # "reaped" /\ procs[c].cmd.conn \in {"END", "FILE_CMD"} =>
            c = Len(procs) /\ pc \in {"wait", "end", "waitlast"}

\* A pipe that a live child writes to has had a reader or is held by the shell.
Readable ==
    running => \A c \in DOMAIN procs : \A i \in DOMAIN data :
        Alive(c) /\ procs[c].out = W(i) =>
            \/ \E b \in DOMAIN procs : procs[b].in = R(i)
            \/ \E f \in Fds : fdt[f] = R(i)

\* After a numbered line its children have left the state they were forked in.
Synced ==
    (/\ running /\ pc \in {"loop", "getline"}
     /\ procs # << >> /\ Last.cmd.conn = "NUMBERED_PIPE")
    => \A c \in DOMAIN procs : procs[c].line = lineno => procs[c].st # "forked"

\* What holds of the children, and of the shell as long as it uses them.
KidsInv == KidEnds /\ KidOrder /\ Pids /\ PipelineWiring /\ NumberedPipeDelivery
ShellInv == /\ Table /\ Progress /\ Prev /\ Curr /\ Eol /\ Ring
            /\ HeldFile /\ HeldOut /\ HeldIn /\ Drained /\ Readable /\ Synced

WiringInv == BeforeWrap => KidsInv /\ (~Over => ShellInv)

\* The objects descriptors are open on are told apart.
LEMMA ObjectFacts ==
    /\ \A i, j : R(i) # W(j) /\ (R(i) = R(j) => i = j) /\ (W(i) = W(j) => i = j)
    /\ \A i : /\ R(i) # Closed /\ R(i) # File /\ R(i) # Tty
              /\ W(i) # Closed /\ W(i) # File /\ W(i) # Tty
              /\ R(i).end = "r" /\ R(i).id = i /\ W(i).end = "w" /\ W(i).id = i
    /\ File # Closed /\ Tty # Closed /\ File # Tty
    /\ Tty.end = "tty" /\ File.end = "file"
BY DEF R, W, Closed, File, Tty

\* The slots of the first turn of the ring are different.
LEMMA RingSlots ==
    /\ \A k \in 1 .. Size : k % Size \in 0 .. Size - 1
    /\ \A k \in 0 .. Size - 1 : k % Size = k
    /\ \A j, k \in 1 .. Size : j % Size = k % Size => j = k
<1>1. \A k \in 0 .. Size - 1 : k % Size = k
  BY SizeAssumption, SMTT(30)
<1>2. Size % Size = 0
  BY SizeAssumption, SMTT(30)
<1>3. \A k \in 1 .. Size : k = Size \/ k \in 0 .. Size - 1
  BY SizeAssumption
<1>4. \A k \in 1 .. Size : k % Size = IF k = Size THEN 0 ELSE k
  BY <1>1, <1>2, <1>3, SizeAssumption
<1> HIDE DEF R
<1> QED
  BY <1>1, <1>4, SizeAssumption

\* What closePipe leaves in a table, and what it closes.
LEMMA CloseFacts ==
    ASSUME NEW t, NEW p
    PROVE  /\ ClosePipe(t, p) \in [Fds -> {Closed} \cup {t[f] : f \in Fds}]
           /\ \A f \in Fds : /\ InUse(p, f) => ClosePipe(t, p)[f] = Closed
                             /\ ~InUse(p, f) => ClosePipe(t, p)[f] = t[f]
BY DEF ClosePipe, InUse

\* No descriptor is one of the numbers of an empty pipe.
LEMMA NoPipeUnused == \A f \in Fds : ~InUse(NoPipe, f)
BY FdLimitAssumption DEF InUse, NoPipe, Fds

-----------------------------------------------------------------------------
(* Steps that fork nobody: a child runs, or is reaped.                     *)

\* The children keep their places and standard descriptors; none goes back to
\* an earlier state, and one that has not called exec() still has what it
\* inherited.
Calm ==
    /\ DOMAIN procs' = DOMAIN procs /\ Len(procs') = Len(procs)
    /\ \A c \in DOMAIN procs :
         /\ procs'[c].line = procs[c].line /\ procs'[c].pos = procs[c].pos
         /\ procs'[c].cmd = procs[c].cmd
         /\ procs'[c].in = procs[c].in /\ procs'[c].out = procs[c].out
         /\ procs'[c].err = procs[c].err
         /\ procs'[c].st = "forked" => procs[c].st = "forked" /\ procs'[c].inh = procs[c].inh
         /\ procs'[c].st # "reaped" => procs[c].st # "reaped"
         /\ procs'[c].st \in {"forked", "running"} => procs[c].st \in {"forked", "running"}

\* A step without any child is calm.
LEMMA SameIsCalm == UNCHANGED procs => Calm
BY DEF Calm

\* Replacing fields of a child other than its place and descriptors.
LEMMA UpdateIsCalm ==
    ASSUME TypeOK, NEW c \in DOMAIN procs, NEW v \in Procs, procs' = [procs EXCEPT ![c] = v],
           v.line = procs[c].line, v.pos = procs[c].pos, v.cmd = procs[c].cmd,
           v.in = procs[c].in, v.out = procs[c].out, v.err = procs[c].err,
           v.st = "forked" => procs[c].st = "forked" /\ v.inh = procs[c].inh,
           v.st # "reaped" => procs[c].st # "reaped",
           v.st \in {"forked", "running"} => procs[c].st \in {"forked", "running"}
    PROVE  Calm
<1>1. procs \in Seq(Procs)
  BY DEF TypeOK
<1>2. DOMAIN procs' = DOMAIN procs /\ Len(procs') = Len(procs)
  BY <1>1, SeqExcept
<1>3. procs'[c] = v /\ \A d \in DOMAIN procs \ {c} : procs'[d] = procs[d]
  BY <1>1
<1> QED
  BY <1>2, <1>3 DEF Calm

\* waitpid(c) is calm, and afterwards c is reaped.
LEMMA WaitpidIsCalm ==
    ASSUME TypeOK, NEW c, Waitpid(c)
    PROVE  Calm /\ (c \in DOMAIN procs => procs'[c].st = "reaped")
<1>1. CASE (c \in DOMAIN procs => procs[c].st = "reaped") /\ UNCHANGED procs
  BY <1>1, SameIsCalm
<1>2. CASE /\ c \in DOMAIN procs /\ procs[c].st = "zombie"
           /\ procs' = [procs EXCEPT ![c].st = "reaped"]
  <2> DEFINE v == [procs[c] EXCEPT !.st = "reaped"]
  <2>1. procs[c] \in Procs
    BY <1>2 DEF TypeOK
  <2>2. /\ v \in Procs /\ v.line = procs[c].line /\ v.pos = procs[c].pos
        /\ v.cmd = procs[c].cmd /\ v.in = procs[c].in /\ v.out = procs[c].out
        /\ v.err = procs[c].err /\ v.st = "reaped"
    BY <2>1 DEF Procs
  <2>3. procs' = [procs EXCEPT ![c] = v]
    BY <1>2
  <2> HIDE DEF v
  <2>4. Calm
    BY <1>2, <2>2, <2>3, UpdateIsCalm
  <2>5. procs'[c] = v
    BY <1>2, <2>3 DEF TypeOK
  <2> QED
    BY <2>2, <2>4, <2>5
<1> QED
  BY <1>1, <1>2 DEF Waitpid

\* A step of a child is calm and creates no pipe.
LEMMA ChildIsCalm ==
    ASSUME TypeOK, NEW c \in DOMAIN procs, Exec(c) \/ Write(c) \/ Read(c) \/ Exit(c)
    PROVE  Calm /\ DOMAIN data' = DOMAIN data
<1>1. procs[c] \in Procs
  BY DEF TypeOK
<1>2. procs[c].left \in Nat
  BY <1>1 DEF Procs
<1>3. DOMAIN data' = DOMAIN data
  BY DEF Exec, Write, Read, Exit
<1>4. CASE Exec(c)
  <2>1. PICK s \in {"zombie", "running"} :
             procs' = [procs EXCEPT ![c].st = s, ![c].inh = {}]
    BY <1>4 DEF Exec, SurvivesExec
  <2> DEFINE v == [procs[c] EXCEPT !.st = s, !.inh = {}]
  <2>2. /\ v \in Procs /\ v.line = procs[c].line /\ v.pos = procs[c].pos
        /\ v.cmd = procs[c].cmd /\ v.in = procs[c].in /\ v.out = procs[c].out
        /\ v.err = procs[c].err /\ v.st = s
    BY <1>1 DEF Procs
  <2>3. procs' = [procs EXCEPT ![c] = v]
    BY <2>1
  <2>4. procs[c].st = "forked"
    BY <1>4 DEF Exec
  <2> HIDE DEF v
  <2> QED
    BY <1>3, <2>2, <2>3, <2>4, UpdateIsCalm
<1>5. ASSUME procs[c].st \in {"forked", "running"},
             \/ procs' = [procs EXCEPT ![c].left = @ - 1] /\ procs[c].left > 0
             \/ procs' = [procs EXCEPT ![c].left = 1]
             \/ procs' = [procs EXCEPT ![c].st = "zombie", ![c].killed = TRUE]
             \/ procs' = [procs EXCEPT ![c].st = "zombie"]
      PROVE  Calm
  <2>1. PICK v \in Procs : /\ procs' = [procs EXCEPT ![c] = v]
                           /\ v.line = procs[c].line /\ v.pos = procs[c].pos
                           /\ v.cmd = procs[c].cmd /\ v.in = procs[c].in
                           /\ v.out = procs[c].out /\ v.err = procs[c].err
                           /\ v.inh = procs[c].inh /\ v.st \in {procs[c].st, "zombie"}
    <3> DEFINE v1 == [procs[c] EXCEPT !.left = @ - 1]
               v2 == [procs[c] EXCEPT !.left = 1]
               v3 == [procs[c] EXCEPT !.st = "zombie", !.killed = TRUE]
               v4 == [procs[c] EXCEPT !.st = "zombie"]
               Same(v) == /\ v.line = procs[c].line /\ v.pos = procs[c].pos
                          /\ v.cmd = procs[c].cmd /\ v.in = procs[c].in
                          /\ v.out = procs[c].out /\ v.err = procs[c].err
                          /\ v.inh = procs[c].inh /\ v.st \in {procs[c].st, "zombie"}
    <3>1. procs[c].left > 0 => v1 \in Procs
      BY <1>1, <1>2 DEF Procs
    <3>2. v2 \in Procs /\ v3 \in Procs /\ v4 \in Procs
      BY <1>1 DEF Procs
    <3>3. Same(v1) /\ Same(v2) /\ Same(v3) /\ Same(v4)
      BY <1>1, <1>5 DEF Procs
    <3>4. \/ procs[c].left > 0 /\ procs' = [procs EXCEPT ![c] = v1]
          \/ procs' = [procs EXCEPT ![c] = v2]
          \/ procs' = [procs EXCEPT ![c] = v3]
          \/ procs' = [procs EXCEPT ![c] = v4]
      BY <1>5
    <3> HIDE DEF v1, v2, v3, v4
    <3> QED
      BY <3>1, <3>2, <3>3, <3>4
  <2> QED
    BY <1>5, <2>1, UpdateIsCalm
<1> QED
  BY <1>3, <1>4, <1>5 DEF Write, Read, Exit, Failed

\* The fields of a child have their types.
LEMMA KidTypes ==
    ASSUME TypeOK, NEW c \in DOMAIN procs
    PROVE  /\ procs[c].line \in Nat /\ procs[c].pos \in Nat
           /\ procs[c].cmd \in Commands /\ procs[c].cmd.n \in Nat
           /\ c \in 1 .. Len(procs) /\ Len(procs) \in Nat /\ DOMAIN procs = 1 .. Len(procs)
<1>1. procs[c] \in Procs /\ procs \in Seq(Procs)
  BY DEF TypeOK
<1>2. procs[c].line \in Nat /\ procs[c].pos \in Nat /\ procs[c].cmd \in Commands
  BY <1>1 DEF Procs
<1>3. procs[c].cmd.n \in Nat
  BY <1>2 DEF Commands
<1> QED
  BY <1>1, <1>2, <1>3

-----------------------------------------------------------------------------
(* What calm steps keep.                                                   *)

\* The pipes' writers and readers are the same after a calm step.
LEMMA CalmFed ==
    ASSUME Calm
    PROVE  /\ \A id, ws : Fed(id, ws) => Fed(id, ws)'
           /\ \A k : DueAt(k)' = DueAt(k)
<1>1. ASSUME NEW id, NEW ws, Fed(id, ws) PROVE Fed(id, ws)'
  BY <1>1 DEF Calm, Fed
<1>2. ASSUME NEW k PROVE DueAt(k)' = DueAt(k)
  BY DEF Calm, DueAt
<1> QED
  BY <1>1, <1>2

\* BeforeWrap, once lost, does not come back.
LEMMA CalmWrap ==
    ASSUME TypeOK, Calm, lineno' \in Nat, lineno <= lineno', BeforeWrap'
    PROVE  BeforeWrap
<1>1. lineno \in Nat /\ Size \in Nat
  BY SizeAssumption DEF TypeOK
<1>2. lineno <= Size
  BY <1>1 DEF BeforeWrap
<1>3. ASSUME NEW c \in DOMAIN procs, procs[c].cmd.conn = "NUMBERED_PIPE"
      PROVE  procs[c].line + procs[c].cmd.n <= Size
  BY <1>3 DEF BeforeWrap, Calm
<1> QED
  BY <1>2, <1>3 DEF BeforeWrap

\* What is known of the children's descriptors and places stays true.
LEMMA CalmKids ==
    ASSUME TypeOK, Calm, BeforeWrap, lineno' \in Nat, lineno <= lineno',
           DOMAIN data \subseteq DOMAIN data',
           KidEnds, KidOrder, PipelineWiring, NumberedPipeDelivery
    PROVE  KidEnds' /\ KidOrder' /\ PipelineWiring' /\ NumberedPipeDelivery'
<1>1. KidEnds'
  BY DEF KidEnds, Calm
<1>2. KidOrder'
  <2>1. \A c \in DOMAIN procs : procs[c].line \in Nat
    BY KidTypes
  <2>2. lineno \in Nat
    BY DEF TypeOK
  <2>3. \A c \in DOMAIN procs' : procs'[c].line <= lineno' /\ procs'[c].pos >= 1
    BY <2>1, <2>2 DEF KidOrder, Calm
  <2>4. \A c, d \in DOMAIN procs' :
         procs'[c].line = procs'[d].line /\ procs'[c].pos = procs'[d].pos => c = d
    BY DEF KidOrder, Calm
  <2> QED
    BY <2>3, <2>4 DEF KidOrder
<1>3. PipelineWiring'
  <2> SUFFICES ASSUME NEW a \in DOMAIN procs', NEW b \in DOMAIN procs',
                      procs'[a].cmd.conn = "PIPE", procs'[a].line = procs'[b].line,
                      procs'[b].pos = procs'[a].pos + 1
               PROVE  /\ procs'[a].out = W(procs'[b].in.id) /\ procs'[b].in.end = "r"
                      /\ \A c \in DOMAIN procs' : /\ procs'[c].out = procs'[a].out => c = a
                                                  /\ procs'[c].in = procs'[b].in => c = b
    BY DEF PipelineWiring
  <2>1. a \in DOMAIN procs /\ b \in DOMAIN procs
    BY DEF Calm
  <2>2. /\ procs[a].cmd.conn = "PIPE" /\ procs[a].line = procs[b].line
        /\ procs[b].pos = procs[a].pos + 1
    BY <2>1 DEF Calm
  <2>3. /\ procs[a].out = W(procs[b].in.id) /\ procs[b].in.end = "r"
        /\ \A c \in DOMAIN procs : /\ procs[c].out = procs[a].out => c = a
                                   /\ procs[c].in = procs[b].in => c = b
    BY <2>1, <2>2 DEF PipelineWiring
  <2> QED
    BY <2>1, <2>3 DEF Calm
<1>4. NumberedPipeDelivery'
  <2> SUFFICES ASSUME NEW b \in DOMAIN procs', procs'[b].pos = 1
               PROVE  ReadsFrom(b, DueAt(procs[b].line))'
    BY DEF NumberedPipeDelivery
  <2>1. b \in DOMAIN procs /\ procs[b].pos = 1 /\ procs'[b].line = procs[b].line
    BY DEF Calm
  <2>2. ReadsFrom(b, DueAt(procs[b].line))
    BY <2>1 DEF NumberedPipeDelivery
  <2>3. DueAt(procs[b].line)' = DueAt(procs[b].line)
    BY <2>1, CalmFed DEF DueAt
  <2>4. /\ procs'[b].in = procs[b].in
        /\ {a \in DOMAIN procs' : procs'[a].out = W(procs'[b].in.id)} =
           {a \in DOMAIN procs : procs[a].out = W(procs[b].in.id)}
    BY <2>1 DEF Calm
  <2> QED
    BY <2>2, <2>3, <2>4 DEF ReadsFrom
<1> QED
  BY <1>1, <1>2, <1>3, <1>4

\* What a calm step that touches neither descriptors nor ring keeps.
LEMMA UnmovedFacts ==
    ASSUME Calm, DOMAIN data' = DOMAIN data,
           UNCHANGED <<fdt, buffer, head, currPipe, prevPipe, eol, lineno>>,
           Table, Ring, HeldIn
    PROVE  /\ Table' /\ Ring' /\ HeldIn'
           /\ \A ws : Piped(currPipe, ws) => Piped(currPipe, ws)'
           /\ \A ws : Feeds(currPipe, ws) => Feeds(currPipe, ws)'
           /\ Ahead(currPipe) => Ahead(currPipe)'
           /\ \A id : Owns(prevPipe, id) => Owns(prevPipe, id)'
<1>1. Table'
  BY DEF Table
<1>2. HeldIn'
  BY DEF HeldIn, Calm, InUse
<1>3. ASSUME NEW p, NEW ws, Piped(p, ws) PROVE Piped(p, ws)'
  <2>1. PICK id \in DOMAIN data : Owns(p, id) /\ Fed(id, ws)
    BY <1>3 DEF Piped
  <2>2. Fed(id, ws)'
    BY <2>1, CalmFed
  <2>3. Owns(p, id)'
    BY <2>1 DEF Owns
  <2> QED
    BY <2>2, <2>3 DEF Piped
<1>4. ASSUME NEW p, NEW ws, Feeds(p, ws) PROVE Feeds(p, ws)'
  BY <1>3, <1>4 DEF Feeds
<1>5. Ring'
  <2>1. head' = lineno' % Size
    BY DEF Ring
  <2>2. ASSUME NEW k \in lineno + 1 .. Size PROVE Feeds(buffer[k % Size], DueAt(k))'
    <3>1. PICK p, ws : p = buffer[k % Size] /\ ws = DueAt(k)
      OBVIOUS
    <3>2. Feeds(p, ws)
      BY <3>1 DEF Ring
    <3>3. Feeds(p, ws)'
      BY <3>2, <1>4
    <3>4. buffer'[k % Size] = p /\ DueAt(k)' = ws
      BY <3>1, CalmFed
    <3> QED
      BY <3>3, <3>4 DEF Feeds, Piped, Owns, Fed
  <2> QED
    BY <2>1, <2>2 DEF Ring
<1>6. ASSUME NEW ws, Piped(currPipe, ws) PROVE Piped(currPipe, ws)'
  <2>1. PICK p : p = currPipe
    OBVIOUS
  <2>2. Piped(p, ws)'
    BY <1>3, <1>6, <2>1 
  <2> QED
    BY <2>1, <2>2 DEF Piped, Owns
<1>7. ASSUME NEW ws, Feeds(currPipe, ws) PROVE Feeds(currPipe, ws)'
  BY <1>6, <1>7 DEF Feeds
<1>8. Ahead(currPipe) => Ahead(currPipe)'
  BY DEF Ahead
<1>9. ASSUME NEW id, Owns(prevPipe, id) PROVE Owns(prevPipe, id)'
  BY <1>9 DEF Owns
<1> QED
  BY <1>1, <1>2, <1>5, <1>6, <1>7, <1>8, <1>9

\* The child forked last is the same after a calm step.
LEMMA CalmLast ==
    ASSUME TypeOK, Calm
    PROVE  /\ procs' # << >> => procs # << >>
           /\ procs # << >> =>
                /\ procs' # << >> /\ Len(procs) \in DOMAIN procs
                /\ Last'.line = Last.line /\ Last'.pos = Last.pos /\ Last'.cmd = Last.cmd
                /\ Last'.in = Last.in /\ Last'.out = Last.out
<1>1. procs \in Seq(Procs)
  BY DEF TypeOK
<1>2. procs # << >> => Len(procs) \in DOMAIN procs
  BY <1>1
<1>3. procs # << >> => procs' # << >>
  BY <1>2 DEF Calm
<1>4. procs' # << >> => procs # << >>
  <2>1. SUFFICES ASSUME procs = << >>, procs' # << >> PROVE FALSE
    OBVIOUS
  <2>2. DOMAIN procs' = {} /\ Len(procs') = 0
    BY <1>1, <2>1 DEF Calm
  <2> QED
    BY <2>1, <2>2
<1> QED
  BY <1>2, <1>3, <1>4 DEF Calm, Last

\* The parts of the invariant about the children's states after a calm step
\* that does not move the shell.
LEMMA CalmStates ==
    ASSUME TypeOK, Calm, running' => running, pc' = pc, lineno' = lineno,
           DOMAIN data' = DOMAIN data, fdt' = fdt,
           Drained, Readable, Synced
    PROVE  Drained' /\ Readable' /\ Synced'
<1>1. Drained'
  BY DEF Drained, Calm
<1>2. Readable'
  BY DEF Readable, Calm, Alive
<1>3. Synced'
  BY CalmLast DEF Synced, Calm
<1> QED
  BY <1>1, <1>2, <1>3

\* Calm steps that leave the shell where it is, like those of the children.
LEMMA StayShell ==
    ASSUME TypeInv, ShellInv, Calm, DOMAIN data' = DOMAIN data, running' => running,
           UNCHANGED <<pc, queue, pos, fdt, buffer, head, currPipe, prevPipe, eol, lineno>>
    PROVE  ShellInv'
<1> USE DEF TypeInv, ShellInv
<1>1. /\ Table' /\ Ring' /\ HeldIn'
      /\ \A ws : Piped(currPipe, ws) => Piped(currPipe, ws)'
      /\ \A ws : Feeds(currPipe, ws) => Feeds(currPipe, ws)'
      /\ Ahead(currPipe) => Ahead(currPipe)'
      /\ \A id : Owns(prevPipe, id) => Owns(prevPipe, id)'
  BY UnmovedFacts
<1>2. MidLine' = MidLine /\ Forked' = Forked
  BY DEF MidLine, Forked
<1>3. Forked => /\ procs # << >> /\ procs' # << >> /\ Last'.line = Last.line
                /\ Last'.pos = Last.pos /\ Last'.cmd = Last.cmd /\ Last'.in = Last.in
  BY CalmLast DEF Progress
<1>4. Progress'
  <2>1. pc' = "cmd" => \A c \in DOMAIN procs' : procs'[c].line = lineno' => procs'[c].pos < pos'
    BY DEF Progress, Calm
  <2>2. pc' = "wait" => \A c \in DOMAIN procs' : procs'[c].line = lineno' => procs'[c].pos <= pos'
    BY DEF Progress, Calm
  <2>3. \A q \in DOMAIN queue' : ProperCommandLine(queue'[q])
    BY DEF Progress
  <2>4. pc \in {"cmd", "wait", "end", "waitlast", "readEOF"} /\ (pc = "cmd" => pos > 1) => Forked
    BY DEF Forked, MidLine
  <2>5. Command' = Command
    BY DEF Command
  <2> QED
    BY <1>2, <1>3, <2>1, <2>2, <2>3, <2>4, <2>5 DEF Progress
<1>5. Prev'
  BY <1>1, <1>2, <1>3 DEF Prev, Forked
<1>6. Curr'
  <2>1. pc \in {"getline", "loop"} => currPipe' = NoPipe \/ Ahead(currPipe)'
    BY <1>1 DEF Curr
  <2>2. pc = "cmd" /\ pos = 1 => Feeds(currPipe, DueAt(lineno))'
    <3>1. PICK ws : ws = DueAt(lineno)
      OBVIOUS
    <3>2. DueAt(lineno)' = ws
      BY <3>1, CalmFed DEF DueAt
    <3>3. pc = "cmd" /\ pos = 1 => Feeds(currPipe, ws)'
      BY <1>1, <3>1 DEF Curr
    <3> QED
      BY <3>2, <3>3 DEF Feeds, Piped, Fed
  <2>3. Forked /\ Last.cmd.conn = "PIPE" => Piped(currPipe, {Len(procs)})'
    <3>1. PICK ws : ws = {Len(procs)}
      OBVIOUS
    <3>2. {Len(procs)}' = ws
      BY <3>1 DEF Calm
    <3>3. Forked /\ Last.cmd.conn = "PIPE" => Piped(currPipe, ws)'
      BY <1>1, <3>1 DEF Curr
    <3> QED
      BY <3>2, <3>3 DEF Piped, Fed
  <2>4. Forked /\ Last.cmd.conn = "NUMBERED_PIPE" => Ahead(currPipe)'
    BY <1>1 DEF Curr
  <2>5. MidLine => Forked
    BY DEF Forked
  <2>6. pc = "waitlast" => Forked
    BY DEF Forked
  <2>7. At(fdt, currPipe.in)' = At(fdt, currPipe.in) /\ At(fdt, currPipe.out)' = At(fdt, currPipe.out)
    BY DEF At
  <2> QED
    BY <1>2, <1>3, <2>1, <2>2, <2>3, <2>4, <2>5, <2>6, <2>7 DEF Curr
<1>7. Eol'
  <2> SUFFICES ASSUME NEW id \in DOMAIN data, EolOpen(id) PROVE EolOpen(id)'
    BY DEF Eol
  <2>1. Fed(id, {})'
    BY CalmFed DEF EolOpen
  <2>2. ASSUME NEW c \in DOMAIN procs', procs'[c].line = lineno', procs'[c].st = "forked"
        PROVE  W(id) \in procs'[c].inh
    BY <2>2 DEF EolOpen, Calm
  <2> QED
    BY <2>1, <2>2 DEF EolOpen
<1>8. HeldFile'
  BY <1>2, <1>3 DEF HeldFile, Forked
<1>9. HeldOut'
  BY DEF HeldOut, Calm, InUse
<1>10. Drained' /\ Readable' /\ Synced'
  BY CalmStates
<1> QED
  BY <1>1, <1>4, <1>5, <1>6, <1>7, <1>8, <1>9, <1>10

\* Between lines: getline, the prompt and what interrupts them.
LEMMA IdleShell ==
    ASSUME TypeInv, ShellInv, UNCHANGED procs, DOMAIN data' = DOMAIN data, running' => running,
           UNCHANGED <<fdt, buffer, head, currPipe, prevPipe, eol, lineno>>,
           pc \in {"getline", "loop"}, pc' \in {"getline", "loop"},
           pc' = "getline" => queue' = << >>,
           \A q \in DOMAIN queue' : ProperCommandLine(queue'[q])
    PROVE  ShellInv'
<1> USE DEF TypeInv, ShellInv
<1>0. Calm
  BY SameIsCalm
<1>1. /\ Table' /\ Ring' /\ HeldIn'
      /\ Ahead(currPipe) => Ahead(currPipe)'
  BY <1>0, UnmovedFacts
<1>2. ~MidLine /\ ~MidLine' /\ ~Forked /\ ~Forked'
  BY DEF MidLine, Forked
<1>3. Progress'
  BY <1>2 DEF Progress
<1>4. Prev'
  BY <1>2 DEF Prev
<1>5. Curr'
  BY <1>1, <1>2 DEF Curr
<1>6. Eol'
  BY DEF Eol
<1>7. HeldFile'
  BY <1>2 DEF HeldFile
<1>8. HeldOut'
  BY DEF HeldOut, InUse
<1>9. Drained'
  BY DEF Drained
<1>10. Readable'
  BY DEF Readable, Alive
<1>11. Synced'
  BY DEF Synced, Last
<1> QED
  BY <1>1, <1>3, <1>4, <1>5, <1>6, <1>7, <1>8, <1>9, <1>10, <1>11

-----------------------------------------------------------------------------
(* The shell's steps inside a command line.                                *)

\* The command line being run is one the theorems are about.
LEMMA ProperHead ==
    ASSUME TypeOK, Progress, queue # << >>
    PROVE  /\ Head(queue) \in Seq(Commands) \ {<< >>} /\ ProperCommandLine(Head(queue))
           /\ Len(Head(queue)) \in DOMAIN Head(queue) /\ DOMAIN Head(queue) = 1 .. Len(Head(queue))
           /\ \A q \in DOMAIN Tail(queue) : ProperCommandLine(Tail(queue)[q])
<1>1. queue \in Seq(Seq(Commands) \ {<< >>})
  BY DEF TypeOK
<1>2. 1 \in DOMAIN queue /\ Head(queue) = queue[1] /\ Head(queue) \in Seq(Commands) \ {<< >>}
  BY <1>1
<1>3. ProperCommandLine(queue[1])
  BY <1>2 DEF Progress
<1>4. ASSUME NEW q \in DOMAIN Tail(queue) PROVE ProperCommandLine(Tail(queue)[q])
  <2>1. q + 1 \in DOMAIN queue /\ Tail(queue)[q] = queue[q + 1]
    BY <1>1
  <2>2. ProperCommandLine(queue[q + 1])
    BY <2>1 DEF Progress
  <2> QED
    BY <2>1, <2>2
<1> QED
  BY <1>2, <1>3, <1>4

\* After the waitpid, or the signal, that follows a fork (cmdHandler.cpp:68-70).
LEMMA AfterWaitShell ==
    ASSUME TypeInv, ShellInv, Calm, AfterWait, running' => running
    PROVE  ShellInv'
<1> USE DEF TypeInv, ShellInv
<1>0. /\ pc = "wait" /\ pos' = pos + 1 /\ pc' = (IF pos < Len(Head(queue)) THEN "cmd" ELSE "end")
      /\ UNCHANGED <<queue, fdt, buffer, head, currPipe, prevPipe, eol, data, lineno>>
  BY DEF AfterWait, ring, pipes
<1>1. /\ Table' /\ Ring' /\ HeldIn'
      /\ \A ws : Piped(currPipe, ws) => Piped(currPipe, ws)'
      /\ Ahead(currPipe) => Ahead(currPipe)'
      /\ \A id : Owns(prevPipe, id) => Owns(prevPipe, id)'
  BY <1>0, UnmovedFacts
<1>2. /\ queue # << >> /\ pos \in 1 .. Len(Head(queue))
      /\ Head(queue) \in Seq(Commands) \ {<< >>} /\ ProperCommandLine(Head(queue))
  BY <1>0, ProperHead DEF Positions
<1>3. pos \in Nat /\ pos >= 1 /\ pos + 1 > 1
  BY <1>2
<1>4. MidLine /\ MidLine' /\ Forked /\ Forked' /\ pc' \in {"cmd", "end"}
  BY <1>0, <1>3 DEF MidLine, Forked
<1>5. /\ procs # << >> /\ procs' # << >> /\ Last'.line = Last.line
      /\ Last'.pos = Last.pos /\ Last'.cmd = Last.cmd /\ Last'.in = Last.in
      /\ Last.line = lineno /\ Last.pos = pos /\ Last.cmd = Command
  BY <1>0, <1>4, CalmLast DEF Progress
<1>6. pc' = "cmd" => Last.cmd.conn = "PIPE"
  BY <1>0, <1>2, <1>5 DEF Command, ProperCommandLine
<1>7. Progress'
  <2>1. pc' = "cmd" => \A c \in DOMAIN procs' : procs'[c].line = lineno' => procs'[c].pos < pos'
    <3> SUFFICES ASSUME NEW c \in DOMAIN procs', procs'[c].line = lineno' PROVE procs'[c].pos < pos'
      OBVIOUS
    <3>1. c \in DOMAIN procs /\ procs[c].line = lineno /\ procs'[c].pos = procs[c].pos
      BY <1>0 DEF Calm
    <3>2. procs[c].pos \in Nat /\ procs[c].pos <= pos
      BY <1>0, <3>1, KidTypes DEF Progress
    <3> QED
      BY <1>0, <1>3, <3>1, <3>2
  <2>2. \A q \in DOMAIN queue' : ProperCommandLine(queue'[q])
    BY <1>0 DEF Progress
  <2>3. pc' = "end" => Last'.cmd = Head(queue')[Len(Head(queue'))]
    BY <1>0, <1>2, <1>5 DEF Command
  <2>4. Last'.pos = pos' - 1
    BY <1>0, <1>3, <1>5
  <2>5. Last'.line = lineno'
    BY <1>0, <1>5
  <2> QED
    BY <1>4, <1>5, <1>6, <2>1, <2>2, <2>3, <2>4, <2>5 DEF Progress
<1>8. Prev'
  BY <1>0, <1>1, <1>4, <1>5 DEF Prev
<1>9. Curr'
  <2>1. Last.cmd.conn = "PIPE" => Piped(currPipe, {Len(procs)})'
    <3>1. PICK ws : ws = {Len(procs)}
      OBVIOUS
    <3>2. {Len(procs)}' = ws
      BY <3>1 DEF Calm
    <3>3. Last.cmd.conn = "PIPE" => Piped(currPipe, ws)'
      BY <1>1, <1>4, <3>1 DEF Curr
    <3> QED
      BY <3>2, <3>3 DEF Piped, Fed
  <2>2. pos' # 1
    BY <1>0, <1>3
  <2>3. Last.cmd.conn = "END" => currPipe' = prevPipe'
    BY <1>0, <1>4 DEF Curr
  <2>4. Last.cmd.conn = "NUMBERED_PIPE" => Ahead(currPipe)'
    BY <1>1, <1>4 DEF Curr
  <2>5. Last.cmd.conn = "FILE_CMD" =>
          currPipe' = NoPipe \/ (currPipe'.in = -1 /\ currPipe'.out \in Fds /\ fdt'[currPipe'.out] = File)
    BY <1>0, <1>4 DEF Curr
  <2> QED
    BY <1>4, <1>5, <2>1, <2>2, <2>3, <2>4, <2>5 DEF Curr
<1>10. Eol'
  <2>1. PICK id \in DOMAIN data : EolOpen(id)
    BY <1>0 DEF Eol
  <2>2. Fed(id, {})'
    BY <2>1, CalmFed DEF EolOpen
  <2>3. ASSUME NEW c \in DOMAIN procs', procs'[c].line = lineno', procs'[c].st = "forked"
        PROVE  W(id) \in procs'[c].inh
    BY <1>0, <2>1, <2>3 DEF EolOpen, Calm
  <2>4. EolOpen(id)'
    BY <1>0, <2>1, <2>2, <2>3 DEF EolOpen
  <2> QED
    BY <1>0, <2>4 DEF Eol
<1>11. HeldFile'
  BY <1>0, <1>4, <1>5 DEF HeldFile
<1>12. HeldOut'
  BY <1>0 DEF HeldOut, Calm, InUse
<1>13. Drained'
  <2> SUFFICES ASSUME running', NEW c \in DOMAIN procs', procs'[c].st # "reaped",
                      procs'[c].cmd.conn \in {"END", "FILE_CMD"}
               PROVE  c = Len(procs') /\ pc' = "end"
    BY <1>0 DEF Drained
  <2>1. /\ c \in DOMAIN procs /\ procs[c].st # "reaped" /\ procs'[c].cmd = procs[c].cmd
        /\ Len(procs') = Len(procs)
    BY DEF Calm
  <2>2. c = Len(procs)
    BY <2>1 DEF Drained
  <2> QED
    BY <1>4, <1>6, <2>1, <2>2 DEF Last
<1>14. Readable'
  BY <1>0 DEF Readable, Calm, Alive
<1>15. Synced'
  BY <1>4 DEF Synced
<1> QED
  BY <1>1, <1>7, <1>8, <1>9, <1>10, <1>11, <1>12, <1>13, <1>14, <1>15

\* The descriptors open on pipe id are left alone.
Keeps(id) == \A f \in Fds : fdt[f] = R(id) \/ fdt[f] = W(id) => fdt'[f] = fdt[f]

\* A pipe whose descriptors are left alone keeps its children.
LEMMA PipedKept ==
    ASSUME Calm, DOMAIN data \subseteq DOMAIN data', NEW p, NEW ws, Piped(p, ws),
           \A id \in DOMAIN data : Fed(id, ws) => Keeps(id)
    PROVE  Piped(p, ws)'
<1>1. PICK id \in DOMAIN data : Owns(p, id) /\ Fed(id, ws)
  BY DEF Piped
<1>2. Fed(id, ws)'
  BY <1>1, CalmFed
<1>3. Owns(p, id)'
  BY <1>1 DEF Owns, Keeps
<1> QED
  BY <1>1, <1>2, <1>3 DEF Piped

\* So does the ring.
LEMMA RingKept ==
    ASSUME Ring, Calm, DOMAIN data \subseteq DOMAIN data', UNCHANGED buffer,
           head' = lineno' % Size, lineno \in Nat, lineno' \in {lineno, lineno + 1},
           \A k \in lineno + 1 .. Size : \A id \in DOMAIN data :
               DueAt(k) # {} /\ Fed(id, DueAt(k)) => Keeps(id)
    PROVE  /\ Ring'
           /\ \A k \in lineno + 1 .. Size : Feeds(buffer[k % Size], DueAt(k))'
<1>1. ASSUME NEW k \in lineno + 1 .. Size PROVE Feeds(buffer[k % Size], DueAt(k))'
  <2>1. PICK p, ws : p = buffer[k % Size] /\ ws = DueAt(k)
    OBVIOUS
  <2>2. Feeds(p, ws)
    BY <2>1 DEF Ring
  <2>3. Feeds(p, ws)'
    <3>1. CASE ws = {} /\ p = NoPipe
      BY <3>1 DEF Feeds
    <3>2. CASE ws # {} /\ Piped(p, ws)
      <4>1. \A id \in DOMAIN data : Fed(id, ws) => Keeps(id)
        BY <2>1, <3>2
      <4>2. Piped(p, ws)'
        BY <3>2, <4>1, PipedKept
      <4> QED
        BY <3>2, <4>2 DEF Feeds
    <3> QED
      BY <2>2, <3>1, <3>2 DEF Feeds
  <2>4. buffer'[k % Size] = p /\ DueAt(k)' = ws
    BY <2>1, CalmFed
  <2> QED
    BY <2>3, <2>4 DEF Feeds, Piped, Owns, Fed
<1>2. ASSUME NEW k \in lineno' + 1 .. Size PROVE k \in lineno + 1 .. Size
  <2>1. lineno' = lineno \/ lineno' = lineno + 1
    OBVIOUS
  <2>2. CASE lineno' = lineno + 1
    BY <2>2, SizeAssumption
  <2>3. CASE lineno' = lineno
    BY <2>3
  <2> QED
    BY <2>1, <2>2, <2>3
<1> QED
  BY <1>1, <1>2 DEF Ring

\* A table some of whose descriptors have been closed is still well-formed.
LEMMA TableShrinks ==
    ASSUME Table, DOMAIN data' = DOMAIN data,
           \A f \in Fds : fdt'[f] = Closed \/ fdt'[f] = fdt[f]
    PROVE  Table'
<1>1. \A f \in Fds : \/ fdt'[f] = Closed \/ fdt'[f] = File
                     \/ \E i \in DOMAIN data' : fdt'[f] = R(i) \/ fdt'[f] = W(i)
  BY DEF Table
<1>2. \A i \in DOMAIN data' : \A f, g \in Fds :
        /\ fdt'[f] = R(i) /\ fdt'[g] = R(i) => f = g
        /\ fdt'[f] = W(i) /\ fdt'[g] = W(i) => f = g
  BY ObjectFacts DEF Table
<1> QED
  BY <1>1, <1>2 DEF Table

\* A pipe that a child reads is not one that still waits for its reader.
LEMMA FedUnread ==
    ASSUME NEW id, NEW ws, Fed(id, ws), NEW j, NEW c \in DOMAIN procs, procs[c].in = R(j)
    PROVE  id # j
BY DEF Fed

\* Pipes with different writers are different.
LEMMA FedApart ==
    ASSUME NEW id, NEW ws, Fed(id, ws), NEW j, NEW xs, Fed(j, xs),
           ws \subseteq DOMAIN procs, xs \subseteq DOMAIN procs, ws # xs
    PROVE  id # j
BY DEF Fed

\* The descriptors of a pipe are the only ones open on it.
LEMMA OwnsAll ==
    ASSUME Table, NEW id \in DOMAIN data, NEW p, Owns(p, id), NEW f \in Fds
    PROVE  (fdt[f] = R(id) \/ fdt[f] = W(id)) <=> InUse(p, f)
BY DEF Table, Owns, InUse

\* The end of a command line (cmdHandler.cpp:73, 81): prevPipe is closed and,
\* after a numbered pipe, the write end of eol.
LEMMA EndShell ==
    ASSUME TypeInv, ShellInv, KidsInv, EndCommands
    PROVE  ShellInv'
<1> USE DEF TypeInv, ShellInv, KidsInv
<1> DEFINE numbered == Head(queue)[Len(Head(queue))].conn = "NUMBERED_PIPE"
           wr == [in |-> -1, out |-> IF numbered THEN eol.out ELSE -1]
           t == ClosePipe(fdt, prevPipe)
<1>0. /\ pc = "end" /\ prevPipe' = NoPipe
      /\ pc' = (IF numbered THEN "readEOF" ELSE "waitlast")
      /\ fdt' = ClosePipe(t, wr)
      /\ UNCHANGED <<running, queue, buffer, head, currPipe, eol, data, procs, lineno>>
  BY DEF EndCommands, TableAtEnd, ring
<1>1. /\ MidLine /\ Forked /\ ~MidLine' /\ Forked' /\ Calm
      /\ procs # << >> /\ Last' = Last /\ Last.line = lineno
      /\ Last.cmd = Head(queue)[Len(Head(queue))]
      /\ Last.cmd.conn = "NUMBERED_PIPE" <=> pc' = "readEOF"
      /\ Len(procs) \in DOMAIN procs /\ Last = procs[Len(procs)]
  BY <1>0, SameIsCalm, CalmLast DEF MidLine, Forked, Progress, Last
<1>2. PICK e \in DOMAIN data : EolOpen(e)
  BY <1>0 DEF Eol
<1>3. /\ eol.in \in Fds /\ fdt[eol.in] = R(e) /\ eol.out \in Fds /\ fdt[eol.out] = W(e)
      /\ Fed(e, {})
  BY <1>0, <1>2 DEF EolOpen
<1>4. \A f \in Fds : InUse(wr, f) <=> numbered /\ f = eol.out
  BY FdLimitAssumption DEF InUse, Fds
<1> HIDE DEF wr
<1>5. \A f \in Fds : /\ InUse(prevPipe, f) \/ (numbered /\ f = eol.out) => fdt'[f] = Closed
                     /\ ~InUse(prevPipe, f) /\ ~(numbered /\ f = eol.out) => fdt'[f] = fdt[f]
  <2>1. \A f \in Fds : /\ InUse(prevPipe, f) => t[f] = Closed
                       /\ ~InUse(prevPipe, f) => t[f] = fdt[f]
    BY CloseFacts
  <2>2. \A f \in Fds : /\ InUse(wr, f) => fdt'[f] = Closed
                       /\ ~InUse(wr, f) => fdt'[f] = t[f]
    BY <1>0, CloseFacts
  <2> QED
    BY <1>4, <2>1, <2>2
<1> HIDE DEF t, numbered
\* what prevPipe stands for
<1>6. ASSUME NEW f \in Fds, InUse(prevPipe, f)
      PROVE  \E j \in DOMAIN data : /\ Last.in = R(j) /\ Owns(prevPipe, j)
                                    /\ fdt[f] = R(j) \/ fdt[f] = W(j)
  <2>1. prevPipe # NoPipe
    BY <1>6, NoPipeUnused
  <2>2. PICK j \in DOMAIN data : Owns(prevPipe, j) /\ Last.in = R(j)
    BY <2>1 DEF Prev
  <2> QED
    BY <1>6, <2>2 DEF Owns, InUse
<1>7. ASSUME NEW id \in DOMAIN data, NEW ws, Fed(id, ws), ws # {}, ws \subseteq DOMAIN procs
      PROVE  Keeps(id)
  <2> SUFFICES ASSUME NEW f \in Fds, fdt[f] = R(id) \/ fdt[f] = W(id) PROVE fdt'[f] = fdt[f]
    BY DEF Keeps
  <2>1. ~InUse(prevPipe, f)
    BY <1>1, <1>6, <1>7, FedUnread, ObjectFacts
  <2>2. f # eol.out
    BY <1>3, <1>7, FedApart, ObjectFacts
  <2> QED
    BY <1>5, <2>1, <2>2
<1>8. Table'
  BY <1>0, <1>5, TableShrinks
<1>9. Ring'
  <2>1. \A k \in lineno + 1 .. Size : \A id \in DOMAIN data :
          DueAt(k) # {} /\ Fed(id, DueAt(k)) => Keeps(id)
    BY <1>7 DEF DueAt
  <2> QED
    BY <1>0, <1>1, <2>1, RingKept DEF TypeOK, Ring
<1>10. Progress'
  BY <1>0, <1>1 DEF Progress
<1>11. Prev'
  BY <1>0 DEF Prev
<1>12. Curr'
  <2>1. Last.cmd.conn = "PIPE" => Piped(currPipe, {Len(procs)})'
    <3>1. PICK p, ws : p = currPipe /\ ws = {Len(procs)}
      OBVIOUS
    <3>2. Last.cmd.conn = "PIPE" => Piped(p, ws)
      BY <1>1, <3>1 DEF Curr
    <3>3. ws # {} /\ ws \subseteq DOMAIN procs
      BY <1>1, <3>1
    <3>4. \A id \in DOMAIN data : Fed(id, ws) => Keeps(id)
      BY <1>7, <3>3
    <3>5. Last.cmd.conn = "PIPE" => Piped(p, ws)'
      BY <1>0, <1>1, <3>2, <3>4, PipedKept
    <3> QED
      BY <1>0, <3>1, <3>5 DEF Piped, Owns, Fed
  <2>2. Last.cmd.conn = "END" => At(fdt', currPipe'.in) = Closed /\ At(fdt', currPipe'.out) = Closed
    <3>1. Last.cmd.conn = "END" => currPipe = prevPipe
      BY <1>1 DEF Curr
    <3>2. \A f \in Fds : InUse(prevPipe, f) => fdt'[f] = Closed
      BY <1>5
    <3> QED
      BY <1>0, <3>1, <3>2 DEF At, InUse
  <2>3. Last.cmd.conn = "NUMBERED_PIPE" => Ahead(currPipe)'
    BY <1>0, <1>1 DEF Curr, Ahead
  <2>4. Last.cmd.conn = "FILE_CMD" =>
          currPipe' = NoPipe \/ (currPipe'.in = -1 /\ currPipe'.out \in Fds /\ fdt'[currPipe'.out] = File)
    <3> SUFFICES ASSUME Last.cmd.conn = "FILE_CMD", currPipe # NoPipe
                 PROVE  currPipe'.in = -1 /\ currPipe'.out \in Fds /\ fdt'[currPipe'.out] = File
      BY <1>0
    <3>1. currPipe.in = -1 /\ currPipe.out \in Fds /\ fdt[currPipe.out] = File
      BY <1>1 DEF Curr
    <3>2. ~InUse(prevPipe, currPipe.out) /\ currPipe.out # eol.out
      BY <1>3, <1>6, <3>1, ObjectFacts
    <3> QED
      BY <1>0, <1>5, <3>1, <3>2
  <2> QED
    BY <1>0, <1>1, <2>1, <2>2, <2>3, <2>4 DEF Curr
<1>13. Eol'
  <2> SUFFICES ASSUME pc' = "readEOF" PROVE EolOpen(e)'
    BY <1>0 DEF Eol
  <2>1. Fed(e, {})'
    BY <1>1, <1>3, CalmFed
  <2>2. fdt'[eol.in] = R(e)
    <3>1. ~InUse(prevPipe, eol.in)
      BY <1>1, <1>3, <1>6, FedUnread, ObjectFacts
    <3>2. eol.in # eol.out
      BY <1>3, ObjectFacts
    <3> QED
      BY <1>3, <1>5, <3>1, <3>2
  <2>3. \A c \in DOMAIN procs : procs[c].line = lineno /\ procs[c].st = "forked" => W(e) \in procs[c].inh
    BY <1>2 DEF EolOpen
  <2> QED
    BY <1>0, <1>3, <2>1, <2>2, <2>3 DEF EolOpen
<1>14. HeldFile'
  <2> SUFFICES ASSUME NEW f \in Fds, fdt'[f] = File
               PROVE  pc' = "waitlast" /\ Last.cmd.conn = "FILE_CMD" /\ f = currPipe'.out
    BY <1>1 DEF HeldFile
  <2>1. fdt[f] = File
    BY <1>5, ObjectFacts
  <2> QED
    BY <1>0, <1>1, <2>1 DEF HeldFile
<1>15. HeldOut'
  <2> SUFFICES ASSUME NEW c \in DOMAIN procs, NEW i \in DOMAIN data, NEW f \in Fds,
                      procs[c].out = W(i), fdt'[f] = R(i) \/ fdt'[f] = W(i)
               PROVE  \/ procs[c].cmd.conn = "NUMBERED_PIPE" /\ procs[c].line + procs[c].cmd.n > lineno
                      \/ InUse(currPipe, f)
    BY <1>0 DEF HeldOut, InUse
  <2>1. fdt'[f] # Closed
    BY ObjectFacts
  <2>2. fdt'[f] = fdt[f] /\ ~InUse(prevPipe, f)
    BY <1>5, <2>1
  <2> QED
    BY <2>2 DEF HeldOut
<1>16. HeldIn'
  <2> SUFFICES ASSUME NEW c \in DOMAIN procs, NEW i \in DOMAIN data, NEW f \in Fds,
                      procs[c].in = R(i), fdt'[f] = R(i) \/ fdt'[f] = W(i)
               PROVE  FALSE
    BY <1>0 DEF HeldIn
  <2>1. fdt'[f] # Closed
    BY ObjectFacts
  <2>2. fdt'[f] = fdt[f] /\ ~InUse(prevPipe, f)
    BY <1>5, <2>1
  <2> QED
    BY <2>2 DEF HeldIn
<1>17. Drained'
  <2> SUFFICES ASSUME running, NEW c \in DOMAIN procs, procs[c].st # "reaped",
                      procs[c].cmd.conn \in {"END", "FILE_CMD"}
               PROVE  c = Len(procs) /\ pc' \in {"wait", "end", "waitlast"}
    BY <1>0 DEF Drained
  <2>1. c = Len(procs)
    BY DEF Drained
  <2> QED
    BY <1>0, <1>1, <2>1
<1>18. Readable'
  <2> SUFFICES ASSUME running, NEW c \in DOMAIN procs, NEW i \in DOMAIN data,
                      Alive(c), procs[c].out = W(i)
               PROVE  \/ \E b \in DOMAIN procs : procs[b].in = R(i)
                      \/ \E f \in Fds : fdt'[f] = R(i)
    BY <1>0 DEF Readable, Alive
  <2>1. CASE \E b \in DOMAIN procs : procs[b].in = R(i)
    BY <2>1
  <2>2. CASE \E f \in Fds : fdt[f] = R(i)
    <3>1. PICK f \in Fds : fdt[f] = R(i)
      BY <2>2
    <3>2. f # eol.out
      BY <1>3, <3>1, ObjectFacts
    <3>3. InUse(prevPipe, f) => Last.in = R(i)
      BY <1>6, <3>1, ObjectFacts
    <3> QED
      BY <1>1, <1>5, <3>1, <3>2, <3>3
  <2> QED
    BY <2>1, <2>2 DEF Readable
<1>19. Synced'
  BY <1>0 DEF Synced
<1> QED
  BY <1>8, <1>9, <1>10, <1>11, <1>12, <1>13, <1>14, <1>15, <1>16, <1>17, <1>18, <1>19

\* The end of an ordinary line (cmdHandler.cpp:78-80): the last child has been
\* waited for unless a signal came, currPipe is closed and the line popped.
LEMMA WaitLastShell ==
    ASSUME TypeInv, ShellInv, KidsInv, Calm, AfterWaitLast,
           running' => running /\ procs'[Len(procs)].st = "reaped"
    PROVE  ShellInv'
<1> USE DEF TypeInv, ShellInv, KidsInv
<1>0. /\ pc = "waitlast" /\ pc' = "loop"
      /\ fdt' = ClosePipe(fdt, currPipe) /\ currPipe' = NoPipe /\ queue' = Tail(queue)
      /\ UNCHANGED <<buffer, head, prevPipe, eol, data, lineno>>
  BY DEF AfterWaitLast, ring
<1>1. /\ ~MidLine /\ Forked /\ ~MidLine' /\ ~Forked'
      /\ procs # << >> /\ procs' # << >> /\ Last'.cmd = Last.cmd
      /\ Last.cmd.conn # "NUMBERED_PIPE"
      /\ Len(procs) \in DOMAIN procs /\ Last = procs[Len(procs)]
  BY <1>0, CalmLast DEF MidLine, Forked, Progress, Last
<1>2. prevPipe = NoPipe
  BY <1>1 DEF Prev
<1>3. \A f \in Fds : /\ InUse(currPipe, f) => fdt'[f] = Closed
                     /\ ~InUse(currPipe, f) => fdt'[f] = fdt[f]
  BY <1>0, CloseFacts
\* what currPipe stands for
<1>4. ASSUME NEW f \in Fds, InUse(currPipe, f)
      PROVE  \/ fdt[f] = Closed \/ fdt[f] = File
             \/ /\ Last.cmd.conn = "PIPE"
                /\ \E j \in DOMAIN data : /\ Fed(j, {Len(procs)})
                                          /\ fdt[f] = R(j) \/ fdt[f] = W(j)
  <2>1. Last.cmd \in Commands
    BY <1>1, KidTypes
  <2>2. Last.cmd.conn \in {"END", "PIPE", "FILE_CMD", "NUMBERED_PIPE"}
    BY <2>1 DEF Commands
  <2>3. CASE Last.cmd.conn = "END"
    <3>1. At(fdt, currPipe.in) = Closed /\ At(fdt, currPipe.out) = Closed
      BY <1>0, <2>3 DEF Curr
    <3> QED
      BY <1>4, <3>1 DEF At, InUse
  <2>4. CASE Last.cmd.conn = "PIPE"
    <3>1. PICK j \in DOMAIN data : Owns(currPipe, j) /\ Fed(j, {Len(procs)})
      BY <1>1, <2>4 DEF Curr, Piped
    <3> QED
      BY <1>4, <2>4, <3>1 DEF Owns, InUse
  <2>5. CASE Last.cmd.conn = "FILE_CMD"
    <3>1. currPipe # NoPipe
      BY <1>4, NoPipeUnused
    <3>2. currPipe.in = -1 /\ currPipe.out \in Fds /\ fdt[currPipe.out] = File
      BY <1>1, <2>5, <3>1 DEF Curr
    <3>3. f = currPipe.out
      BY <1>4, <3>2, FdLimitAssumption DEF InUse, Fds
    <3> QED
      BY <3>2, <3>3
  <2> QED
    BY <1>1, <2>2, <2>3, <2>4, <2>5
<1>5. ASSUME NEW k, NEW id \in DOMAIN data, DueAt(k) # {}, Fed(id, DueAt(k))
      PROVE  Keeps(id)
  <2> SUFFICES ASSUME NEW f \in Fds, fdt[f] = R(id) \/ fdt[f] = W(id), InUse(currPipe, f)
               PROVE  FALSE
    BY <1>3 DEF Keeps
  <2>1. PICK j \in DOMAIN data : /\ Fed(j, {Len(procs)})
                                 /\ fdt[f] = R(j) \/ fdt[f] = W(j)
    BY <1>4, ObjectFacts
  <2>2. id = j
    BY <2>1, ObjectFacts
  <2>3. PICK a \in DOMAIN procs : a \in DueAt(k)
    BY <1>5 DEF DueAt
  <2>4. a = Len(procs)
    BY <1>5, <2>1, <2>2, <2>3 DEF Fed
  <2> QED
    BY <1>1, <2>3, <2>4 DEF DueAt
<1>6. Table'
  BY <1>0, <1>3, TableShrinks
<1>7. Ring'
  BY <1>0, <1>5, RingKept DEF TypeOK, Ring
<1>8. Progress'
  <2>1. queue # << >>
    BY <1>0 DEF Positions
  <2>2. \A q \in DOMAIN queue' : ProperCommandLine(queue'[q])
    BY <1>0, <2>1, ProperHead
  <2> QED
    BY <1>0, <1>1, <2>2 DEF Progress
<1>9. Prev'
  BY <1>0, <1>2 DEF Prev
<1>10. Curr'
  BY <1>0, <1>1 DEF Curr
<1>11. Eol'
  BY <1>0 DEF Eol
<1>12. HeldFile'
  <2> SUFFICES ASSUME NEW f \in Fds, fdt'[f] = File PROVE FALSE
    BY DEF HeldFile
  <2>1. fdt'[f] # Closed
    BY ObjectFacts
  <2>2. fdt'[f] = fdt[f] /\ ~InUse(currPipe, f)
    BY <1>3, <2>1
  <2> QED
    BY <2>2 DEF HeldFile, InUse
<1>13. HeldOut'
  <2> SUFFICES ASSUME NEW c \in DOMAIN procs, NEW i \in DOMAIN data, NEW f \in Fds,
                      procs[c].out = W(i), fdt'[f] = R(i) \/ fdt'[f] = W(i)
               PROVE  procs[c].cmd.conn = "NUMBERED_PIPE" /\ procs[c].line + procs[c].cmd.n > lineno
    BY <1>0 DEF HeldOut, Calm
  <2>1. fdt'[f] # Closed
    BY ObjectFacts
  <2>2. fdt'[f] = fdt[f] /\ ~InUse(currPipe, f) /\ ~InUse(prevPipe, f)
    BY <1>2, <1>3, <2>1, NoPipeUnused
  <2> QED
    BY <2>2 DEF HeldOut
<1>14. HeldIn'
  <2> SUFFICES ASSUME NEW c \in DOMAIN procs, NEW i \in DOMAIN data, NEW f \in Fds,
                      procs[c].in = R(i), fdt'[f] = R(i) \/ fdt'[f] = W(i)
               PROVE  FALSE
    BY <1>0 DEF HeldIn, Calm
  <2>1. fdt'[f] # Closed
    BY ObjectFacts
  <2>2. fdt'[f] = fdt[f] /\ ~InUse(prevPipe, f)
    BY <1>2, <1>3, <2>1, NoPipeUnused
  <2> QED
    BY <2>2 DEF HeldIn
<1>15. Drained'
  <2> SUFFICES ASSUME running', NEW c \in DOMAIN procs', procs'[c].st # "reaped",
                      procs'[c].cmd.conn \in {"END", "FILE_CMD"}
               PROVE  FALSE
    BY DEF Drained
  <2>1. c \in DOMAIN procs /\ procs[c].st # "reaped" /\ procs[c].cmd.conn \in {"END", "FILE_CMD"}
    BY DEF Calm
  <2>2. c = Len(procs)
    BY <2>1 DEF Drained
  <2> QED
    BY <2>2
<1>16. Readable'
  <2> SUFFICES ASSUME running', NEW c \in DOMAIN procs', NEW i \in DOMAIN data,
                      procs'[c].st \in {"forked", "running"}, procs'[c].out = W(i)
               PROVE  \/ \E b \in DOMAIN procs' : procs'[b].in = R(i)
                      \/ \E f \in Fds : fdt'[f] = R(i)
    BY <1>0 DEF Readable, Alive
  <2>1. /\ c \in DOMAIN procs /\ procs[c].out = W(i) /\ procs[c].st \in {"forked", "running"}
        /\ c # Len(procs)
    BY DEF Calm
  <2>2. CASE \E b \in DOMAIN procs : procs[b].in = R(i)
    BY <2>2 DEF Calm
  <2>3. CASE \E f \in Fds : fdt[f] = R(i)
    <3>1. PICK f \in Fds : fdt[f] = R(i)
      BY <2>3
    <3>2. ASSUME InUse(currPipe, f) PROVE FALSE
      <4>1. PICK j \in DOMAIN data : /\ Fed(j, {Len(procs)})
                                     /\ fdt[f] = R(j) \/ fdt[f] = W(j)
        BY <1>4, <3>1, <3>2, ObjectFacts
      <4>2. i = j
        BY <3>1, <4>1, ObjectFacts
      <4> QED
        BY <2>1, <4>1, <4>2 DEF Fed
    <3> QED
      BY <1>3, <3>1, <3>2
  <2> QED
    BY <2>1, <2>2, <2>3 DEF Readable, Alive
<1>17. Synced'
  BY <1>1 DEF Synced
<1> QED
  BY <1>6, <1>7, <1>8, <1>9, <1>10, <1>11, <1>12, <1>13, <1>14, <1>15, <1>16, <1>17

\* The end of a numbered line (cmdHandler.cpp:81-83): readEOF has seen the end
\* of file unless a signal came; the read end of eol is closed.
LEMMA ReadEOFShell ==
    ASSUME TypeInv, ShellInv, KidsInv, AfterReadEOF, running' => running /\ AtEof(eol.in)
    PROVE  ShellInv'
<1> USE DEF TypeInv, ShellInv, KidsInv
<1> DEFINE rd == [in |-> eol.in, out |-> -1]
<1>0. /\ pc = "readEOF" /\ pc' = "loop"
      /\ fdt' = ClosePipe(fdt, rd) /\ queue' = Tail(queue)
      /\ UNCHANGED <<buffer, head, currPipe, prevPipe, eol, data, procs, lineno>>
  BY DEF AfterReadEOF, ring, pipes
<1>1. /\ ~MidLine /\ Forked /\ ~MidLine' /\ ~Forked' /\ Calm
      /\ procs # << >> /\ Last' = Last
      /\ Last.cmd.conn = "NUMBERED_PIPE"
      /\ Len(procs) \in DOMAIN procs /\ Last = procs[Len(procs)]
  BY <1>0, SameIsCalm, CalmLast DEF MidLine, Forked, Progress, Last
<1>2. PICK e \in DOMAIN data : EolOpen(e)
  BY <1>0 DEF Eol
<1>3. eol.in \in Fds /\ fdt[eol.in] = R(e) /\ Fed(e, {})
  BY <1>2 DEF EolOpen
<1>4. \A f \in Fds : InUse(rd, f) <=> f = eol.in
  BY FdLimitAssumption DEF InUse, Fds
<1>5. /\ fdt'[eol.in] = Closed
      /\ \A f \in Fds : f # eol.in => fdt'[f] = fdt[f]
  <2> HIDE DEF rd
  <2> QED
    BY <1>0, <1>3, <1>4, CloseFacts
<1> HIDE DEF rd
<1>6. ASSUME NEW k, NEW id \in DOMAIN data, DueAt(k) # {}, Fed(id, DueAt(k))
      PROVE  Keeps(id)
  <2>1. DueAt(k) \subseteq DOMAIN procs
    BY DEF DueAt
  <2>2. id # e
    BY <1>3, <1>6, <2>1, FedApart
  <2> QED
    BY <1>3, <1>5, <2>2, ObjectFacts DEF Keeps
<1>7. Table'
  BY <1>0, <1>5, TableShrinks
<1>8. Ring'
  BY <1>0, <1>1, <1>6, RingKept DEF TypeOK, Ring
<1>9. Progress'
  <2>1. queue # << >>
    BY <1>0 DEF Positions
  <2>2. \A q \in DOMAIN queue' : ProperCommandLine(queue'[q])
    BY <1>0, <2>1, ProperHead
  <2> QED
    BY <1>0, <1>1, <2>2 DEF Progress
<1>10. prevPipe = NoPipe /\ Prev'
  BY <1>0, <1>1 DEF Prev
<1>11. Curr'
  BY <1>0, <1>1 DEF Curr, Ahead
<1>12. Eol'
  BY <1>0 DEF Eol
<1>13. HeldFile'
  <2> SUFFICES ASSUME NEW f \in Fds, fdt'[f] = File PROVE FALSE
    BY DEF HeldFile
  <2>1. fdt[f] = File
    BY <1>5, ObjectFacts
  <2> QED
    BY <1>0, <1>1, <2>1 DEF HeldFile
<1>14. ASSUME NEW f \in Fds, NEW i, fdt'[f] = R(i) \/ fdt'[f] = W(i)
       PROVE  fdt[f] = R(i) \/ fdt[f] = W(i)
  BY <1>5, <1>14, ObjectFacts
<1>15. HeldOut'
  BY <1>0, <1>14 DEF HeldOut, InUse
<1>16. HeldIn'
  BY <1>0, <1>14 DEF HeldIn, InUse
<1>17. Drained'
  <2> SUFFICES ASSUME running, NEW c \in DOMAIN procs, procs[c].st # "reaped",
                      procs[c].cmd.conn \in {"END", "FILE_CMD"}
               PROVE  FALSE
    BY <1>0 DEF Drained
  <2>1. c = Len(procs)
    BY DEF Drained
  <2> QED
    BY <1>1, <2>1
<1>18. Readable'
  <2> SUFFICES ASSUME running, NEW c \in DOMAIN procs, NEW i \in DOMAIN data,
                      Alive(c), procs[c].out = W(i)
               PROVE  \/ \E b \in DOMAIN procs : procs[b].in = R(i)
                      \/ \E f \in Fds : fdt'[f] = R(i)
    BY <1>0 DEF Readable, Alive
  <2>1. CASE \E b \in DOMAIN procs : procs[b].in = R(i)
    BY <2>1
  <2>2. CASE \E f \in Fds : fdt[f] = R(i)
    <3>1. PICK f \in Fds : fdt[f] = R(i)
      BY <2>2
    <3>2. i # e
      BY <1>3 DEF Fed
    <3> QED
      BY <1>3, <1>5, <3>1, <3>2, ObjectFacts
  <2> QED
    BY <2>1, <2>2 DEF Readable
<1>19. Synced'
  <2> SUFFICES ASSUME running', NEW c \in DOMAIN procs, procs[c].line = lineno,
                      procs[c].st = "forked"
               PROVE  FALSE
    BY <1>0 DEF Synced
  <2>1. ~HasWriter(e)
    <3>1. At(fdt, eol.in) = R(e)
      BY <1>3 DEF At
    <3>2. R(e).end = "r" /\ R(e).id = e
      BY ObjectFacts
    <3> QED
      BY <3>1, <3>2 DEF AtEof
  <2>2. W(e) \in procs[c].inh
    BY <1>2 DEF EolOpen
  <2> QED
    BY <2>1, <2>2 DEF HasWriter, Holds, Alive
<1> QED
  BY <1>7, <1>8, <1>9, <1>10, <1>11, <1>12, <1>13, <1>15, <1>16, <1>17, <1>18, <1>19

-----------------------------------------------------------------------------
(* The shell's steps that create pipes.                                    *)

\* What pipe2() puts in a table.
LEMMA OpenedFacts ==
    ASSUME NEW t \in [Fds -> Objects], NEW p, Pipe2(t, p)
    PROVE  /\ p.in \in Fds /\ p.out \in Fds /\ p.in # p.out
           /\ t[p.in] = Closed /\ t[p.out] = Closed
           /\ Opened(t, p)[p.in] = R(Len(data) + 1) /\ Opened(t, p)[p.out] = W(Len(data) + 1)
           /\ \A f \in Fds : ~InUse(p, f) => Opened(t, p)[f] = t[f]
<1>1. /\ p.in \in Fds /\ t[p.in] = Closed /\ p.out \in Fds
      /\ [t EXCEPT ![p.in] = R(Len(data) + 1)][p.out] = Closed
  BY DEF Pipe2, LowestFree
<1>2. p.in # p.out
  BY <1>1, ObjectFacts
<1>3. t[p.out] = Closed
  BY <1>1, <1>2
<1> QED
  BY <1>1, <1>2, <1>3 DEF Opened, InUse

\* The new pipe's number has not been used.
LEMMA FreshPipe ==
    ASSUME TypeOK, data' = Append(data, 0)
    PROVE  /\ DOMAIN data' = DOMAIN data \cup {Len(data) + 1}
           /\ Len(data) + 1 \notin DOMAIN data
BY DEF TypeOK

\* The table after pipe2() is well-formed.
LEMMA TableGrows ==
    ASSUME TypeOK, data' = Append(data, 0), NEW p, p.in \in Fds, p.out \in Fds, p.in # p.out,
           Table,
           fdt'[p.in] = R(Len(data) + 1), fdt'[p.out] = W(Len(data) + 1),
           \A f \in Fds : ~InUse(p, f) => fdt'[f] = Closed \/ fdt'[f] = fdt[f]
    PROVE  Table'
<1> DEFINE n == Len(data) + 1
<1>0. DOMAIN data' = DOMAIN data \cup {n} /\ n \notin DOMAIN data
  BY FreshPipe
<1> HIDE DEF n
<1>1. \A f \in Fds : \/ fdt'[f] = Closed \/ fdt'[f] = File
                     \/ \E i \in DOMAIN data' : fdt'[f] = R(i) \/ fdt'[f] = W(i)
  BY <1>0 DEF Table, InUse, n
<1>2. ASSUME NEW f \in Fds, NEW i \in DOMAIN data', fdt'[f] = R(i) \/ fdt'[f] = W(i)
      PROVE  \/ i = n /\ fdt'[f] = R(i) /\ f = p.in
             \/ i = n /\ fdt'[f] = W(i) /\ f = p.out
             \/ i \in DOMAIN data /\ fdt'[f] = fdt[f] /\ ~InUse(p, f)
  <2>1. CASE InUse(p, f)
    BY <1>2, <2>1, ObjectFacts DEF InUse, n
  <2>2. CASE ~InUse(p, f)
    <3>1. fdt'[f] = fdt[f]
      BY <1>2, <2>2, ObjectFacts
    <3>2. PICK j \in DOMAIN data : fdt[f] = R(j) \/ fdt[f] = W(j)
      BY <1>2, <3>1, ObjectFacts DEF Table
    <3> QED
      BY <1>2, <2>2, <3>1, <3>2, ObjectFacts
  <2> QED
    BY <2>1, <2>2
<1>3. ASSUME NEW i \in DOMAIN data', NEW f \in Fds, NEW g \in Fds
      PROVE  /\ fdt'[f] = R(i) /\ fdt'[g] = R(i) => f = g
             /\ fdt'[f] = W(i) /\ fdt'[g] = W(i) => f = g
  BY <1>0, <1>2, ObjectFacts DEF Table
<1> QED
  BY <1>1, <1>3 DEF Table

\* A ring slot's pipe is open only for the line it belongs to.
LEMMA AheadDue ==
    ASSUME Table, Ring, NEW f \in Fds, NEW c \in DOMAIN procs, NEW i \in DOMAIN data,
           procs[c].out = W(i), fdt[f] = R(i) \/ fdt[f] = W(i),
           Ahead(currPipe), InUse(currPipe, f), lineno \in Nat
    PROVE  /\ procs[c].cmd.conn = "NUMBERED_PIPE" /\ procs[c].line + procs[c].cmd.n > lineno
<1>1. PICK k \in lineno + 1 .. Size : currPipe = buffer[k % Size]
  BY DEF Ahead
<1>2. currPipe # NoPipe
  BY NoPipeUnused
<1>3. PICK id \in DOMAIN data : Owns(currPipe, id) /\ Fed(id, DueAt(k))
  BY <1>1, <1>2 DEF Ring, Feeds, Piped
<1>4. fdt[f] = R(id) \/ fdt[f] = W(id)
  BY <1>3 DEF Owns, InUse
<1>5. id = i
  BY <1>4, ObjectFacts
<1>6. c \in DueAt(k)
  BY <1>3, <1>5 DEF Fed
<1>7. k > lineno
  BY SizeAssumption
<1> QED
  BY <1>6, <1>7 DEF DueAt

\* The top of the loop (cmdHandler.cpp:27-30): the pipe of the next slot of the
\* ring becomes currPipe, and eol is a new pipe.
LEMMA StartShell ==
    ASSUME TypeInv, ShellInv, KidsInv, StartCommandLine, BeforeWrap'
    PROVE  ShellInv'
<1> USE DEF TypeInv, ShellInv, KidsInv
<1>0. /\ pc = "loop" /\ pc' = "cmd" /\ pos' = 1 /\ lineno' = lineno + 1
      /\ head' = (head + 1) % Size /\ currPipe' = buffer[head']
      /\ UNCHANGED <<running, queue, buffer, prevPipe, procs>>
  BY DEF StartCommandLine
<1>1. PICK p \in Pipes : /\ Pipe2(fdt, p) /\ eol' = p /\ fdt' = Opened(fdt, p)
                         /\ data' = Append(data, 0)
  BY DEF StartCommandLine
<1>new. PICK n : n = Len(data) + 1
  OBVIOUS
<1>2. /\ p.in \in Fds /\ p.out \in Fds /\ p.in # p.out
      /\ fdt[p.in] = Closed /\ fdt[p.out] = Closed
      /\ fdt'[p.in] = R(n) /\ fdt'[p.out] = W(n)
      /\ \A f \in Fds : ~InUse(p, f) => fdt'[f] = fdt[f]
  BY <1>1, <1>new, OpenedFacts DEF TypeOK
<1>3. DOMAIN data' = DOMAIN data \cup {n} /\ n \notin DOMAIN data
  BY <1>1, <1>new, FreshPipe
<1>4. Table'
  BY <1>1, <1>2, <1>new, TableGrows
<1>5. Calm /\ ~MidLine /\ ~MidLine' /\ ~Forked /\ ~Forked' /\ prevPipe = NoPipe
  BY <1>0, SameIsCalm DEF MidLine, Forked, Prev
<1>6. \A id \in DOMAIN data : Keeps(id)
  BY <1>2, ObjectFacts DEF Keeps, InUse
<1>7. lineno \in Nat /\ lineno + 1 <= Size /\ Size \in Nat
  BY <1>0, SizeAssumption DEF BeforeWrap, TypeOK
<1>8. head = lineno /\ head' = lineno' % Size /\ lineno + 1 \in lineno + 1 .. Size
  <2>1. head = lineno % Size
    BY DEF Ring
  <2>2. lineno \in 0 .. Size - 1
    BY <1>7
  <2> QED
    BY <1>0, <1>7, <2>1, <2>2, RingSlots
<1>9. /\ Ring'
      /\ \A k \in lineno + 1 .. Size : Feeds(buffer[k % Size], DueAt(k))'
  BY <1>0, <1>3, <1>5, <1>6, <1>7, <1>8, RingKept
<1>10. ASSUME NEW c \in DOMAIN procs PROVE procs[c].line # lineno + 1
  BY <1>7, KidTypes DEF KidOrder
<1>11. Progress'
  <2>1. \A q \in DOMAIN queue' : ProperCommandLine(queue'[q])
    BY <1>0 DEF Progress
  <2> QED
    BY <1>0, <1>5, <1>10, <2>1 DEF Progress
<1>12. Prev'
  BY <1>0, <1>5 DEF Prev
<1>13. Curr'
  <2>1. PICK k : k = lineno + 1
    OBVIOUS
  <2>2. Feeds(buffer[k % Size], DueAt(k))'
    BY <1>8, <1>9, <2>1
  <2>3. lineno' = k /\ currPipe' = buffer'[k % Size]
    BY <1>0, <1>8, <2>1
  <2>4. Feeds(currPipe, DueAt(lineno))'
    BY <2>2, <2>3 DEF Feeds, Piped, Owns, Fed, DueAt
  <2> QED
    BY <1>0, <1>5, <2>4 DEF Curr
<1>14. Eol'
  <2>1. Fed(n, {})'
    BY <1>0, <1>3, ObjectFacts DEF Fed, KidEnds
  <2>2. EolOpen(n)'
    BY <1>0, <1>1, <1>2, <1>10, <2>1 DEF EolOpen
  <2> QED
    BY <1>3, <2>2 DEF Eol
<1>15. ASSUME NEW f \in Fds, NEW i \in DOMAIN data, fdt'[f] = R(i) \/ fdt'[f] = W(i)
       PROVE  fdt'[f] = fdt[f]
  BY <1>2, <1>3, <1>15, ObjectFacts DEF InUse
<1>16. HeldFile'
  <2> SUFFICES ASSUME NEW f \in Fds, fdt'[f] = File PROVE FALSE
    BY DEF HeldFile
  <2>1. fdt[f] = File
    BY <1>2, ObjectFacts DEF InUse
  <2> QED
    BY <1>0, <1>5, <2>1 DEF HeldFile
<1>17. HeldOut'
  <2> SUFFICES ASSUME NEW c \in DOMAIN procs, NEW i \in DOMAIN data', NEW f \in Fds,
                      procs[c].out = W(i), fdt'[f] = R(i) \/ fdt'[f] = W(i)
               PROVE  \/ /\ procs[c].cmd.conn = "NUMBERED_PIPE"
                         /\ procs[c].line + procs[c].cmd.n > lineno'
                      \/ InUse(currPipe', f)
    BY <1>0 DEF HeldOut, InUse
  <2>1. i \in DOMAIN data
    BY ObjectFacts DEF KidEnds
  <2>2. fdt[f] = R(i) \/ fdt[f] = W(i)
    BY <1>15, <2>1
  <2>3. procs[c].cmd.conn = "NUMBERED_PIPE" /\ procs[c].line + procs[c].cmd.n > lineno
    <3>1. CASE InUse(currPipe, f)
      <4>1. Ahead(currPipe)
        BY <1>0, <3>1, NoPipeUnused DEF Curr
      <4> QED
        BY <1>7, <2>1, <2>2, <3>1, <4>1, AheadDue
    <3>2. CASE ~InUse(currPipe, f)
      BY <1>5, <2>1, <2>2, <3>2, NoPipeUnused DEF HeldOut
    <3> QED
      BY <3>1, <3>2
  <2>4. CASE procs[c].line + procs[c].cmd.n = lineno + 1
    <3>1. c \in DueAt(lineno + 1)
      BY <2>3, <2>4 DEF DueAt
    <3>2. PICK id \in DOMAIN data : Owns(buffer[(lineno + 1) % Size], id) /\ Fed(id, DueAt(lineno + 1))
      BY <1>8, <3>1 DEF Ring, Feeds, Piped
    <3>3. id = i
      BY <3>1, <3>2, ObjectFacts DEF Fed
    <3>4. InUse(buffer[(lineno + 1) % Size], f)
      BY <2>2, <3>2, <3>3, OwnsAll
    <3> QED
      BY <1>0, <1>8, <3>4
  <2>5. CASE procs[c].line + procs[c].cmd.n # lineno + 1
    <3>1. procs[c].line \in Nat /\ procs[c].cmd.n \in Nat
      BY KidTypes
    <3> QED
      BY <1>0, <1>7, <2>3, <2>5, <3>1
  <2> QED
    BY <2>4, <2>5
<1>18. HeldIn'
  <2> SUFFICES ASSUME NEW c \in DOMAIN procs, NEW i \in DOMAIN data', NEW f \in Fds,
                      procs[c].in = R(i), fdt'[f] = R(i) \/ fdt'[f] = W(i)
               PROVE  FALSE
    BY <1>0 DEF HeldIn
  <2>1. i \in DOMAIN data
    BY ObjectFacts DEF KidEnds
  <2>2. fdt[f] = R(i) \/ fdt[f] = W(i)
    BY <1>15, <2>1
  <2> QED
    BY <1>5, <2>1, <2>2, NoPipeUnused DEF HeldIn
<1>19. Drained'
  BY <1>0 DEF Drained
<1>20. Readable'
  <2> SUFFICES ASSUME running, NEW c \in DOMAIN procs, NEW i \in DOMAIN data',
                      Alive(c), procs[c].out = W(i)
               PROVE  \/ \E b \in DOMAIN procs : procs[b].in = R(i)
                      \/ \E f \in Fds : fdt'[f] = R(i)
    BY <1>0 DEF Readable, Alive
  <2>1. i \in DOMAIN data
    BY ObjectFacts DEF KidEnds
  <2>2. \/ \E b \in DOMAIN procs : procs[b].in = R(i)
        \/ \E f \in Fds : fdt[f] = R(i)
    BY <2>1 DEF Readable
  <2> QED
    BY <1>6, <2>1, <2>2 DEF Keeps
<1>21. Synced'
  BY <1>0 DEF Synced
<1> QED
  BY <1>4, <1>9, <1>11, <1>12, <1>13, <1>14, <1>16, <1>17, <1>18, <1>19, <1>20, <1>21

-----------------------------------------------------------------------------
(* fork(): what RunCommand does, in terms of pipes instead of numbers.     *)

\* dup2() of a descriptor.
LEMMA Dup2Facts ==
    ASSUME NEW t, NEW fd
    PROVE  /\ fd \in Fds /\ t[fd] # Closed => Dup2(t, fd) = t[fd]
           /\ (fd \in Fds => t[fd] = Closed) => Dup2(t, fd) = Tty
BY DEF Dup2, At

\* The place, the command and the inherited table of the new child; the others
\* stay as they are.
NewKid ==
    /\ Len(procs') = Len(procs) + 1 /\ Len(procs) \in Nat
    /\ DOMAIN procs' = DOMAIN procs \cup {Len(procs')} /\ Len(procs') \notin DOMAIN procs
    /\ \A c \in DOMAIN procs : procs'[c] = procs[c]
    /\ Last'.line = lineno /\ Last'.pos = pos /\ Last'.cmd = Command
    /\ Last'.st = "forked" /\ Last'.inh = {fdt'[f] : f \in Fds}
    /\ Last'.in = Dup2(fdt', currPipe.in) /\ Last'.out = Stdout(fdt', currPipe, currPipe')

\* The shell's own variables.
ForkShell ==
    /\ pc = "cmd" /\ pc' = "wait" /\ prevPipe' = currPipe
    /\ UNCHANGED <<running, queue, pos, head, eol, pipelineProcessor, lineno>>
    /\ Command \in Commands /\ Command = Head(queue)[pos] /\ queue # << >>
    /\ pos \in Nat /\ pos >= 1
    /\ Command.conn = "NUMBERED_PIPE" => Command.n > 0 /\ lineno + Command.n <= Size

\* One child is appended.
LEMMA ForkKid == TypeInv /\ RunCommand => NewKid
<1> SUFFICES ASSUME TypeInv, RunCommand PROVE NewKid
  OBVIOUS
<1> DEFINE kid == Child(Command, fdt', prevPipe', currPipe')
<1>1. procs \in Seq(Procs) /\ procs' = Append(procs, kid) /\ prevPipe' = currPipe
  BY DEF RunCommand, TypeInv, TypeOK
<1>2. /\ kid.line = lineno /\ kid.pos = pos /\ kid.cmd = Command /\ kid.st = "forked"
      /\ kid.inh = {fdt'[f] : f \in Fds}
      /\ kid.in = Dup2(fdt', currPipe.in) /\ kid.out = Stdout(fdt', currPipe, currPipe')
  BY <1>1 DEF Child
<1> HIDE DEF kid
<1>3. /\ Len(procs') = Len(procs) + 1 /\ Len(procs) \in Nat
      /\ DOMAIN procs' = 1 .. Len(procs) + 1 /\ DOMAIN procs = 1 .. Len(procs)
      /\ \A d \in DOMAIN procs' : \/ d = Len(procs) + 1 /\ procs'[d] = kid
                                  \/ d \in DOMAIN procs /\ procs'[d] = procs[d]
  BY <1>1, AppendElements
<1>4. /\ DOMAIN procs' = DOMAIN procs \cup {Len(procs')} /\ Len(procs') \notin DOMAIN procs
  BY <1>3
<1>5. Last' = kid /\ \A c \in DOMAIN procs : procs'[c] = procs[c]
  BY <1>3, <1>4 DEF Last
<1> QED
  BY <1>2, <1>3, <1>4, <1>5 DEF NewKid

\* BeforeWrap held before the fork if it holds after it.
LEMMA ForkWrap ==
    ASSUME TypeOK, NewKid, lineno' = lineno, BeforeWrap'
    PROVE  BeforeWrap
BY DEF BeforeWrap, NewKid

\* The command is one of the line's, and its numbered pipe one of this turn.
LEMMA ForkControl ==
    ASSUME TypeInv, ShellInv, RunCommand, NewKid, BeforeWrap'
    PROVE  ForkShell
<1> USE DEF TypeInv, ShellInv
<1>1. /\ pc = "cmd" /\ pc' = "wait" /\ prevPipe' = currPipe
      /\ UNCHANGED <<running, queue, pos, head, eol, pipelineProcessor, lineno>>
  BY DEF RunCommand
<1>2. /\ queue # << >> /\ pos \in 1 .. Len(Head(queue))
      /\ Head(queue) \in Seq(Commands) \ {<< >>} /\ ProperCommandLine(Head(queue))
  BY <1>1, ProperHead DEF Positions
<1>3. Command = Head(queue)[pos] /\ Command \in Commands
  BY <1>2 DEF Command
<1>4. Command.conn = "NUMBERED_PIPE" => Command.n > 0
  BY <1>2, <1>3 DEF ProperCommandLine
<1>5. Command.conn = "NUMBERED_PIPE" => lineno + Command.n <= Size
  <2>1. Len(procs') \in DOMAIN procs' /\ procs'[Len(procs')] = Last'
    BY DEF NewKid, Last
  <2> QED
    BY <2>1 DEF BeforeWrap, NewKid
<1> QED
  BY <1>1, <1>2, <1>3, <1>4, <1>5 DEF ForkShell

\* What prevPipe stands for before a fork.
LEMMA PrevMeaning ==
    ASSUME Prev, NEW f \in Fds, InUse(prevPipe, f), Progress, TypeOK
    PROVE  /\ Len(procs) \in DOMAIN procs
           /\ \E j \in DOMAIN data : /\ procs[Len(procs)].in = R(j) /\ Owns(prevPipe, j)
                                     /\ fdt[f] = R(j) \/ fdt[f] = W(j)
<1>1. prevPipe # NoPipe
  BY NoPipeUnused
<1>2. PICK j \in DOMAIN data : MidLine /\ Owns(prevPipe, j) /\ Last.in = R(j)
  BY <1>1 DEF Prev
<1>3. procs # << >> /\ procs \in Seq(Procs)
  BY <1>2 DEF Progress, Forked, TypeOK
<1> QED
  BY <1>2, <1>3 DEF Owns, InUse, Last

\* The outcomes of createPipe: t is the table after prevPipe has been closed.
MakesNew(p) ==
    /\ p.in \in Fds /\ p.out \in Fds /\ p.in # p.out
    /\ fdt'[p.in] = R(Len(data) + 1) /\ fdt'[p.out] = W(Len(data) + 1)
    /\ InUse(prevPipe, p.in) \/ fdt[p.in] = Closed
    /\ InUse(prevPipe, p.out) \/ fdt[p.out] = Closed
    /\ currPipe' = p /\ data' = Append(data, 0)
    /\ \/ Command.conn = "PIPE" /\ buffer' = buffer
       \/ /\ Command.conn = "NUMBERED_PIPE" /\ SlotEmpty(Command.n)
          /\ buffer' = [buffer EXCEPT ![Slot(Command.n)] = p]
MakesFile(f) ==
    /\ Command.conn = "FILE_CMD" /\ f \in Fds
    /\ currPipe' = [in |-> -1, out |-> f] /\ fdt'[f] = File
    /\ InUse(prevPipe, f) \/ fdt[f] = Closed
    /\ UNCHANGED <<buffer, data>>
MakesNone ==
    /\ UNCHANGED <<buffer, data>>
    /\ \/ Command.conn = "END" /\ currPipe' = currPipe
       \/ Command.conn = "FILE_CMD" /\ currPipe' = NoPipe
       \/ /\ Command.conn = "NUMBERED_PIPE" /\ ~SlotEmpty(Command.n)
          /\ currPipe' = buffer[Slot(Command.n)]
\* Descriptors outside S are closed if they were prevPipe's and kept if not.
Elsewhere(S) ==
    \A f \in Fds \ S : /\ InUse(prevPipe, f) => fdt'[f] = Closed
                       /\ ~InUse(prevPipe, f) => fdt'[f] = fdt[f]

\* Every outcome of createPipe is one of these (cmdHandler.cpp:44-56).
LEMMA ForkMakes ==
    ASSUME TypeInv, RunCommand
    PROVE  \/ \E p \in Pipes : MakesNew(p) /\ Elsewhere({p.in, p.out})
           \/ \E f \in Fds : MakesFile(f) /\ Elsewhere({f})
           \/ MakesNone /\ Elsewhere({})
<1> DEFINE t == ClosePipe(fdt, prevPipe)
<1>1. t \in [Fds -> Objects]
  BY TableTypes DEF TypeInv, TypeOK
<1>2. \A f \in Fds : /\ InUse(prevPipe, f) => t[f] = Closed
                     /\ ~InUse(prevPipe, f) => t[f] = fdt[f]
  BY CloseFacts
<1>3. CreatePipe(Command, t)
  BY DEF RunCommand
<1> HIDE DEF t
<1>4. CASE \E p \in Pipes :
         /\ \/ Command.conn = "PIPE" /\ UNCHANGED buffer
            \/ /\ Command.conn = "NUMBERED_PIPE" /\ SlotEmpty(Command.n)
               /\ buffer' = [buffer EXCEPT ![Slot(Command.n)] = p]
         /\ Pipe2(t, p)
         /\ currPipe' = p
         /\ fdt' = Opened(t, p)
         /\ data' = Append(data, 0)
  <2>1. PICK p \in Pipes :
         /\ \/ Command.conn = "PIPE" /\ UNCHANGED buffer
            \/ /\ Command.conn = "NUMBERED_PIPE" /\ SlotEmpty(Command.n)
               /\ buffer' = [buffer EXCEPT ![Slot(Command.n)] = p]
         /\ Pipe2(t, p)
         /\ currPipe' = p
         /\ fdt' = Opened(t, p)
         /\ data' = Append(data, 0)
    BY <1>4
  <2>2. /\ p.in \in Fds /\ p.out \in Fds /\ p.in # p.out
        /\ t[p.in] = Closed /\ t[p.out] = Closed
        /\ fdt'[p.in] = R(Len(data) + 1) /\ fdt'[p.out] = W(Len(data) + 1)
        /\ \A f \in Fds : ~InUse(p, f) => fdt'[f] = t[f]
    BY <1>1, <2>1, OpenedFacts
  <2>3. MakesNew(p)
    BY <1>2, <2>1, <2>2 DEF MakesNew
  <2>4. Elsewhere({p.in, p.out})
    <3>1. \A f \in Fds \ {p.in, p.out} : fdt'[f] = t[f]
      BY <2>2 DEF InUse
    <3> QED
      BY <1>2, <3>1 DEF Elsewhere
  <2> QED
    BY <2>3, <2>4
<1>5. CASE \E f \in Fds : /\ LowestFree(t, f) /\ Command.conn = "FILE_CMD"
                          /\ currPipe' = [in |-> -1, out |-> f]
                          /\ fdt' = [t EXCEPT ![f] = File]
                          /\ UNCHANGED <<buffer, data>>
  <2>1. PICK f \in Fds : /\ LowestFree(t, f) /\ Command.conn = "FILE_CMD"
                         /\ currPipe' = [in |-> -1, out |-> f]
                         /\ fdt' = [t EXCEPT ![f] = File]
                         /\ UNCHANGED <<buffer, data>>
    BY <1>5
  <2>2. t[f] = Closed
    BY <2>1 DEF LowestFree
  <2>3. fdt'[f] = File /\ \A g \in Fds \ {f} : fdt'[g] = t[g]
    BY <1>1, <2>1
  <2> QED
    BY <1>2, <2>1, <2>2, <2>3 DEF MakesFile, Elsewhere
<1>6. CASE fdt' = t /\ MakesNone
  BY <1>2, <1>6 DEF Elsewhere
<1> QED
  BY <1>3, <1>4, <1>5, <1>6, Zenon DEF CreatePipe, MakesNone

\* The table after a fork.  A descriptor of an old pipe that is open was open
\* before and was not prevPipe's; what is new belongs to currPipe.
ForkTable ==
    /\ Table'
    /\ DOMAIN data \subseteq DOMAIN data'
    /\ \A f \in Fds : fdt[f] # Closed /\ ~InUse(prevPipe, f) => fdt'[f] = fdt[f]
    /\ \A i \in DOMAIN data' : \A f \in Fds : fdt'[f] = R(i) \/ fdt'[f] = W(i) =>
         \/ i \in DOMAIN data /\ fdt'[f] = fdt[f] /\ ~InUse(prevPipe, f)
         \/ i \notin DOMAIN data /\ InUse(currPipe', f)
    /\ \A f \in Fds : fdt'[f] = File => Command.conn = "FILE_CMD" /\ f = currPipe'.out

\* No output file is open when a command is about to run.
LEMMA NoFileAtCmd ==
    ASSUME ShellInv, pc = "cmd"
    PROVE  \A f \in Fds : fdt[f] # File
BY DEF ShellInv, HeldFile, Progress, MidLine

\* fork() leaves such a table.
LEMMA ForkMakesTable ==
    ASSUME TypeInv, ShellInv, RunCommand
    PROVE  ForkTable
<1> USE DEF TypeInv, ShellInv
<1>0. \A f \in Fds : fdt[f] # File
  BY NoFileAtCmd DEF RunCommand
<1>1. CASE \E p \in Pipes : MakesNew(p) /\ Elsewhere({p.in, p.out})
  <2>1. PICK p \in Pipes : MakesNew(p) /\ Elsewhere({p.in, p.out})
    BY <1>1
  <2>2. \A f \in Fds : ~InUse(p, f) => /\ InUse(prevPipe, f) => fdt'[f] = Closed
                                       /\ ~InUse(prevPipe, f) => fdt'[f] = fdt[f]
    BY <2>1 DEF Elsewhere, InUse
  <2>3. PICK n : n = Len(data) + 1
    OBVIOUS
  <2>4. /\ p.in \in Fds /\ p.out \in Fds /\ p.in # p.out
        /\ fdt'[p.in] = R(n) /\ fdt'[p.out] = W(n) /\ currPipe' = p
        /\ data' = Append(data, 0)
    BY <2>1, <2>3 DEF MakesNew
  <2>5. DOMAIN data' = DOMAIN data \cup {n} /\ n \notin DOMAIN data
    BY <2>3, <2>4, FreshPipe
  <2>6. Table'
    BY <2>2, <2>3, <2>4, TableGrows
  <2>7. \A f \in Fds : fdt[f] # Closed /\ ~InUse(prevPipe, f) => fdt'[f] = fdt[f]
    <3>1. \A f \in Fds : InUse(p, f) => InUse(prevPipe, f) \/ fdt[f] = Closed
      BY <2>1 DEF MakesNew, InUse
    <3> QED
      BY <2>2, <3>1
  <2>8. ASSUME NEW i \in DOMAIN data', NEW f \in Fds, fdt'[f] = R(i) \/ fdt'[f] = W(i)
        PROVE  \/ i \in DOMAIN data /\ fdt'[f] = fdt[f] /\ ~InUse(prevPipe, f)
               \/ i \notin DOMAIN data /\ InUse(p, f)
    <3>1. CASE InUse(p, f)
      BY <2>4, <2>5, <2>8, <3>1, ObjectFacts DEF InUse
    <3>2. CASE ~InUse(p, f)
      <4>1. fdt'[f] = fdt[f] /\ ~InUse(prevPipe, f)
        BY <2>2, <2>8, <3>2, ObjectFacts
      <4>2. PICK j \in DOMAIN data : fdt[f] = R(j) \/ fdt[f] = W(j)
        BY <1>0, <2>8, <4>1, ObjectFacts DEF Table
      <4> QED
        BY <2>8, <4>1, <4>2, ObjectFacts
    <3> QED
      BY <3>1, <3>2
  <2>9. \A f \in Fds : fdt'[f] # File
    BY <1>0, <2>2, <2>4, ObjectFacts DEF InUse
  <2> QED
    BY <2>4, <2>5, <2>6, <2>7, <2>8, <2>9 DEF ForkTable
<1>2. ASSUME NEW S, S \subseteq Fds, Elsewhere(S), data' = data,
             \A f \in S : /\ fdt'[f] = File /\ Command.conn = "FILE_CMD" /\ f = currPipe'.out
                          /\ InUse(prevPipe, f) \/ fdt[f] = Closed
      PROVE  ForkTable
  <2>1. \A f \in Fds : \/ fdt'[f] = Closed
                       \/ fdt'[f] = fdt[f] /\ ~InUse(prevPipe, f)
                       \/ fdt'[f] = File /\ f \in S
    BY <1>2 DEF Elsewhere
  <2>2. Table'
    <3>1. \A f \in Fds : \/ fdt'[f] = Closed \/ fdt'[f] = File
                         \/ \E i \in DOMAIN data' : fdt'[f] = R(i) \/ fdt'[f] = W(i)
      BY <1>2, <2>1 DEF Table
    <3>2. \A i \in DOMAIN data' : \A f, g \in Fds :
            /\ fdt'[f] = R(i) /\ fdt'[g] = R(i) => f = g
            /\ fdt'[f] = W(i) /\ fdt'[g] = W(i) => f = g
      BY <1>2, <2>1, ObjectFacts DEF Table
    <3> QED
      BY <3>1, <3>2 DEF Table
  <2>3. \A f \in Fds : fdt[f] # Closed /\ ~InUse(prevPipe, f) => fdt'[f] = fdt[f]
    BY <1>2 DEF Elsewhere
  <2>4. \A i \in DOMAIN data' : \A f \in Fds : fdt'[f] = R(i) \/ fdt'[f] = W(i) =>
          i \in DOMAIN data /\ fdt'[f] = fdt[f] /\ ~InUse(prevPipe, f)
    BY <1>2, <2>1, ObjectFacts
  <2>5. \A f \in Fds : fdt'[f] = File => Command.conn = "FILE_CMD" /\ f = currPipe'.out
    BY <1>0, <1>2, <2>1, ObjectFacts
  <2> QED
    BY <1>2, <2>2, <2>3, <2>4, <2>5 DEF ForkTable
<1>3. CASE \E f \in Fds : MakesFile(f) /\ Elsewhere({f})
  <2>1. PICK f \in Fds : MakesFile(f) /\ Elsewhere({f})
    BY <1>3
  <2>2. currPipe'.out = f
    BY <2>1 DEF MakesFile
  <2> QED
    BY <1>2, <2>1, <2>2 DEF MakesFile
<1>4. CASE MakesNone /\ Elsewhere({})
  BY <1>2, <1>4 DEF MakesNone
<1> QED
  BY <1>1, <1>3, <1>4, ForkMakes

\* A pipe nobody reads is left alone: prevPipe is the pipe of the last child.
LEMMA ForkKeeps ==
    ASSUME TypeInv, ShellInv, ForkTable, NEW id \in DOMAIN data, NEW ws, Fed(id, ws)
    PROVE  Keeps(id)
<1> SUFFICES ASSUME NEW f \in Fds, fdt[f] = R(id) \/ fdt[f] = W(id) PROVE fdt'[f] = fdt[f]
  BY DEF Keeps
<1>1. fdt[f] # Closed
  BY ObjectFacts
<1>2. ASSUME InUse(prevPipe, f) PROVE FALSE
  <2>1. /\ Len(procs) \in DOMAIN procs
        /\ \E j \in DOMAIN data : /\ procs[Len(procs)].in = R(j) /\ Owns(prevPipe, j)
                                  /\ fdt[f] = R(j) \/ fdt[f] = W(j)
    BY <1>2, PrevMeaning DEF TypeInv, ShellInv
  <2>2. PICK j \in DOMAIN data : /\ procs[Len(procs)].in = R(j)
                                 /\ fdt[f] = R(j) \/ fdt[f] = W(j)
    BY <2>1
  <2>3. j = id
    BY <2>2, ObjectFacts
  <2> QED
    BY <2>1, <2>2, <2>3 DEF Fed
<1> QED
  BY <1>1, <1>2 DEF ForkTable

\* What the new child reads: the pipe of the children in ws, the terminal when
\* there are none.
ForkInput(ws) ==
    /\ ws \subseteq DOMAIN procs
    /\ pos = 1 => ws = DueAt(lineno)
    /\ pos > 1 => ws = {Len(procs)} /\ Last.cmd.conn = "PIPE"
    /\ \/ ws = {} /\ pos = 1 /\ currPipe = NoPipe /\ Last'.in = Tty
       \/ /\ ws # {}
          /\ \E id \in DOMAIN data : /\ Owns(currPipe, id) /\ Fed(id, ws)
                                     /\ Last'.in = R(id) /\ Owns(prevPipe, id)'

\* That is what its dup2() finds.
LEMMA ForkReads ==
    ASSUME TypeInv, ShellInv, ForkTable, ForkShell, NewKid
    PROVE  \E ws : ForkInput(ws)
<1> USE DEF TypeInv, ShellInv
<1>1. pc = "cmd" /\ prevPipe' = currPipe /\ (pos = 1 \/ pos > 1)
  BY DEF ForkShell
<1>2. ASSUME NEW ws, ws # {}, Piped(currPipe, ws)
      PROVE  \E id \in DOMAIN data : /\ Owns(currPipe, id) /\ Fed(id, ws)
                                     /\ Last'.in = R(id) /\ Owns(prevPipe, id)'
  <2>1. PICK id \in DOMAIN data : Owns(currPipe, id) /\ Fed(id, ws)
    BY <1>2 DEF Piped
  <2>2. Keeps(id)
    BY <2>1, ForkKeeps
  <2>3. Owns(prevPipe, id)'
    BY <1>1, <2>1, <2>2 DEF Owns, Keeps
  <2>4. Last'.in = R(id)
    <3>1. currPipe.in \in Fds /\ fdt'[currPipe.in] = R(id) /\ R(id) # Closed
      BY <1>1, <2>3, ObjectFacts DEF Owns
    <3> QED
      BY <3>1, Dup2Facts DEF NewKid
  <2> QED
    BY <2>1, <2>3, <2>4
<1>3. CASE pos = 1
  <2>1. Feeds(currPipe, DueAt(lineno)) /\ DueAt(lineno) \subseteq DOMAIN procs
    BY <1>1, <1>3 DEF Curr, DueAt
  <2>2. CASE DueAt(lineno) = {} /\ currPipe = NoPipe
    <3>1. currPipe.in \notin Fds
      BY <2>2, FdLimitAssumption DEF NoPipe, Fds
    <3>2. Last'.in = Tty
      BY <3>1, Dup2Facts DEF NewKid
    <3> QED
      BY <1>3, <2>1, <2>2, <3>2 DEF ForkInput
  <2>3. CASE DueAt(lineno) # {} /\ Piped(currPipe, DueAt(lineno))
    BY <1>2, <1>3, <2>1, <2>3 DEF ForkInput
  <2> QED
    BY <2>1, <2>2, <2>3 DEF Feeds
<1>4. CASE pos > 1
  <2>1. MidLine /\ Forked
    BY <1>1, <1>4 DEF MidLine, Forked
  <2>2. Last.cmd.conn = "PIPE" /\ procs # << >>
    BY <1>1, <1>4, <2>1 DEF Progress
  <2>3. Piped(currPipe, {Len(procs)})
    BY <2>1, <2>2 DEF Curr
  <2>4. Len(procs) \in DOMAIN procs
    BY <2>2 DEF TypeOK
  <2>5. pos # 1
    BY <1>4
  <2> QED
    BY <1>2, <1>4, <2>2, <2>3, <2>4, <2>5 DEF ForkInput
<1> QED
  BY <1>1, <1>3, <1>4

\* What the new child writes to: not a pipe, a new pipe, or the pipe of the
\* children that are piped to the same line already.
DueLine == lineno + Command.n
OutNone ==
    /\ Command.conn \in {"END", "FILE_CMD"} /\ Last'.out \in {Tty, File}
    /\ UNCHANGED <<buffer, data>>
    /\ Command.conn = "END" => currPipe' = currPipe
    /\ Command.conn = "FILE_CMD" =>
         \/ currPipe' = NoPipe
         \/ currPipe'.in = -1 /\ currPipe'.out \in Fds /\ fdt'[currPipe'.out] = File
OutNew(n) ==
    /\ n \notin DOMAIN data /\ DOMAIN data' = DOMAIN data \cup {n}
    /\ Last'.out = W(n) /\ Owns(currPipe, n)'
    /\ \/ Command.conn = "PIPE" /\ buffer' = buffer
       \/ /\ Command.conn = "NUMBERED_PIPE" /\ DueAt(DueLine) = {}
          /\ buffer' = [buffer EXCEPT ![DueLine % Size] = currPipe']
OutShared(id) ==
    /\ id \in DOMAIN data /\ UNCHANGED <<buffer, data>>
    /\ Command.conn = "NUMBERED_PIPE" /\ DueAt(DueLine) # {} /\ Fed(id, DueAt(DueLine))
    /\ Last'.out = W(id) /\ Owns(currPipe, id)' /\ currPipe' = buffer[DueLine % Size]

\* The slot of a numbered pipe is that of the line it is due at.
LEMMA ForkSlot ==
    ASSUME TypeOK, Ring, ForkShell, Command.conn = "NUMBERED_PIPE"
    PROVE  /\ Slot(Command.n) = DueLine % Size
           /\ DueLine \in lineno + 1 .. Size /\ DueLine \in 1 .. Size
           /\ lineno \in Nat
<1>1. /\ lineno \in Nat /\ Size \in Nat /\ Command.n \in Nat /\ Command.n > 0
      /\ lineno + Command.n <= Size
  BY SizeAssumption DEF TypeOK, ForkShell, Commands
<1>2. lineno \in 0 .. Size - 1
  BY <1>1
<1>3. head = lineno
  BY <1>2, RingSlots DEF Ring
<1> QED
  BY <1>1, <1>3 DEF Slot, DueLine

\* dup2() of the write end of pipe id, when the pipe that was read is another.
LEMMA StdoutOfPipe ==
    ASSUME NEW ws, ForkInput(ws), ForkShell, NEW id, Owns(currPipe, id)', NewKid,
           \A j \in DOMAIN data : Fed(j, ws) => id # j
    PROVE  Last'.out = W(id)
<1> DEFINE t == ClosePipe(fdt', currPipe)
<1>1. currPipe'.out \in Fds /\ fdt'[currPipe'.out] = W(id)
  BY DEF Owns
<1>2. ~InUse(currPipe, currPipe'.out)
  <2>1. CASE currPipe = NoPipe
    BY <1>1, <2>1, NoPipeUnused
  <2>2. CASE \E j \in DOMAIN data : Fed(j, ws) /\ Owns(prevPipe, j)'
    <3>1. PICK j \in DOMAIN data : Fed(j, ws) /\ Owns(prevPipe, j)'
      BY <2>2
    <3>2. fdt'[currPipe.in] = R(j) /\ fdt'[currPipe.out] = W(j) /\ id # j
      BY <3>1 DEF Owns, ForkShell
    <3> QED
      BY <1>1, <3>2, ObjectFacts DEF InUse
  <2> QED
    BY <2>1, <2>2 DEF ForkInput
<1>3. t[currPipe'.out] = W(id)
  BY <1>1, <1>2, CloseFacts
<1>4. Last'.out = Dup2(t, currPipe'.out)
  BY DEF NewKid, Stdout
<1> HIDE DEF t
<1> QED
  BY <1>1, <1>3, <1>4, Dup2Facts, ObjectFacts

\* Every fork is one of the three.
LEMMA ForkWrites ==
    ASSUME TypeInv, ShellInv, RunCommand, ForkTable, ForkShell, NewKid, NEW ws, ForkInput(ws)
    PROVE  OutNone \/ (\E n : OutNew(n)) \/ (\E id : OutShared(id))
<1> USE DEF TypeInv, ShellInv
<1> DEFINE t == ClosePipe(fdt', currPipe)
<1>0. Last'.out = Dup2(t, currPipe'.out)
  BY DEF NewKid, Stdout
<1>1. \A f \in Fds : /\ InUse(currPipe, f) => t[f] = Closed
                     /\ ~InUse(currPipe, f) => t[f] = fdt'[f]
  BY CloseFacts
<1> HIDE DEF t
<1>2. CASE \E p \in Pipes : MakesNew(p)
  <2>1. PICK p \in Pipes : MakesNew(p)
    BY <1>2
  <2>2. PICK n : n = Len(data) + 1
    OBVIOUS
  <2>3. DOMAIN data' = DOMAIN data \cup {n} /\ n \notin DOMAIN data
    BY <2>1, <2>2, FreshPipe DEF MakesNew
  <2>4. Owns(currPipe, n)'
    BY <2>1, <2>2 DEF MakesNew, Owns
  <2>5. Last'.out = W(n)
    BY <2>3, <2>4, StdoutOfPipe
  <2>6. CASE Command.conn = "PIPE" /\ buffer' = buffer
    BY <2>3, <2>4, <2>5, <2>6 DEF OutNew
  <2>7. CASE /\ Command.conn = "NUMBERED_PIPE" /\ SlotEmpty(Command.n)
             /\ buffer' = [buffer EXCEPT ![Slot(Command.n)] = p]
    <3>1. Slot(Command.n) = DueLine % Size /\ DueLine \in lineno + 1 .. Size
      BY <2>7, ForkSlot
    <3>2. buffer[DueLine % Size] = NoPipe /\ Feeds(buffer[DueLine % Size], DueAt(DueLine))
      BY <2>7, <3>1 DEF SlotEmpty, Ring
    <3>3. ~(NoPipe.in \in Fds)
      BY FdLimitAssumption DEF NoPipe, Fds
    <3>4. DueAt(DueLine) = {}
      BY <3>2, <3>3 DEF Feeds, Piped, Owns
    <3>5. currPipe' = p
      BY <2>1 DEF MakesNew
    <3> QED
      BY <2>3, <2>4, <2>5, <2>7, <3>1, <3>4, <3>5 DEF OutNew
  <2> QED
    BY <2>1, <2>6, <2>7 DEF MakesNew
<1>3. CASE \E f \in Fds : MakesFile(f)
  <2>1. PICK f \in Fds : MakesFile(f)
    BY <1>3
  <2>2. /\ currPipe'.in = -1 /\ currPipe'.out = f /\ fdt'[f] = File /\ Command.conn = "FILE_CMD"
        /\ UNCHANGED <<buffer, data>>
    BY <2>1 DEF MakesFile
  <2>3. Last'.out \in {Tty, File}
    BY <1>0, <1>1, <2>2, Dup2Facts, ObjectFacts
  <2> QED
    BY <2>2, <2>3 DEF OutNone
<1>4. CASE MakesNone /\ Command.conn = "FILE_CMD"
  <2>1. currPipe' = NoPipe /\ UNCHANGED <<buffer, data>>
    BY <1>4 DEF MakesNone
  <2>2. currPipe'.out \notin Fds
    BY <2>1, FdLimitAssumption DEF NoPipe, Fds
  <2>3. Last'.out = Tty
    BY <1>0, <2>2, Dup2Facts
  <2> QED
    BY <1>4, <2>1, <2>3 DEF OutNone
<1>5. CASE MakesNone /\ Command.conn = "END"
  <2>1. currPipe' = currPipe /\ UNCHANGED <<buffer, data>>
    BY <1>5 DEF MakesNone
  <2>2. currPipe'.out \in Fds => t[currPipe'.out] = Closed
    BY <1>1, <2>1 DEF InUse
  <2>3. Last'.out = Tty
    BY <1>0, <2>2, Dup2Facts
  <2> QED
    BY <1>5, <2>1, <2>3 DEF OutNone
<1>6. CASE MakesNone /\ Command.conn = "NUMBERED_PIPE"
  <2>1. Slot(Command.n) = DueLine % Size /\ DueLine \in lineno + 1 .. Size /\ lineno \in Nat
    BY <1>6, ForkSlot
  <2>2. /\ currPipe' = buffer[DueLine % Size] /\ buffer[DueLine % Size] # NoPipe
        /\ UNCHANGED <<buffer, data>>
    BY <1>6, <2>1 DEF MakesNone, SlotEmpty
  <2>3. PICK id \in DOMAIN data : /\ DueAt(DueLine) # {} /\ Fed(id, DueAt(DueLine))
                                  /\ Owns(buffer[DueLine % Size], id)
    BY <2>1, <2>2 DEF Ring, Feeds, Piped
  <2>4. Keeps(id)
    BY <2>3, ForkKeeps
  <2>5. Owns(currPipe, id)'
    BY <2>2, <2>3, <2>4 DEF Owns, Keeps
  <2>6. ASSUME NEW j \in DOMAIN data, Fed(j, ws) PROVE id # j
    <3>1. DueLine > lineno
      BY <2>1, SizeAssumption
    <3>2. pos = 1 \/ pos > 1
      BY DEF ForkShell
    <3>3. PICK a \in DOMAIN procs : a \in DueAt(DueLine)
      BY <2>3 DEF DueAt
    <3>4. a \notin ws
      <4>1. CASE pos = 1
        <5>1. ws = DueAt(lineno)
          BY <4>1 DEF ForkInput
        <5>2. procs[a].line + procs[a].cmd.n = DueLine
          BY <3>3 DEF DueAt
        <5> QED
          BY <2>1, <3>1, <5>1, <5>2 DEF DueAt
      <4>2. CASE pos > 1
        BY <3>3, <4>2 DEF ForkInput, DueAt, Last
      <4> QED
        BY <3>2, <4>1, <4>2
    <3> QED
      BY <2>3, <2>6, <3>3, <3>4 DEF Fed
  <2>7. Last'.out = W(id)
    BY <2>5, <2>6, StdoutOfPipe
  <2> QED
    BY <1>6, <2>2, <2>3, <2>5, <2>7 DEF OutShared
<1> QED
  BY <1>2, <1>3, <1>4, <1>5, <1>6, ForkMakes DEF MakesNone

\* Everything that is known about a fork.
ForkStep(ws) ==
    /\ ForkShell /\ NewKid /\ ForkTable /\ ForkInput(ws)
    /\ OutNone \/ (\E n : OutNew(n)) \/ (\E id : OutShared(id))

\* RunCommand is such a step.
LEMMA RunIsFork ==
    ASSUME TypeInv, ShellInv, RunCommand, BeforeWrap'
    PROVE  \E ws : ForkStep(ws)
<1>1. NewKid
  BY ForkKid
<1>2. ForkShell /\ ForkTable
  BY <1>1, ForkControl, ForkMakesTable
<1>3. PICK ws : ForkInput(ws)
  BY <1>1, <1>2, ForkReads
<1>4. OutNone \/ (\E n : OutNew(n)) \/ (\E id : OutShared(id))
  BY <1>1, <1>2, <1>3, ForkWrites
<1> QED
  BY <1>1, <1>2, <1>3, <1>4 DEF ForkStep

\* The children piped to a line after the fork.
LEMMA ForkDue ==
    ASSUME NewKid, NEW k
    PROVE  /\ (Command.conn = "NUMBERED_PIPE" /\ DueLine = k) =>
                DueAt(k)' = DueAt(k) \cup {Len(procs')}
           /\ ~(Command.conn = "NUMBERED_PIPE" /\ DueLine = k) => DueAt(k)' = DueAt(k)
<1>1. /\ procs'[Len(procs')].cmd = Command /\ procs'[Len(procs')].line = lineno
  BY DEF NewKid, Last
<1> QED
  BY <1>1 DEF NewKid, DueAt, DueLine

\* A pipe that is not the new child's input is not read.
LEMMA ForkUnread ==
    ASSUME NEW ws, ForkInput(ws), NEW id, NEW xs, Fed(id, xs), xs \subseteq DOMAIN procs,
           xs = {} \/ xs # ws
    PROVE  Last'.in # R(id)
<1> SUFFICES ASSUME Last'.in = R(id) PROVE FALSE
  OBVIOUS
<1>1. ws # {} /\ \E j \in DOMAIN data : Fed(j, ws) /\ Last'.in = R(j)
  BY ObjectFacts DEF ForkInput
<1>2. PICK j \in DOMAIN data : Fed(j, ws) /\ Last'.in = R(j)
  BY <1>1
<1>3. ws \subseteq DOMAIN procs /\ ws # xs
  BY <1>1 DEF ForkInput
<1>4. id # j
  BY <1>2, <1>3, FedApart
<1> QED
  BY <1>2, <1>4, ObjectFacts

\* A pipe that is not in the new child's slot of the ring is not written to.
LEMMA ForkUnwritten ==
    ASSUME NEW ws, ForkStep(ws), NEW id \in DOMAIN data, NEW xs, Fed(id, xs),
           xs \subseteq DOMAIN procs,
           xs = {} \/ (Command.conn = "NUMBERED_PIPE" => xs # DueAt(DueLine))
    PROVE  Last'.out # W(id)
<1>1. CASE OutNone
  BY <1>1, ObjectFacts DEF OutNone
<1>2. CASE \E n : OutNew(n)
  BY <1>2, ObjectFacts DEF OutNew
<1>3. CASE \E j : OutShared(j)
  <2>1. PICK j : OutShared(j)
    BY <1>3
  <2>2. DueAt(DueLine) \subseteq DOMAIN procs /\ xs # DueAt(DueLine) /\ Fed(j, DueAt(DueLine))
    BY <2>1 DEF OutShared, DueAt
  <2>3. id # j
    BY <2>2, FedApart
  <2> QED
    BY <2>1, <2>3, ObjectFacts DEF OutShared
<1> QED
  BY <1>1, <1>2, <1>3 DEF ForkStep

\* A pipe the new child is not on keeps its writers.
LEMMA ForkFed ==
    ASSUME NewKid, NEW id, NEW xs, Fed(id, xs), xs \subseteq DOMAIN procs,
           Last'.in # R(id), Last'.out # W(id)
    PROVE  Fed(id, xs)'
<1>1. procs'[Len(procs')].in # R(id) /\ procs'[Len(procs')].out # W(id)
  BY DEF Last
<1> QED
  BY <1>1 DEF Fed, NewKid

\* A pipe that a child reads is not one the new child uses.
LEMMA ForkOldPipe ==
    ASSUME KidEnds, NEW ws, ForkStep(ws), NEW b \in DOMAIN procs, NEW i, procs[b].in = R(i)
    PROVE  Last'.in # R(i) /\ Last'.out # W(i)
<1>1. i \in DOMAIN data
  BY ObjectFacts DEF KidEnds
<1>2. Last'.in # R(i)
  <2>1. Last'.in = Tty \/ \E j \in DOMAIN data : Fed(j, ws) /\ Last'.in = R(j)
    BY DEF ForkStep, ForkInput
  <2> QED
    BY <2>1, ObjectFacts DEF Fed
<1>3. CASE OutNone
  BY <1>2, <1>3, ObjectFacts DEF OutNone
<1>4. CASE \E n : OutNew(n)
  BY <1>1, <1>2, <1>4, ObjectFacts DEF OutNew
<1>5. CASE \E id : OutShared(id)
  BY <1>2, <1>5, ObjectFacts DEF OutShared, Fed
<1> QED
  BY <1>3, <1>4, <1>5 DEF ForkStep

\* The children after a fork: the wiring of the new one is right, and that of
\* the others is not disturbed.
LEMMA ForkKids ==
    ASSUME TypeInv, ShellInv, KidsInv, BeforeWrap, NEW ws, ForkStep(ws)
    PROVE  KidsInv'
<1> USE DEF TypeInv, ShellInv, KidsInv
<1>k. PICK k : k = Len(procs')
  OBVIOUS
<1>1. /\ DOMAIN procs' = DOMAIN procs \cup {k} /\ k \notin DOMAIN procs
      /\ \A c \in DOMAIN procs : procs'[c] = procs[c]
      /\ procs'[k] = Last' /\ Last'.line = lineno /\ Last'.pos = pos /\ Last'.cmd = Command
      /\ Len(procs') = Len(procs) + 1 /\ Len(procs) \in Nat
  BY <1>k DEF ForkStep, NewKid, Last
<1>2. /\ pc = "cmd" /\ pc' = "wait" /\ lineno' = lineno /\ pos' = pos /\ lineno \in Nat
      /\ pipelineProcessor' = pipelineProcessor /\ pos \in Nat /\ pos >= 1
  BY DEF ForkStep, ForkShell, TypeOK
<1>3. DOMAIN data \subseteq DOMAIN data'
  BY DEF ForkStep, ForkTable
<1>4. ASSUME NEW c \in DOMAIN procs
      PROVE  /\ procs[c].line \in Nat /\ procs[c].line <= lineno
             /\ procs[c].pos \in Nat /\ procs[c].pos >= 1
             /\ procs[c].line = lineno => procs[c].pos < pos
  BY <1>2, KidTypes DEF KidOrder, Progress
<1>5. KidEnds'
  <2>1. ASSUME NEW c \in DOMAIN procs
        PROVE  /\ procs[c].in = Tty \/ \E i \in DOMAIN data' : procs[c].in = R(i)
               /\ \/ /\ procs[c].cmd.conn \in {"END", "FILE_CMD"}
                     /\ procs[c].out = Tty \/ procs[c].out = File
                  \/ /\ procs[c].cmd.conn \in {"PIPE", "NUMBERED_PIPE"}
                     /\ \E i \in DOMAIN data' : procs[c].out = W(i)
    BY <1>3 DEF KidEnds
  <2>2. Last'.in = Tty \/ \E i \in DOMAIN data' : Last'.in = R(i)
    BY <1>3 DEF ForkStep, ForkInput
  <2>3. \/ /\ Command.conn \in {"END", "FILE_CMD"}
           /\ Last'.out = Tty \/ Last'.out = File
        \/ /\ Command.conn \in {"PIPE", "NUMBERED_PIPE"}
           /\ \E i \in DOMAIN data' : Last'.out = W(i)
    <3>1. CASE OutNone
      BY <3>1 DEF OutNone
    <3>2. CASE \E n : OutNew(n)
      BY <3>2 DEF OutNew
    <3>3. CASE \E id : OutShared(id)
      BY <1>3, <3>3 DEF OutShared
    <3> QED
      BY <3>1, <3>2, <3>3 DEF ForkStep
  <2> QED
    BY <1>1, <2>1, <2>2, <2>3 DEF KidEnds
<1>6. KidOrder'
  <2>1. \A c \in DOMAIN procs' : procs'[c].line <= lineno' /\ procs'[c].pos >= 1
    BY <1>1, <1>2, <1>4
  <2>2. ASSUME NEW c \in DOMAIN procs', NEW d \in DOMAIN procs',
               procs'[c].line = procs'[d].line, procs'[c].pos = procs'[d].pos
        PROVE  c = d
    <3>1. ASSUME NEW a \in DOMAIN procs PROVE procs[a].line # lineno \/ procs[a].pos # pos
      BY <1>2, <1>4
    <3>2. CASE c = k \/ d = k
      BY <1>1, <2>2, <3>1, <3>2
    <3>3. CASE c \in DOMAIN procs /\ d \in DOMAIN procs
      BY <1>1, <2>2, <3>3 DEF KidOrder
    <3> QED
      BY <1>1, <3>2, <3>3
  <2> QED
    BY <2>1, <2>2 DEF KidOrder
<1>7. Pids'
  <2>1. pipelineProcessor[1] \in Nat /\ pipelineProcessor[2] \in Nat
    BY DEF TypeOK
  <2>2. pipelineProcessor[2] = Len(procs) /\ pipelineProcessor[1] <= Len(procs)
    BY <1>2 DEF Pids
  <2> QED
    BY <1>1, <1>2, <2>1, <2>2 DEF Pids
<1>8. PipelineWiring'
  <2> SUFFICES ASSUME NEW a \in DOMAIN procs', NEW b \in DOMAIN procs',
                      procs'[a].cmd.conn = "PIPE", procs'[a].line = procs'[b].line,
                      procs'[b].pos = procs'[a].pos + 1
               PROVE  /\ procs'[a].out = W(procs'[b].in.id) /\ procs'[b].in.end = "r"
                      /\ \A c \in DOMAIN procs' : /\ procs'[c].out = procs'[a].out => c = a
                                                  /\ procs'[c].in = procs'[b].in => c = b
    BY DEF PipelineWiring
  <2>1. CASE a \in DOMAIN procs /\ b = k
    <3>1. /\ procs[a].cmd.conn = "PIPE" /\ procs[a].line = lineno
          /\ pos = procs[a].pos + 1 /\ procs[a].pos \in Nat /\ procs[a].pos >= 1
      BY <1>1, <1>4, <2>1
    <3>2. pos > 1
      BY <3>1
    <3>3. a = Len(procs)
      <4>1. Forked /\ pc = "cmd"
        BY <1>2, <3>2 DEF Forked, MidLine
      <4>2. Last.line = lineno /\ Last.pos = pos - 1 /\ procs # << >>
        BY <3>2, <4>1 DEF Progress
      <4>3. Len(procs) \in DOMAIN procs
        BY <4>2 DEF TypeOK
      <4>4. procs[Len(procs)].pos = procs[a].pos /\ procs[Len(procs)].line = procs[a].line
        BY <3>1, <4>2 DEF Last
      <4> QED
        BY <2>1, <4>3, <4>4 DEF KidOrder
    <3>4. PICK id \in DOMAIN data : Fed(id, {a}) /\ Last'.in = R(id)
      BY <3>2, <3>3 DEF ForkStep, ForkInput
    <3>5. Last'.out # W(id)
      <4>1. {a} \subseteq DOMAIN procs /\ {a} # DueAt(DueLine)
        BY <2>1, <3>1 DEF DueAt
      <4> QED
        BY <3>4, <4>1, ForkUnwritten
    <3>6. R(id).id = id /\ R(id).end = "r"
      BY ObjectFacts
    <3>7. procs'[a].out = W(id) /\ procs'[b].in = R(id)
      BY <1>1, <2>1, <3>4 DEF Fed
    <3>8. \A c \in DOMAIN procs' : /\ procs'[c].out = W(id) => c = a
                                   /\ procs'[c].in = R(id) => c = b
      BY <1>1, <2>1, <3>4, <3>5 DEF Fed
    <3> QED
      BY <3>6, <3>7, <3>8
  <2>2. CASE a = k
    <3>1. procs'[a].line = lineno /\ procs'[a].pos = pos
      BY <1>1, <2>2
    <3>2. b # k
      BY <1>1, <1>2, <3>1
    <3>3. b \in DOMAIN procs /\ procs[b].line = lineno /\ procs[b].pos = pos + 1
      BY <1>1, <3>1, <3>2
    <3> QED
      BY <1>2, <1>4, <3>3
  <2>3. CASE a \in DOMAIN procs /\ b \in DOMAIN procs
    <3>1. /\ procs[a].out = W(procs[b].in.id) /\ procs[b].in.end = "r"
          /\ \A c \in DOMAIN procs : /\ procs[c].out = procs[a].out => c = a
                                     /\ procs[c].in = procs[b].in => c = b
      BY <1>1, <2>3 DEF PipelineWiring
    <3>2. PICK i \in DOMAIN data : procs[b].in = R(i)
      BY <2>3, <3>1, ObjectFacts DEF KidEnds
    <3>3. Last'.in # R(i) /\ Last'.out # W(i)
      BY <2>3, <3>2, ForkOldPipe
    <3>4. procs[a].out = W(i)
      BY <3>1, <3>2, ObjectFacts
    <3> QED
      BY <1>1, <2>3, <3>1, <3>2, <3>3, <3>4
  <2> QED
    BY <1>1, <2>1, <2>2, <2>3
<1>9. NumberedPipeDelivery'
  <2> SUFFICES ASSUME NEW b \in DOMAIN procs', procs'[b].pos = 1
               PROVE  ReadsFrom(b, DueAt(procs[b].line))'
    BY DEF NumberedPipeDelivery
  <2>m. PICK m : m = procs'[b].line
    OBVIOUS
  <2>1. m \in Nat /\ m <= lineno
    BY <1>1, <1>2, <1>4, <2>m
  <2>2. DueAt(m)' = DueAt(m)
    <3>1. ~(Command.conn = "NUMBERED_PIPE" /\ DueLine = m)
      <4> SUFFICES ASSUME Command.conn = "NUMBERED_PIPE" PROVE DueLine # m
        OBVIOUS
      <4>1. DueLine \in lineno + 1 .. Size
        BY ForkSlot DEF ForkStep
      <4> QED
        BY <1>2, <2>1, <4>1, SizeAssumption
    <3> QED
      BY <3>1, ForkDue DEF ForkStep
  <2>3. DueAt(procs[b].line)' = DueAt(m)
    BY <2>m, <2>2 DEF DueAt
  <2>4. CASE b \in DOMAIN procs
    <3>1. procs'[b] = procs[b] /\ ReadsFrom(b, DueAt(m))
      BY <1>1, <2>4, <2>m DEF NumberedPipeDelivery
    <3>2. CASE DueAt(m) = {}
      BY <2>3, <3>1, <3>2 DEF ReadsFrom
    <3>3. CASE DueAt(m) # {}
      <4>1. /\ procs[b].in.end = "r"
            /\ {a \in DOMAIN procs : procs[a].out = W(procs[b].in.id)} = DueAt(m)
        BY <3>1, <3>3 DEF ReadsFrom
      <4>2. PICK i \in DOMAIN data : procs[b].in = R(i)
        BY <2>4, <4>1, ObjectFacts DEF KidEnds
      <4>3. Last'.out # W(i) /\ procs[b].in.id = i
        BY <2>4, <4>2, ForkOldPipe, ObjectFacts
      <4>4. {a \in DOMAIN procs' : procs'[a].out = W(i)} = {a \in DOMAIN procs : procs[a].out = W(i)}
        BY <1>1, <4>3
      <4> QED
        BY <2>3, <3>1, <3>3, <4>1, <4>3, <4>4 DEF ReadsFrom
    <3> QED
      BY <3>2, <3>3
  <2>5. CASE b = k
    <3>1. m = lineno /\ pos = 1 /\ ws = DueAt(m) /\ ws \subseteq DOMAIN procs
      BY <1>1, <2>5, <2>m DEF ForkStep, ForkInput
    <3>2. CASE ws = {}
      <4>1. procs'[b].in = Tty
        BY <1>1, <2>5, <3>2 DEF ForkStep, ForkInput
      <4> QED
        BY <2>3, <3>1, <3>2, <4>1 DEF ReadsFrom
    <3>3. CASE ws # {}
      <4>1. PICK id \in DOMAIN data : Fed(id, ws) /\ Last'.in = R(id)
        BY <3>3 DEF ForkStep, ForkInput
      <4>2. Last'.out # W(id)
        <5>1. Command.conn = "NUMBERED_PIPE" => ws # DueAt(DueLine)
          <6> SUFFICES ASSUME Command.conn = "NUMBERED_PIPE" PROVE ws # DueAt(DueLine)
            OBVIOUS
          <6>1. DueLine \in lineno + 1 .. Size
            BY ForkSlot DEF ForkStep
          <6>2. DueLine # m
            BY <1>2, <3>1, <6>1, SizeAssumption
          <6> QED
            BY <3>1, <3>3, <6>2 DEF DueAt
        <5> QED
          BY <3>1, <4>1, <5>1, ForkUnwritten
      <4>3. {a \in DOMAIN procs' : procs'[a].out = W(id)} = ws
        BY <1>1, <3>1, <4>1, <4>2 DEF Fed
      <4>4. procs'[b].in = R(id) /\ R(id).end = "r" /\ R(id).id = id
        BY <1>1, <2>5, <4>1, ObjectFacts
      <4> QED
        BY <2>3, <3>1, <3>3, <4>3, <4>4 DEF ReadsFrom
    <3> QED
      BY <3>2, <3>3
  <2> QED
    BY <1>1, <2>4, <2>5
<1> QED
  BY <1>5, <1>6, <1>7, <1>8, <1>9

\* The ring after a fork: the new child is added to the line it is piped to.
LEMMA ForkRing ==
    ASSUME TypeInv, ShellInv, KidsInv, NEW ws, ForkStep(ws)
    PROVE  Ring'
<1> USE DEF TypeInv, ShellInv, KidsInv
<1>1. NewKid /\ ForkTable /\ ForkShell /\ ForkInput(ws)
  BY DEF ForkStep
<1>2. /\ head' = head /\ lineno' = lineno /\ lineno \in Nat
      /\ DOMAIN data \subseteq DOMAIN data'
  BY <1>1 DEF ForkShell, ForkTable, TypeOK
<1>3. ASSUME NEW k \in lineno + 1 .. Size PROVE Feeds(buffer[k % Size], DueAt(k))'
  <2>k. k \in 1 .. Size /\ k > lineno /\ k % Size \in 0 .. Size - 1
    BY <1>2, RingSlots, SizeAssumption
  <2>1. PICK p, xs : p = buffer[k % Size] /\ xs = DueAt(k)
    OBVIOUS
  <2>2. Feeds(p, xs) /\ xs \subseteq DOMAIN procs
    BY <2>1 DEF Ring, DueAt
  <2>3. xs # {} => xs # ws
    <3> SUFFICES ASSUME NEW a \in xs PROVE a \notin ws
      OBVIOUS
    <3>1. pos = 1 \/ pos > 1
      BY <1>1 DEF ForkShell
    <3>2. CASE pos = 1
      <4>1. ws = DueAt(lineno) /\ k # lineno
        BY <1>1, <1>2, <2>k, <3>2 DEF ForkInput
      <4> QED
        BY <2>1, <4>1 DEF DueAt
    <3>3. CASE pos > 1
      BY <1>1, <2>1, <3>3 DEF ForkInput, DueAt, Last
    <3> QED
      BY <3>1, <3>2, <3>3
  <2>4. CASE ~(Command.conn = "NUMBERED_PIPE" /\ DueLine = k)
    <3>1. DueAt(k)' = xs
      BY <1>1, <2>1, <2>4, ForkDue
    <3>2. buffer'[k % Size] = p
      <4>1. CASE Command.conn = "NUMBERED_PIPE"
        <5>1. DueLine \in 1 .. Size /\ DueLine # k
          BY <1>1, <2>4, <4>1, ForkSlot
        <5>2. DueLine % Size # k % Size
          BY <2>k, <5>1, RingSlots
        <5>3. buffer' = buffer \/ buffer' = [buffer EXCEPT ![DueLine % Size] = currPipe']
          BY DEF ForkStep, OutNone, OutNew, OutShared
        <5> QED
          BY <2>1, <2>k, <5>2, <5>3 DEF TypeOK
      <4>2. CASE Command.conn # "NUMBERED_PIPE"
        <5>1. buffer' = buffer
          BY <4>2 DEF ForkStep, OutNone, OutNew, OutShared
        <5> QED
          BY <2>1, <5>1
      <4> QED
        BY <4>1, <4>2
    <3>3. CASE xs = {} /\ p = NoPipe
      BY <3>1, <3>2, <3>3 DEF Feeds
    <3>4. CASE xs # {} /\ Piped(p, xs)
      <4>1. PICK id \in DOMAIN data : Owns(p, id) /\ Fed(id, xs)
        BY <3>4 DEF Piped
      <4>2. Keeps(id)
        BY <1>1, <4>1, ForkKeeps
      <4>3. Owns(p, id)'
        BY <4>1, <4>2 DEF Owns, Keeps
      <4>4. Last'.in # R(id)
        BY <1>1, <2>2, <2>3, <3>4, <4>1, ForkUnread
      <4>5. Last'.out # W(id)
        <5>1. Command.conn = "NUMBERED_PIPE" => xs # DueAt(DueLine)
          BY <2>1, <2>4, <3>4 DEF DueAt
        <5> QED
          BY <2>2, <4>1, <5>1, ForkUnwritten
      <4>6. Fed(id, xs)'
        BY <1>1, <2>2, <4>1, <4>4, <4>5, ForkFed
      <4>7. Piped(p, xs)'
        BY <1>2, <4>1, <4>3, <4>6 DEF Piped
      <4> QED
        BY <3>1, <3>2, <3>4, <4>7 DEF Feeds, Piped, Owns, Fed
    <3> QED
      BY <2>2, <3>3, <3>4 DEF Feeds
  <2>5. CASE Command.conn = "NUMBERED_PIPE" /\ DueLine = k
    <3>1. PICK n, ys : n = Len(procs') /\ ys = xs \cup {n}
      OBVIOUS
    <3>2. DueAt(k)' = ys /\ ys # {} /\ procs'[n] = Last'
      BY <1>1, <2>1, <2>5, <3>1, ForkDue DEF Last
    <3>3. ASSUME NEW id \in DOMAIN data', Owns(currPipe, id)', Fed(id, ys)',
                 buffer'[k % Size] = currPipe'
          PROVE  Feeds(buffer[k % Size], DueAt(k))'
      BY <3>2, <3>3 DEF Feeds, Piped, Owns, Fed
    <3>4. CASE \E id : OutNew(id)
      <4>1. PICK id : OutNew(id)
        BY <3>4
      <4>2. /\ id \notin DOMAIN data /\ id \in DOMAIN data' /\ Last'.out = W(id)
            /\ Owns(currPipe, id)' /\ xs = {}
            /\ buffer' = [buffer EXCEPT ![DueLine % Size] = currPipe']
        BY <2>1, <2>5, <4>1 DEF OutNew
      <4>3. buffer'[k % Size] = currPipe'
        BY <2>k, <2>5, <4>2 DEF TypeOK
      <4>4. \A c \in DOMAIN procs : procs[c].in # R(id) /\ procs[c].out # W(id)
        BY <4>2, ObjectFacts DEF KidEnds
      <4>5. Last'.in # R(id)
        BY <1>1, <4>2, ObjectFacts DEF ForkInput
      <4>6. Fed(id, ys)'
        BY <1>1, <3>1, <3>2, <4>2, <4>4, <4>5 DEF Fed, NewKid
      <4> QED
        BY <3>3, <4>2, <4>3, <4>6
    <3>5. CASE \E id : OutShared(id)
      <4>1. PICK id : OutShared(id)
        BY <3>5
      <4>2. /\ id \in DOMAIN data /\ Last'.out = W(id) /\ Owns(currPipe, id)'
            /\ xs # {} /\ Fed(id, xs) /\ currPipe' = buffer'[k % Size]
        BY <2>1, <2>5, <4>1 DEF OutShared
      <4>3. Last'.in # R(id)
        BY <1>1, <2>2, <2>3, <4>2, ForkUnread
      <4>4. Fed(id, ys)'
        BY <1>1, <3>1, <3>2, <4>2, <4>3 DEF Fed, NewKid
      <4> QED
        BY <1>2, <3>3, <4>2, <4>4
    <3>6. ~OutNone
      BY <2>5 DEF OutNone
    <3> QED
      BY <3>4, <3>5, <3>6 DEF ForkStep
  <2> QED
    BY <2>4, <2>5
<1> QED
  BY <1>2, <1>3 DEF Ring

\* The shell after a fork (cmdHandler.cpp:44-62).
LEMMA ForkKeepsShell ==
    ASSUME TypeInv, ShellInv, KidsInv, NEW ws, ForkStep(ws)
    PROVE  ShellInv'
<1> USE DEF TypeInv, ShellInv, KidsInv
<1>k. PICK k : k = Len(procs')
  OBVIOUS
<1>0. NewKid /\ ForkTable /\ ForkShell /\ ForkInput(ws)
  BY DEF ForkStep
<1>1. /\ DOMAIN procs' = DOMAIN procs \cup {k} /\ k \notin DOMAIN procs
      /\ \A c \in DOMAIN procs : procs'[c] = procs[c]
      /\ procs'[k] = Last' /\ Last'.line = lineno /\ Last'.pos = pos /\ Last'.cmd = Command
      /\ Len(procs') = Len(procs) + 1 /\ Len(procs) \in Nat
      /\ Last'.st = "forked" /\ Last'.inh = {fdt'[f] : f \in Fds}
  BY <1>0, <1>k DEF NewKid, Last
<1>2. /\ pc = "cmd" /\ pc' = "wait" /\ lineno' = lineno /\ pos' = pos /\ lineno \in Nat
      /\ queue' = queue /\ eol' = eol /\ running' = running /\ prevPipe' = currPipe
      /\ pos \in Nat /\ pos >= 1 /\ MidLine' /\ Forked'
  BY <1>0 DEF ForkShell, TypeOK, MidLine, Forked
<1>3. DOMAIN data \subseteq DOMAIN data' /\ Table'
  BY <1>0 DEF ForkTable
<1>4. Progress'
  <2>1. \A c \in DOMAIN procs' : procs'[c].line = lineno' => procs'[c].pos <= pos'
    <3>1. ASSUME NEW c \in DOMAIN procs, procs[c].line = lineno PROVE procs[c].pos <= pos
      BY <1>2, <3>1, KidTypes DEF Progress
    <3> QED
      BY <1>1, <1>2, <3>1
  <2>2. procs' # << >>
    BY <1>1
  <2>3. Command' = Command
    BY <1>2 DEF Command
  <2>4. \A q \in DOMAIN queue' : ProperCommandLine(queue'[q])
    BY <1>2 DEF Progress
  <2> QED
    BY <1>1, <1>2, <2>1, <2>2, <2>3, <2>4 DEF Progress
<1>5. Prev'
  <2>1. currPipe = NoPipe \/ \E id \in DOMAIN data : Last'.in = R(id) /\ Owns(prevPipe, id)'
    BY <1>0 DEF ForkInput
  <2> QED
    BY <1>2, <1>3, <2>1 DEF Prev
<1>6. Curr'
  <2>1. ASSUME Command.conn = "PIPE" PROVE Piped(currPipe, {Len(procs)})'
    <3>1. PICK n : OutNew(n)
      BY <2>1 DEF ForkStep, OutNone, OutShared
    <3>2. n \notin DOMAIN data /\ n \in DOMAIN data' /\ Last'.out = W(n) /\ Owns(currPipe, n)'
      BY <3>1 DEF OutNew
    <3>3. \A c \in DOMAIN procs : procs[c].in # R(n) /\ procs[c].out # W(n)
      BY <3>2, ObjectFacts DEF KidEnds
    <3>4. Last'.in # R(n)
      BY <1>0, <3>2, ObjectFacts DEF ForkInput
    <3>5. Fed(n, {k})'
      BY <1>1, <3>2, <3>3, <3>4 DEF Fed
    <3> QED
      BY <1>k, <3>2, <3>5 DEF Piped, Fed
  <2>2. ASSUME Command.conn = "FILE_CMD"
        PROVE  \/ currPipe' = NoPipe
               \/ currPipe'.in = -1 /\ currPipe'.out \in Fds /\ fdt'[currPipe'.out] = File
    BY <2>2 DEF ForkStep, OutNone, OutNew, OutShared
  <2>3. ASSUME Command.conn = "NUMBERED_PIPE" PROVE Ahead(currPipe)'
    <3>1. PICK m : m = DueLine
      OBVIOUS
    <3>2. m \in lineno + 1 .. Size /\ m % Size \in 0 .. Size - 1
      BY <1>0, <2>3, <3>1, ForkSlot, RingSlots
    <3>3. \/ buffer' = [buffer EXCEPT ![m % Size] = currPipe']
          \/ buffer' = buffer /\ currPipe' = buffer[m % Size]
      BY <2>3, <3>1 DEF ForkStep, OutNone, OutNew, OutShared
    <3>4. currPipe' = buffer'[m % Size]
      BY <3>2, <3>3 DEF TypeOK
    <3> QED
      BY <1>2, <3>2, <3>4 DEF Ahead
  <2>4. ASSUME Command.conn = "END" PROVE currPipe' = prevPipe'
    BY <1>2, <2>4 DEF ForkStep, OutNone, OutNew, OutShared
  <2> QED
    BY <1>1, <1>2, <2>1, <2>2, <2>3, <2>4 DEF Curr
<1>7. Eol'
  <2>1. PICK e \in DOMAIN data : EolOpen(e)
    BY <1>2 DEF Eol
  <2>2. /\ Fed(e, {}) /\ eol.in \in Fds /\ eol.out \in Fds
        /\ fdt[eol.in] = R(e) /\ fdt[eol.out] = W(e)
    BY <1>2, <2>1 DEF EolOpen
  <2>3. fdt'[eol.in] = R(e) /\ fdt'[eol.out] = W(e)
    <3>1. Keeps(e)
      BY <1>0, <2>2, ForkKeeps
    <3> QED
      BY <2>2, <3>1 DEF Keeps
  <2>4. Fed(e, {})'
    <3>1. Last'.in # R(e) /\ Last'.out # W(e)
      BY <1>0, <2>2, ForkUnread, ForkUnwritten
    <3> QED
      BY <1>0, <2>2, <3>1, ForkFed
  <2>5. ASSUME NEW c \in DOMAIN procs', procs'[c].line = lineno', procs'[c].st = "forked"
        PROVE  W(e) \in procs'[c].inh
    <3>1. CASE c = k
      BY <1>1, <2>2, <2>3, <3>1
    <3>2. CASE c \in DOMAIN procs
      BY <1>1, <1>2, <2>1, <2>5, <3>2 DEF EolOpen
    <3> QED
      BY <1>1, <3>1, <3>2
  <2>6. EolOpen(e)'
    BY <1>2, <2>2, <2>3, <2>4, <2>5 DEF EolOpen
  <2> QED
    BY <1>3, <2>6 DEF Eol
<1>8. HeldFile'
  BY <1>0, <1>1, <1>2 DEF HeldFile, ForkTable
<1>9. HeldOut'
  <2> SUFFICES ASSUME NEW c \in DOMAIN procs', NEW i \in DOMAIN data', NEW f \in Fds,
                      procs'[c].out = W(i), fdt'[f] = R(i) \/ fdt'[f] = W(i)
               PROVE  \/ /\ procs'[c].cmd.conn = "NUMBERED_PIPE"
                         /\ procs'[c].line + procs'[c].cmd.n > lineno'
                      \/ InUse(currPipe, f) \/ InUse(currPipe', f)
    BY <1>2 DEF HeldOut, InUse
  <2>1. CASE i \notin DOMAIN data
    BY <1>0, <2>1 DEF ForkTable
  <2>2. CASE i \in DOMAIN data
    <3>1. fdt'[f] = fdt[f] /\ ~InUse(prevPipe, f)
      BY <1>0, <2>2 DEF ForkTable
    <3>2. CASE c \in DOMAIN procs
      BY <1>1, <1>2, <2>2, <3>1, <3>2 DEF HeldOut
    <3>3. CASE c = k
      <4>1. PICK id : OutShared(id)
        <5>1. Last'.out = W(i)
          BY <1>1, <3>3
        <5>2. ~OutNone
          BY <5>1, ObjectFacts DEF OutNone
        <5>3. ~\E n : OutNew(n)
          BY <2>2, <5>1, ObjectFacts DEF OutNew
        <5> QED
          BY <5>2, <5>3 DEF ForkStep
      <4>2. Command.conn = "NUMBERED_PIPE"
        BY <4>1 DEF OutShared
      <4>3. DueLine \in lineno + 1 .. Size
        BY <1>0, <4>2, ForkSlot
      <4>4. DueLine > lineno
        BY <1>2, <4>3, SizeAssumption
      <4> QED
        BY <1>1, <1>2, <3>3, <4>2, <4>4 DEF DueLine
    <3> QED
      BY <1>1, <3>2, <3>3
  <2> QED
    BY <2>1, <2>2
<1>10. HeldIn'
  <2> SUFFICES ASSUME NEW c \in DOMAIN procs', NEW i \in DOMAIN data', NEW f \in Fds,
                      procs'[c].in = R(i), fdt'[f] = R(i) \/ fdt'[f] = W(i)
               PROVE  c = k /\ InUse(prevPipe', f)
    BY <1>k DEF HeldIn, InUse
  <2>1. CASE c \in DOMAIN procs
    <3>1. i \in DOMAIN data /\ procs[c].in = R(i)
      BY <1>1, <2>1, ObjectFacts DEF KidEnds
    <3>2. fdt'[f] = fdt[f] /\ ~InUse(prevPipe, f)
      BY <1>0, <3>1 DEF ForkTable
    <3> QED
      BY <2>1, <3>1, <3>2 DEF HeldIn
  <2>2. CASE c = k
    <3>1. PICK id \in DOMAIN data : Last'.in = R(id) /\ Owns(prevPipe, id)'
      BY <1>0, <1>1, <2>2, ObjectFacts DEF ForkInput
    <3>2. id = i
      BY <1>1, <2>2, <3>1, ObjectFacts
    <3>3. /\ prevPipe'.in \in Fds /\ prevPipe'.out \in Fds
          /\ fdt'[prevPipe'.in] = R(i) /\ fdt'[prevPipe'.out] = W(i)
      BY <3>1, <3>2 DEF Owns
    <3>4. \A g \in Fds : /\ fdt'[f] = R(i) /\ fdt'[g] = R(i) => f = g
                         /\ fdt'[f] = W(i) /\ fdt'[g] = W(i) => f = g
      BY <1>3 DEF Table
    <3> QED
      BY <2>2, <3>3, <3>4 DEF InUse
  <2> QED
    BY <1>1, <2>1, <2>2
<1>11. Drained'
  <2> SUFFICES ASSUME running, NEW c \in DOMAIN procs', procs'[c].st # "reaped",
                      procs'[c].cmd.conn \in {"END", "FILE_CMD"}
               PROVE  c = k
    BY <1>k, <1>2 DEF Drained
  <2>1. c \notin DOMAIN procs
    BY <1>1, <1>2 DEF Drained
  <2> QED
    BY <1>1, <2>1
<1>12. Readable'
  <2> SUFFICES ASSUME running, NEW c \in DOMAIN procs', NEW i \in DOMAIN data',
                      procs'[c].st \in {"forked", "running"}, procs'[c].out = W(i)
               PROVE  \/ \E b \in DOMAIN procs' : procs'[b].in = R(i)
                      \/ \E f \in Fds : fdt'[f] = R(i)
    BY <1>2 DEF Readable, Alive
  <2>1. CASE c = k
    <3>1. PICK id : Last'.out = W(id) /\ Owns(currPipe, id)'
      BY <1>1, <2>1, ObjectFacts DEF ForkStep, OutNone, OutNew, OutShared
    <3>2. id = i
      BY <1>1, <2>1, <3>1, ObjectFacts
    <3> QED
      BY <3>1, <3>2 DEF Owns
  <2>2. CASE c \in DOMAIN procs
    <3>1. /\ procs[c].out = W(i) /\ i \in DOMAIN data
          /\ procs[c].st \in {"forked", "running"}
      BY <1>1, <2>2, ObjectFacts DEF KidEnds
    <3>2. CASE \E b \in DOMAIN procs : procs[b].in = R(i)
      BY <1>1, <3>2
    <3>3. CASE \E f \in Fds : fdt[f] = R(i)
      <4>1. PICK f \in Fds : fdt[f] = R(i)
        BY <3>3
      <4>2. CASE ~InUse(prevPipe, f)
        BY <1>0, <4>1, <4>2, ObjectFacts DEF ForkTable
      <4>3. CASE InUse(prevPipe, f)
        <5>1. /\ Len(procs) \in DOMAIN procs
              /\ \E j \in DOMAIN data : /\ procs[Len(procs)].in = R(j) /\ Owns(prevPipe, j)
                                        /\ fdt[f] = R(j) \/ fdt[f] = W(j)
          BY <4>3, PrevMeaning
        <5>2. procs[Len(procs)].in = R(i)
          BY <4>1, <5>1, ObjectFacts
        <5> QED
          BY <1>1, <5>1, <5>2
      <4> QED
        BY <4>2, <4>3
    <3> QED
      BY <2>2, <3>1, <3>2, <3>3 DEF Readable, Alive
  <2> QED
    BY <1>1, <2>1, <2>2
<1>13. Synced'
  BY <1>2 DEF Synced
<1>14. Ring'
  BY ForkRing
<1> QED
  BY <1>3, <1>4, <1>5, <1>6, <1>7, <1>8, <1>9, <1>10, <1>11, <1>12, <1>13, <1>14

-----------------------------------------------------------------------------
(* The inductive invariant, and what follows from it.                      *)

\* A shell that will not use its descriptors again never does.
LEMMA OverStays == Over /\ [Next]_vars => Over'
<1> SUFFICES ASSUME Over, [Next]_vars PROVE Over'
  OBVIOUS
<1>1. CASE Children \/ Terminated \/ UNCHANGED vars
  BY <1>1 DEF Children, Terminated, Exec, Write, Read, Exit, vars, shellVars, Over
<1>2. CASE Shell
  BY <1>2 DEF Shell, GetLineEof, StartCommandLine, PipeFails, NeedsPipe, RunCommand,
     WaitOldest, AfterWait, EndCommands, WaitLast, AfterWaitLast, ReadEOF, AfterReadEOF,
     Prompt, Over
<1>3. CASE User
  BY <1>3 DEF User, CloseInput, Interrupt, AfterWait, AfterWaitLast, AfterReadEOF, GetLine,
     rest, Over
<1> QED
  BY <1>1, <1>2, <1>3 DEF Next

\* The steps that fork nobody are calm.
LEMMA CalmNext ==
    ASSUME TypeInv, [Next]_vars
    PROVE  \/ RunCommand
           \/ /\ Calm /\ DOMAIN data \subseteq DOMAIN data'
              /\ lineno' = lineno \/ lineno' = lineno + 1
<1> USE DEF TypeInv
<1>1. CASE Children
  <2>1. PICK c \in DOMAIN procs : Exec(c) \/ Write(c) \/ Read(c) \/ Exit(c)
    BY <1>1 DEF Children
  <2>2. lineno' = lineno
    BY <2>1 DEF Exec, Write, Read, Exit, shellVars
  <2> QED
    BY <2>1, <2>2, ChildIsCalm
<1>2. CASE WaitOldest \/ WaitLast
  BY <1>2, WaitpidIsCalm DEF WaitOldest, WaitLast, AfterWait, AfterWaitLast
<1>3. CASE StartCommandLine
  <2>1. UNCHANGED procs /\ lineno' = lineno + 1 /\ data' = Append(data, 0)
    BY <1>3 DEF StartCommandLine
  <2> QED
    BY <2>1, SameIsCalm, FreshPipe
<1>4. CASE UNCHANGED <<procs, data, lineno>>
  BY <1>4, SameIsCalm
<1>5. CASE GetLineEof \/ PipeFails \/ EndCommands \/ ReadEOF \/ Prompt
  BY <1>4, <1>5 DEF GetLineEof, PipeFails, EndCommands, ReadEOF, AfterReadEOF, Prompt, rest
<1>6. CASE User
  BY <1>4, <1>6 DEF User, CloseInput, Interrupt, AfterWait, AfterWaitLast, AfterReadEOF,
     GetLine, rest
<1>7. CASE Terminated \/ UNCHANGED vars
  BY <1>4, <1>7 DEF Terminated, vars, shellVars
<1> QED
  BY <1>1, <1>2, <1>3, <1>5, <1>6, <1>7 DEF Next, Shell

\* pipelineProcessor after a step that forks nobody.
LEMMA CalmPids ==
    ASSUME TypeInv, Pids, Calm, [Next]_vars, ~RunCommand
    PROVE  Pids'
<1> USE DEF TypeInv
<1>1. /\ Len(procs') = Len(procs) /\ Len(procs) \in Nat
      /\ pipelineProcessor[1] \in Nat /\ pipelineProcessor[2] \in Nat
  BY DEF Calm, TypeOK
<1>2. CASE AfterWait
  <2>1. /\ pc = "wait" /\ pc' # "wait" /\ pipelineProcessor'[1] = pipelineProcessor[2]
        /\ pipelineProcessor'[2] = Len(procs)
    BY <1>2 DEF AfterWait, Shift
  <2> QED
    BY <1>1, <2>1 DEF Pids
<1>3. ASSUME UNCHANGED pipelineProcessor, pc = "wait" <=> pc' = "wait" PROVE Pids'
  BY <1>1, <1>3 DEF Pids
<1>4. CASE Children
  <2>1. UNCHANGED <<pc, pipelineProcessor>>
    BY <1>4 DEF Children, Exec, Write, Read, Exit, shellVars
  <2> QED
    BY <1>3, <2>1
<1>5. CASE StartCommandLine \/ EndCommands \/ WaitLast \/ ReadEOF
  BY <1>3, <1>5 DEF StartCommandLine, EndCommands, WaitLast, AfterWaitLast, ReadEOF, AfterReadEOF
<1>6. CASE GetLineEof \/ PipeFails \/ Prompt
  BY <1>3, <1>6 DEF GetLineEof, PipeFails, NeedsPipe, Prompt, rest
<1>7. CASE WaitOldest
  BY <1>2, <1>7 DEF WaitOldest
<1>8. CASE User
  <2>1. CASE CloseInput \/ \E l \in Lines : GetLine(l)
    BY <1>3, <2>1 DEF CloseInput, GetLine, rest
  <2>2. CASE Interrupt
    BY <1>2, <1>3, <2>2 DEF Interrupt, AfterWaitLast, AfterReadEOF, rest
  <2> QED
    BY <1>8, <2>1, <2>2 DEF User
<1>9. CASE Terminated \/ UNCHANGED vars
  BY <1>3, <1>9 DEF Terminated, vars, shellVars
<1> QED
  BY <1>4, <1>5, <1>6, <1>7, <1>8, <1>9 DEF Next, Shell

\* Every step keeps what is known of the children, also when the shell is over.
LEMMA KidsNext ==
    ASSUME TypeInv, WiringInv, [Next]_vars, BeforeWrap'
    PROVE  BeforeWrap /\ KidsInv'
<1> USE DEF TypeInv
<1>1. lineno \in Nat
  BY DEF TypeOK
<1>2. CASE RunCommand
  <2>1. NewKid /\ lineno' = lineno /\ ~Over
    BY <1>2, ForkKid DEF RunCommand, Over
  <2>2. BeforeWrap
    BY <2>1, ForkWrap
  <2>3. KidsInv /\ ShellInv
    BY <2>1, <2>2 DEF WiringInv
  <2>4. PICK ws : ForkStep(ws)
    BY <1>2, <2>3, RunIsFork
  <2> QED
    BY <2>2, <2>3, <2>4, ForkKids
<1>3. CASE ~RunCommand
  <2>1. /\ Calm /\ DOMAIN data \subseteq DOMAIN data'
        /\ lineno' \in Nat /\ lineno <= lineno'
    BY <1>1, <1>3, CalmNext
  <2>2. BeforeWrap
    BY <2>1, CalmWrap
  <2>3. KidsInv
    BY <2>2 DEF WiringInv
  <2>4. KidEnds' /\ KidOrder' /\ PipelineWiring' /\ NumberedPipeDelivery'
    BY <2>1, <2>2, <2>3, CalmKids DEF KidsInv
  <2>5. Pids'
    BY <1>3, <2>1, <2>3, CalmPids DEF KidsInv
  <2> QED
    BY <2>2, <2>4, <2>5 DEF KidsInv
<1> QED
  BY <1>2, <1>3

\* Every step keeps what is known of the shell's pipes: one step of the proof
\* for each action.
LEMMA ShellNext ==
    ASSUME TypeInv, ProperLines, KidsInv, ShellInv, [Next]_vars, BeforeWrap', ~Over'
    PROVE  ShellInv'
<1> USE DEF TypeInv
<1>1. ASSUME NEW l \in Lines, GetLine(l) PROVE ShellInv'
  <2>1. ~l.exit
    <3> SUFFICES ASSUME l.exit PROVE Over'
      OBVIOUS
    <3>1. l.queue = << >>
      BY DEF ProperLines
    <3>2. running' = FALSE /\ pc' = "loop" /\ queue' = << >>
      BY <1>1, <3>1 DEF GetLine
    <3> QED
      BY <3>2 DEF Over
  <2>2. /\ pc = "getline" /\ pc' = "loop" /\ queue' = l.queue
        /\ UNCHANGED <<running, fdt, currPipe, prevPipe, eol, buffer, head, data, procs, lineno>>
    BY <1>1, <2>1 DEF GetLine, pipes, ring
  <2>3. \A q \in DOMAIN queue' : ProperCommandLine(queue'[q])
    BY <2>2 DEF ProperLines
  <2> QED
    BY <2>2, <2>3, IdleShell
<1>2. ASSUME running' => running, UNCHANGED <<rest, pc>> PROVE ShellInv'
  <2>1. /\ UNCHANGED <<pc, queue, pos, fdt, buffer, head, currPipe, prevPipe, eol, lineno>>
        /\ UNCHANGED <<procs, data>>
    BY <1>2 DEF rest, pipes, ring
  <2> QED
    BY <1>2, <2>1, SameIsCalm, StayShell
<1>3. ASSUME running' => running, UNCHANGED rest, pc \in {"getline", "loop"},
             pc' \in {"getline", "loop"}, pc' = "getline" => queue = << >>
      PROVE  ShellInv'
  <2>1. /\ UNCHANGED <<queue, fdt, buffer, head, currPipe, prevPipe, eol, lineno>>
        /\ UNCHANGED <<procs, data>>
    BY <1>3 DEF rest, pipes, ring
  <2>2. \A q \in DOMAIN queue' : ProperCommandLine(queue'[q])
    BY <2>1 DEF ShellInv, Progress
  <2> QED
    BY <1>3, <2>1, <2>2, IdleShell
<1>4. CASE CloseInput
  BY <1>2, <1>4 DEF CloseInput
<1>5. CASE GetLineEof
  BY <1>3, <1>5 DEF GetLineEof
<1>6. CASE StartCommandLine
  BY <1>6, StartShell
<1>7. CASE PipeFails
  BY <1>7 DEF PipeFails, Over
<1>8. CASE RunCommand
  <2>1. PICK ws : ForkStep(ws)
    BY <1>8, RunIsFork
  <2> QED
    BY <2>1, ForkKeepsShell
<1>9. CASE WaitOldest
  BY <1>9, WaitpidIsCalm, AfterWaitShell DEF WaitOldest
<1>10. CASE EndCommands
  BY <1>10, EndShell
<1>11. CASE WaitLast
  <2>1. Calm /\ AfterWaitLast /\ running' = running
    BY <1>11, WaitpidIsCalm DEF WaitLast
  <2>2. pc = "waitlast" /\ procs # << >> /\ procs \in Seq(Procs)
    BY <2>1 DEF AfterWaitLast, ShellInv, Progress, Forked, TypeOK
  <2>3. pipelineProcessor[2] = Len(procs) /\ Len(procs) \in DOMAIN procs
    BY <2>2 DEF KidsInv, Pids
  <2>4. procs'[Len(procs)].st = "reaped"
    BY <1>11, <2>3, WaitpidIsCalm DEF WaitLast
  <2> QED
    BY <2>1, <2>4, WaitLastShell
<1>12. CASE ReadEOF
  BY <1>12, ReadEOFShell DEF ReadEOF
<1>13. CASE Prompt
  <2>1. pc' # "exited"
    BY DEF Over
  <2>2. pc = "loop" /\ pc' = "getline" /\ queue = << >> /\ UNCHANGED <<running, rest>>
    BY <1>13, <2>1 DEF Prompt
  <2> QED
    BY <1>3, <2>2
<1>14. CASE Interrupt
  <2>1. running' = FALSE
    BY <1>14 DEF Interrupt
  <2>2. CASE UNCHANGED <<pc, rest>>
    BY <1>2, <2>1, <2>2
  <2>3. CASE pc = "getline" /\ pc' = "loop" /\ UNCHANGED rest
    BY <1>3, <2>1, <2>3
  <2>4. CASE AfterWait /\ UNCHANGED procs
    BY <2>1, <2>4, SameIsCalm, AfterWaitShell
  <2>5. CASE AfterWaitLast /\ UNCHANGED procs
    BY <2>1, <2>5, SameIsCalm, WaitLastShell
  <2>6. CASE AfterReadEOF
    BY <2>1, <2>6, ReadEOFShell
  <2> QED
    BY <1>14, <2>2, <2>3, <2>4, <2>5, <2>6 DEF Interrupt
<1>15. CASE Children
  <2>1. PICK c \in DOMAIN procs : Exec(c) \/ Write(c) \/ Read(c) \/ Exit(c)
    BY <1>15 DEF Children
  <2>2. UNCHANGED shellVars
    BY <2>1 DEF Exec, Write, Read, Exit
  <2>3. Calm /\ DOMAIN data' = DOMAIN data
    BY <2>1, ChildIsCalm
  <2>4. UNCHANGED <<pc, running, queue, pos, fdt, buffer, head, currPipe, prevPipe, eol, lineno>>
    BY <2>2 DEF shellVars, pipes, ring
  <2> QED
    BY <2>3, <2>4, StayShell
<1>16. CASE Terminated \/ UNCHANGED vars
  <2>1. UNCHANGED <<running, rest, pc>>
    BY <1>16 DEF Terminated, vars, shellVars, rest
  <2> QED
    BY <1>2, <2>1
<1> QED
  BY <1>1, <1>4, <1>5, <1>6, <1>7, <1>8, <1>9, <1>10, <1>11, <1>12, <1>13, <1>14, <1>15, <1>16
     DEF Next, Shell, User

\* The invariant is inductive for the lines of the project's specification.
LEMMA WiringInit == ProperLines /\ Init => WiringInv
<1> SUFFICES ASSUME ProperLines, Init PROVE KidsInv /\ ShellInv
  BY DEF WiringInv
<1>1. procs = << >> /\ DOMAIN procs = {} /\ Len(procs) = 0 /\ DOMAIN data = {}
  BY DEF Init
<1>2. pc = "getline" /\ lineno = 0 /\ ~MidLine /\ ~Forked
  BY DEF Init, MidLine, Forked
<1>3. KidsInv
  <2>1. KidEnds /\ KidOrder /\ PipelineWiring /\ NumberedPipeDelivery
    BY <1>1 DEF KidEnds, KidOrder, PipelineWiring, NumberedPipeDelivery
  <2>2. Pids
    BY <1>1 DEF Pids, Init
  <2> QED
    BY <2>1, <2>2 DEF KidsInv
<1>4. \A k : DueAt(k) = {}
  BY <1>1 DEF DueAt
<1>5. Ring
  <2>1. 0 % Size = 0
    BY RingSlots, SizeAssumption
  <2>2. ASSUME NEW k \in 1 .. Size PROVE buffer[k % Size] = NoPipe
    BY RingSlots DEF Init
  <2>3. ASSUME NEW k \in lineno + 1 .. Size PROVE Feeds(buffer[k % Size], DueAt(k))
    <3>1. k \in 1 .. Size
      BY <1>2
    <3> QED
      BY <1>4, <2>2, <3>1 DEF Feeds
  <2>4. head = lineno % Size
    BY <1>2, <2>1 DEF Init
  <2> QED
    BY <2>3, <2>4 DEF Ring
<1>6. Table /\ HeldFile /\ HeldOut /\ HeldIn
  BY <1>1, ObjectFacts DEF Table, HeldFile, HeldOut, HeldIn, Init
<1>7. Progress /\ Prev /\ Curr /\ Eol
  BY <1>1, <1>2 DEF Progress, Prev, Curr, Eol, Init
<1>8. Drained /\ Readable /\ Synced
  BY <1>1 DEF Drained, Readable, Synced
<1> QED
  BY <1>3, <1>5, <1>6, <1>7, <1>8 DEF ShellInv

\* Every step keeps it.
LEMMA WiringNext == ProperLines /\ TypeInv /\ WiringInv /\ [Next]_vars => WiringInv'
<1> SUFFICES ASSUME ProperLines, TypeInv, WiringInv, [Next]_vars, BeforeWrap'
             PROVE  KidsInv' /\ (~Over' => ShellInv')
  BY DEF WiringInv
<1>1. BeforeWrap /\ KidsInv'
  BY KidsNext
<1>2. ~Over' => KidsInv /\ ShellInv
  BY <1>1, OverStays DEF WiringInv
<1> QED
  BY <1>1, <1>2, ShellNext

\* What the invariant says while the shell still uses its descriptors.
LEMMA WiringFacts ==
    ASSUME WiringInv, BeforeWrap, ~Over
    PROVE  KidsInv /\ ShellInv
BY DEF WiringInv

\* A child whose input is a pipe reads a pipe that exists, and one whose output
\* is a pipe writes to one.
LEMMA KidPipes ==
    ASSUME KidEnds, NEW c \in DOMAIN procs
    PROVE  /\ procs[c].in.end = "r" =>
                procs[c].in.id \in DOMAIN data /\ procs[c].in = R(procs[c].in.id)
           /\ procs[c].out.end = "w" =>
                procs[c].out.id \in DOMAIN data /\ procs[c].out = W(procs[c].out.id)
<1>1. ASSUME procs[c].in.end = "r"
      PROVE  procs[c].in.id \in DOMAIN data /\ procs[c].in = R(procs[c].in.id)
  <2>1. PICK i \in DOMAIN data : procs[c].in = R(i)
    BY <1>1, ObjectFacts DEF KidEnds
  <2> QED
    BY <2>1, ObjectFacts
<1>2. ASSUME procs[c].out.end = "w"
      PROVE  procs[c].out.id \in DOMAIN data /\ procs[c].out = W(procs[c].out.id)
  <2>1. PICK i \in DOMAIN data : procs[c].out = W(i)
    BY <1>2, ObjectFacts DEF KidEnds
  <2> QED
    BY <2>1, ObjectFacts
<1> QED
  BY <1>1, <1>2

\* The shell holds no write end of the pipe that the child it waits for reads.
LEMMA WiringNoSelfWait == TypeInv /\ WiringInv => NoSelfWait
<1> SUFFICES ASSUME TypeInv, WiringInv, BeforeWrap, WaitsFor # 0,
                    procs[WaitsFor].in.end = "r", NEW f \in Fds,
                    fdt[f] = W(procs[WaitsFor].in.id)
             PROVE  FALSE
  BY DEF NoSelfWait
<1> USE DEF TypeInv
<1>1. pc = "wait" \/ pc = "waitlast"
  BY DEF WaitsFor
<1>2. KidsInv /\ ShellInv
  BY <1>1, WiringFacts DEF Over
<1>3. Len(procs) \in Nat /\ DOMAIN procs = 1 .. Len(procs) /\ pipelineProcessor \in [1 .. 2 -> Nat]
  BY DEF TypeOK
<1>4. WaitsFor \in DOMAIN procs /\ (pc = "wait" => WaitsFor # Len(procs))
  BY <1>1, <1>2, <1>3 DEF WaitsFor, KidsInv, Pids
<1>5. PICK i \in DOMAIN data : procs[WaitsFor].in = R(i) /\ fdt[f] = W(i)
  BY <1>2, <1>4, KidPipes DEF KidsInv
<1>6. WaitsFor = Len(procs) /\ InUse(prevPipe, f)
  BY <1>2, <1>4, <1>5 DEF ShellInv, HeldIn
<1>7. pc = "waitlast"
  BY <1>1, <1>4, <1>6
<1>8. prevPipe = NoPipe
  BY <1>2, <1>7 DEF ShellInv, Prev, MidLine
<1> QED
  BY <1>6, <1>8, NoPipeUnused

\* At the prompt only the pipes of lines to come are open.
LEMMA WiringHeld == TypeInv /\ WiringInv => HeldOnlyForLater
<1> SUFFICES ASSUME TypeInv, WiringInv, BeforeWrap, pc = "getline"
             PROVE  /\ \A f \in Fds : fdt[f] # File
                    /\ \A c \in DOMAIN procs :
                         (/\ procs[c].out.end = "w"
                          /\ \E f \in Fds : fdt[f] \in {R(procs[c].out.id), W(procs[c].out.id)})
                         => /\ procs[c].cmd.conn = "NUMBERED_PIPE"
                            /\ procs[c].line + procs[c].cmd.n > lineno
  BY DEF HeldOnlyForLater
<1> USE DEF TypeInv
<1>1. KidsInv /\ ShellInv
  BY WiringFacts DEF Over
<1>2. ~MidLine
  BY DEF MidLine
<1>3. \A f \in Fds : fdt[f] # File
  BY <1>1, <1>2 DEF ShellInv, HeldFile
<1>4. ASSUME NEW c \in DOMAIN procs, procs[c].out.end = "w", NEW f \in Fds,
             fdt[f] \in {R(procs[c].out.id), W(procs[c].out.id)}
      PROVE  procs[c].cmd.conn = "NUMBERED_PIPE" /\ procs[c].line + procs[c].cmd.n > lineno
  <2>1. PICK i \in DOMAIN data : procs[c].out = W(i) /\ (fdt[f] = R(i) \/ fdt[f] = W(i))
    BY <1>1, <1>4, KidPipes DEF KidsInv
  <2>2. prevPipe = NoPipe
    BY <1>1, <1>2 DEF ShellInv, Prev
  <2>3. currPipe = NoPipe \/ Ahead(currPipe)
    BY <1>1 DEF ShellInv, Curr
  <2>4. \/ procs[c].cmd.conn = "NUMBERED_PIPE" /\ procs[c].line + procs[c].cmd.n > lineno
        \/ InUse(currPipe, f)
    BY <1>1, <2>1, <2>2, NoPipeUnused DEF ShellInv, HeldOut
  <2>5. CASE InUse(currPipe, f)
    <3>1. Ahead(currPipe) /\ lineno \in Nat
      BY <2>3, <2>5, NoPipeUnused DEF TypeOK
    <3> QED
      BY <1>1, <2>1, <2>5, <3>1, AheadDue DEF ShellInv
  <2> QED
    BY <2>4, <2>5
<1> QED
  BY <1>3, <1>4

\* A child piped to a later line has called exec(), or has reported that it
\* could not, before the line is over; the last child of any other line is reaped.
Reported ==
    running =>
        /\ \A c \in DOMAIN procs :
             procs[c].st = "forked" /\ procs[c].cmd.conn = "NUMBERED_PIPE" =>
                c = Len(procs) /\ pc \in {"wait", "end", "readEOF"}
        /\ pc \in {"loop", "getline"} /\ procs # << >> /\ Last.cmd.conn # "NUMBERED_PIPE" =>
             Last.st = "reaped"
ReportedInv == BeforeWrap /\ ~Over => Reported

\* A calm step that leaves the shell between the same two forks.
LEMMA CalmReported ==
    ASSUME TypeOK, Reported, Calm, running' => running,
           pc \in {"wait", "end", "readEOF"} =>
             pc' \in {"wait", "end", "readEOF"} \/ Last.cmd.conn # "NUMBERED_PIPE",
           pc' \in {"loop", "getline"} => pc \in {"loop", "getline"}
    PROVE  Reported'
<1>1. ASSUME running, NEW c \in DOMAIN procs, procs'[c].st = "forked",
             procs'[c].cmd.conn = "NUMBERED_PIPE"
      PROVE  c = Len(procs') /\ pc' \in {"wait", "end", "readEOF"}
  <2>1. c = Len(procs) /\ pc \in {"wait", "end", "readEOF"} /\ procs[c].cmd.conn = "NUMBERED_PIPE"
    BY <1>1 DEF Reported, Calm
  <2> QED
    BY <2>1 DEF Calm, Last
<1>2. ASSUME running, pc \in {"loop", "getline"}, procs' # << >>,
             Last'.cmd.conn # "NUMBERED_PIPE"
      PROVE  Last'.st = "reaped"
  <2>1. procs # << >> /\ Len(procs) \in DOMAIN procs /\ Last'.cmd = Last.cmd
    BY <1>2, CalmLast
  <2>2. procs[Len(procs)].st = "reaped"
    BY <1>2, <2>1 DEF Reported, Last
  <2> QED
    BY <2>1, <2>2 DEF Calm, Last
<1>3. DOMAIN procs' = DOMAIN procs
  BY DEF Calm
<1> QED
  BY <1>1, <1>2, <1>3 DEF Reported

\* Every step keeps it: readEOF waits for the exec() of a numbered line's
\* children, the second waitpid for the last child of any other line.
LEMMA ReportedNext ==
    ASSUME ProperLines, TypeInv, WiringInv, WiringInv', ReportedInv, [Next]_vars
    PROVE  ReportedInv'
<1> SUFFICES ASSUME BeforeWrap', ~Over', running' PROVE Reported'
  BY DEF ReportedInv, Reported
<1> USE DEF TypeInv
<1>1. BeforeWrap /\ ~Over
  BY KidsNext, OverStays
<1>2. KidsInv /\ ShellInv /\ Reported
  BY <1>1, WiringFacts DEF ReportedInv
<1>3. Synced'
  BY DEF WiringInv, ShellInv
<1>4. CASE RunCommand
  <2>1. NewKid /\ pc = "cmd" /\ pc' = "wait" /\ running' = running
    BY <1>4, ForkKid DEF RunCommand
  <2> QED
    BY <1>2, <2>1 DEF Reported, NewKid
<1>5. ASSUME ~RunCommand, running' => running,
             pc \in {"wait", "end", "readEOF"} =>
               pc' \in {"wait", "end", "readEOF"} \/ Last.cmd.conn # "NUMBERED_PIPE",
             pc' \in {"loop", "getline"} => pc \in {"loop", "getline"}
      PROVE  Reported'
  BY <1>2, <1>5, CalmNext, CalmReported
<1>6. CASE WaitOldest
  <2>1. pc = "wait" /\ pc' \in {"cmd", "end"} /\ running' = running /\ ~RunCommand
    BY <1>6 DEF WaitOldest, AfterWait, RunCommand
  <2>2. ASSUME pc' = "cmd" PROVE Last.cmd.conn # "NUMBERED_PIPE"
    <3>1. pos < Len(Head(queue)) /\ pos \in 1 .. Len(Head(queue)) /\ queue # << >>
      BY <1>6, <2>1, <2>2 DEF WaitOldest, AfterWait, Positions
    <3>2. ProperCommandLine(Head(queue)) /\ DOMAIN Head(queue) = 1 .. Len(Head(queue))
      BY <1>2, <3>1, ProperHead DEF ShellInv
    <3>3. Command.conn = "PIPE"
      BY <3>1, <3>2 DEF ProperCommandLine, Command
    <3>4. Last.cmd = Command
      BY <1>2, <2>1 DEF ShellInv, Progress
    <3> QED
      BY <3>3, <3>4
  <2> QED
    BY <1>5, <2>1, <2>2
<1>7. CASE EndCommands
  <2>1. /\ pc = "end" /\ running' = running /\ ~RunCommand /\ pc' \in {"readEOF", "waitlast"}
        /\ pc' = "waitlast" => Head(queue)[Len(Head(queue))].conn # "NUMBERED_PIPE"
    BY <1>7 DEF EndCommands, RunCommand
  <2>2. Last.cmd = Head(queue)[Len(Head(queue))]
    BY <1>2, <2>1 DEF ShellInv, Progress
  <2> QED
    BY <1>5, <2>1, <2>2
<1>8. CASE WaitLast
  <2>1. pc = "waitlast" /\ pc' = "loop" /\ procs # << >>
    BY <1>2, <1>8 DEF WaitLast, AfterWaitLast, ShellInv, Progress, Forked
  <2>2. pipelineProcessor[2] = Len(procs) /\ Len(procs) \in DOMAIN procs
    BY <1>2, <2>1 DEF KidsInv, Pids, TypeOK
  <2>3. procs'[Len(procs)].st = "reaped" /\ Calm
    BY <1>8, <2>2, WaitpidIsCalm DEF WaitLast
  <2>4. running
    BY <1>8 DEF WaitLast
  <2> QED
    BY <1>2, <2>1, <2>3, <2>4 DEF Reported, Calm, Last
<1>9. CASE ReadEOF
  <2>1. /\ pc = "readEOF" /\ pc' = "loop" /\ running' = running /\ UNCHANGED <<procs, lineno>>
    BY <1>9 DEF ReadEOF, AfterReadEOF
  <2>2. /\ procs # << >> /\ Last.line = lineno /\ Last.cmd.conn = "NUMBERED_PIPE"
        /\ Len(procs) \in DOMAIN procs
    BY <1>2, <2>1 DEF ShellInv, Progress, Forked, TypeOK
  <2>3. procs[Len(procs)].st # "forked"
    BY <1>3, <2>1, <2>2 DEF Synced, Last
  <2> QED
    BY <1>2, <2>1, <2>2, <2>3 DEF Reported, Last
<1>10. CASE GetLineEof \/ StartCommandLine \/ PipeFails \/ Prompt
  <2>1. running' = running /\ ~RunCommand /\ pc' # "failed" /\ pc' # "exited"
    BY <1>10 DEF GetLineEof, StartCommandLine, PipeFails, Prompt, RunCommand, NeedsPipe, Over
  <2> QED
    BY <1>5, <1>10, <2>1 DEF GetLineEof, StartCommandLine, PipeFails, Prompt
<1>11. CASE User
  BY <1>5, <1>11 DEF User, CloseInput, Interrupt, GetLine, RunCommand
<1>12. CASE Children \/ Terminated \/ UNCHANGED vars
  BY <1>5, <1>12 DEF Children, Exec, Write, Read, Exit, Terminated, vars, shellVars, RunCommand
<1> QED
  BY <1>4, <1>6, <1>7, <1>8, <1>9, <1>10, <1>11, <1>12 DEF Next, Shell

\* At the prompt nobody alive writes its output to the terminal, and only the
\* last but one command of a pipeline may have an error to report there.
LEMMA WiringPrompt ==
    TypeInv /\ WiringInv /\ ReportedInv /\ UnreapedBound => PromptAfterOutput
<1> SUFFICES ASSUME TypeInv, WiringInv, ReportedInv, UnreapedBound, BeforeWrap, running,
                    pc = "getline", NEW c \in DOMAIN procs, Alive(c)
             PROVE  /\ procs[c].out # Tty
                    /\ Complains(c) => c = pipelineProcessor[1] /\ procs[c].cmd.conn = "PIPE"
  BY DEF PromptAfterOutput
<1>1. KidsInv /\ ShellInv /\ Reported
  BY WiringFacts DEF Over, ReportedInv
<1>2. procs[c].st # "reaped"
  BY DEF Alive
<1>3. procs[c].cmd.conn \in {"PIPE", "NUMBERED_PIPE"} /\ procs[c].out # Tty
  BY <1>1, <1>2, ObjectFacts DEF KidsInv, KidEnds, ShellInv, Drained
<1>4. ASSUME Complains(c) PROVE c = pipelineProcessor[1] /\ procs[c].cmd.conn = "PIPE"
  <2>1. procs[c].st = "forked"
    BY <1>4 DEF Complains, Failed
  <2>2. procs[c].cmd.conn = "PIPE"
    BY <1>1, <1>3, <2>1 DEF Reported
  <2>3. c # Len(procs)
    BY <1>1, <1>2, <2>2 DEF Reported, Last
  <2>4. pipelineProcessor[2] = Len(procs)
    BY <1>1 DEF KidsInv, Pids
  <2> QED
    BY <1>2, <2>2, <2>3, <2>4 DEF UnreapedBound
<1> QED
  BY <1>3, <1>4

\* readEOF has waited for the children of a numbered line.
LEMMA WiringSynced == WiringInv => NumberedLineSynced
<1> SUFFICES ASSUME WiringInv, BeforeWrap, running, pc = "loop", procs # << >>,
                    procs[Len(procs)].cmd.conn = "NUMBERED_PIPE",
                    NEW c \in DOMAIN procs, procs[c].line = lineno
             PROVE  procs[c].st # "forked"
  BY DEF NumberedLineSynced
<1>1. ShellInv
  BY WiringFacts DEF Over
<1> QED
  BY <1>1 DEF ShellInv, Synced, Last

\* main leaves its loop only when the flag is cleared.
ExitedStopped == pc = "exited" => ~running

LEMMA ExitedNext == ExitedStopped /\ [Next]_vars => ExitedStopped'
<1> SUFFICES ASSUME ExitedStopped, [Next]_vars PROVE ExitedStopped'
  OBVIOUS
<1>1. CASE Children \/ Terminated \/ UNCHANGED vars
  BY <1>1 DEF Children, Terminated, Exec, Write, Read, Exit, vars, shellVars, ExitedStopped
<1>2. CASE Shell
  BY <1>2 DEF Shell, GetLineEof, StartCommandLine, PipeFails, NeedsPipe, RunCommand,
     WaitOldest, AfterWait, EndCommands, WaitLast, AfterWaitLast, ReadEOF, AfterReadEOF,
     Prompt, ExitedStopped
<1>3. CASE User
  BY <1>3 DEF User, CloseInput, Interrupt, GetLine, rest, ExitedStopped
<1> QED
  BY <1>1, <1>2, <1>3 DEF Next

\* Only a write to a pipe that nobody can read kills a child.
LEMMA KilledByWrite ==
    ASSUME TypeInv, [Next]_vars, NEW c \in DOMAIN procs, procs'[c].killed, ~procs[c].killed
    PROVE  Alive(c) /\ Target(c).end = "w" /\ ~HasReader(Target(c).id)
<1> USE DEF TypeInv
<1>1. procs \in Seq(Procs) /\ procs # procs'
  BY DEF TypeOK
<1>2. ASSUME NEW d \in DOMAIN procs, Write(d)
      PROVE  Alive(c) /\ Target(c).end = "w" /\ ~HasReader(Target(c).id)
  <2>1. CASE procs' = [procs EXCEPT ![d].left = @ - 1]
    <3>1. procs'[c].killed = procs[c].killed
      BY <1>1, <2>1
    <3> QED
      BY <3>1
  <2>2. CASE /\ Target(d).end = "w" /\ ~HasReader(Target(d).id)
             /\ procs' = [procs EXCEPT ![d].st = "zombie", ![d].killed = TRUE]
    <3>1. c = d
      BY <1>1, <2>2
    <3> QED
      BY <1>2, <2>2, <3>1 DEF Write, Failed, Alive
  <2> QED
    BY <1>2, <2>1, <2>2 DEF Write
<1>k. ASSUME NEW d, NEW v, procs' = [procs EXCEPT ![d] = v], d = c => v.killed = procs[c].killed
      PROVE  FALSE
  BY <1>1, <1>k
<1>3. ASSUME NEW d \in DOMAIN procs, Exec(d) \/ Read(d) \/ Exit(d) PROVE FALSE
  <2>1. CASE Exec(d)
    <3> DEFINE v == [procs[d] EXCEPT
              !.st  = IF procs[d].cmd.prog.kind = "unknown" THEN "zombie" ELSE "running",
              !.inh = SurvivesExec(procs[d].inh)]
    <3>1. procs[d] \in Procs
      BY <1>1
    <3>2. procs' = [procs EXCEPT ![d] = v]
      BY <1>1, <2>1, <3>1 DEF Exec, Procs
    <3>3. v.killed = procs[d].killed
      BY <3>1 DEF Procs
    <3> QED
      BY <1>k, <3>2, <3>3
  <2>2. CASE Read(d)
    <3> DEFINE v == [procs[d] EXCEPT !.left = 1]
    <3>1. procs' = [procs EXCEPT ![d] = v] /\ v.killed = procs[d].killed
      BY <1>1, <2>2 DEF Read, Procs
    <3> QED
      BY <1>k, <3>1
  <2>3. CASE Exit(d)
    <3> DEFINE v == [procs[d] EXCEPT !.st = "zombie"]
    <3>1. procs' = [procs EXCEPT ![d] = v] /\ v.killed = procs[d].killed
      BY <1>1, <2>3 DEF Exit, Procs
    <3> QED
      BY <1>k, <3>1
  <2> QED
    BY <1>3, <2>1, <2>2, <2>3
<1>4. ASSUME NEW d, Waitpid(d) PROVE FALSE
  <2> DEFINE v == [procs[d] EXCEPT !.st = "reaped"]
  <2>1. d \in DOMAIN procs /\ procs' = [procs EXCEPT ![d] = v]
    BY <1>1, <1>4 DEF Waitpid
  <2>2. v.killed = procs[d].killed
    BY <1>1, <2>1 DEF Procs
  <2> QED
    BY <1>k, <2>1, <2>2
<1>5. CASE RunCommand
  <2>1. PICK k : procs' = Append(procs, k)
    BY <1>5 DEF RunCommand
  <2>2. procs'[c] = procs[c]
    BY <1>1, <2>1, AppendElements
  <2> QED
    BY <2>2
<1>6. CASE GetLineEof \/ StartCommandLine \/ PipeFails \/ EndCommands \/ ReadEOF \/ Prompt
  BY <1>1, <1>6 DEF GetLineEof, StartCommandLine, PipeFails, EndCommands, ReadEOF, AfterReadEOF,
     Prompt, rest
<1>7. CASE User
  BY <1>1, <1>7 DEF User, CloseInput, Interrupt, AfterReadEOF, GetLine, rest
<1>8. CASE Terminated \/ UNCHANGED vars
  BY <1>1, <1>8 DEF Terminated, vars
<1> QED
  BY <1>2, <1>3, <1>4, <1>5, <1>6, <1>7, <1>8
     DEF Next, Shell, Children, WaitOldest, WaitLast

\* What a child reports when exec() fails goes to the terminal or where its
\* output goes.
ErrEnds == \A c \in DOMAIN procs : procs[c].err = procs[c].out \/ procs[c].err = Tty

\* It is so from fork() on (cmdHandler.cpp:61, 62).
LEMMA ErrEndsNext == TypeInv /\ ErrEnds /\ [Next]_vars => ErrEnds'
<1> SUFFICES ASSUME TypeInv, ErrEnds, [Next]_vars PROVE ErrEnds'
  OBVIOUS
<1>1. CASE RunCommand
  <2> DEFINE kid == Child(Command, fdt', prevPipe', currPipe')
  <2>1. procs \in Seq(Procs) /\ procs' = Append(procs, kid)
    BY <1>1 DEF RunCommand, TypeInv, TypeOK
  <2>2. kid.err = kid.out \/ kid.err = Tty
    BY DEF Child
  <2> HIDE DEF kid
  <2>3. \A d \in DOMAIN procs' : procs'[d] = kid \/ (d \in DOMAIN procs /\ procs'[d] = procs[d])
    BY <2>1, AppendElements
  <2> QED
    BY <2>2, <2>3 DEF ErrEnds
<1>2. CASE Calm
  BY <1>2 DEF ErrEnds, Calm
<1> QED
  BY <1>1, <1>2, CalmNext

\* While the shell runs, a pipe without a reader has had one.
LEMMA WiringBroken ==
    ASSUME TypeInv, WiringInv, ExitedStopped, ErrEnds, [Next]_vars, BeforeWrap, running,
           pc # "failed", NEW c \in DOMAIN procs, procs'[c].killed, ~procs[c].killed
    PROVE  \E b \in DOMAIN procs : procs[b].in = R(procs[c].out.id)
<1>1. Alive(c) /\ procs[c].out.end = "w" /\ ~HasReader(procs[c].out.id)
  <2>1. Alive(c) /\ Target(c).end = "w" /\ ~HasReader(Target(c).id)
    BY KilledByWrite
  <2>2. Target(c) = procs[c].out
    BY <2>1, ObjectFacts DEF Target, ErrEnds
  <2> QED
    BY <2>1, <2>2
<1>2. pc \notin {"exited", "failed"}
  BY DEF ExitedStopped
<1>3. KidsInv /\ ShellInv
  BY <1>2, WiringFacts DEF Over
<1>4. procs[c].out.id \in DOMAIN data /\ procs[c].out = W(procs[c].out.id)
  BY <1>1, <1>3, KidPipes DEF KidsInv
<1>5. ~\E f \in Fds : fdt[f] = R(procs[c].out.id)
  BY <1>1, <1>2 DEF HasReader, Holds
<1> QED
  BY <1>1, <1>3, <1>4, <1>5 DEF ShellInv, Readable

\* For the lines of the project's specification the invariant holds throughout.
THEOREM PipesAreWired ==
    ASSUME ProperLines
    PROVE  Spec => [](TypeInv /\ WiringInv)
<1>1. Init => WiringInv
  BY WiringInit
<1>2. TypeInv /\ WiringInv /\ [Next]_vars => WiringInv'
  BY WiringNext
<1> QED
  BY <1>1, <1>2, TypeInit, TypeNext, PTL DEF Spec

\* Within the first turn of the ring, two commands joined by "|" share a pipe
\* that nobody else is on, for every pipeline and every timing of the children
\* (cmdHandler.cpp:44-62).
THEOREM PipelinesAreWired ==
    ASSUME ProperLines
    PROVE  Spec => []PipelineWiring
<1>1. WiringInv => PipelineWiring
  BY DEF WiringInv, KidsInv, PipelineWiring
<1> QED
  BY <1>1, PipesAreWired, PTL

\* Within the first turn of the ring, the first command of every line reads the
\* output of exactly the commands piped to it with |N or !N, or the terminal
\* (cmdType.cpp:31-37, util.hpp:12-18).
THEOREM NumberedPipesDeliver ==
    ASSUME ProperLines
    PROVE  Spec => []NumberedPipeDelivery
<1>1. WiringInv => NumberedPipeDelivery
  BY DEF WiringInv, KidsInv, NumberedPipeDelivery
<1> QED
  BY <1>1, PipesAreWired, PTL

\* The shell never waits for a child whose input stays open because the shell
\* itself holds a write end of it (cmdHandler.cpp:44, 70, 73, 78).
THEOREM ShellNeverWaitsForItself ==
    ASSUME ProperLines
    PROVE  Spec => []NoSelfWait
BY WiringNoSelfWait, PipesAreWired, PTL

\* At the prompt the shell holds no output file, and a pipe that a child writes
\* to only for a numbered line to come (cmdHandler.cpp:44, 73, 79).
THEOREM PipesAreClosed ==
    ASSUME ProperLines
    PROVE  Spec => []HeldOnlyForLater
BY WiringHeld, PipesAreWired, PTL

\* While the shell runs, it prompts only when no child that writes its output to
\* the terminal is alive, and none that has yet to report an unknown command
\* there, but for the last but one command of the line, which a "|" follows
\* (cmdHandler.cpp:78, 81, 87; cmdType.cpp:17).
THEOREM PromptComesLast ==
    ASSUME ProperLines
    PROVE  Spec => []PromptAfterOutput
<1>1. Init => ReportedInv
  BY DEF Init, ReportedInv, Reported
<1>2. (TypeInv /\ WiringInv) /\ (TypeInv /\ WiringInv)' /\ ReportedInv /\ [Next]_vars
        => ReportedInv'
  BY ReportedNext
<1> QED
  BY <1>1, <1>2, WiringPrompt, PipesAreWired, ZombiesAreBounded, PTL DEF Spec

\* When a numbered line is over, each of its children has called exec() or has
\* ended: nobody holds a write end of eol any more (cmdHandler.cpp:81).
THEOREM ReadEOFSyncs ==
    ASSUME ProperLines
    PROVE  Spec => []NumberedLineSynced
BY WiringSynced, PipesAreWired, PTL

\* While the shell runs, no child dies of SIGPIPE on a pipe that never had a
\* reader: the shell keeps the read end until the reader is forked
\* (cmdHandler.cpp:73-82).
THEOREM NoEarlyBrokenPipe ==
    ASSUME ProperLines
    PROVE  Spec => BrokenPipeNeedsReader
<1>1. Init => ExitedStopped
  BY DEF Init, ExitedStopped
<1>2. TypeInv /\ WiringInv /\ ExitedStopped /\ ErrEnds /\ [Next]_vars =>
        [BeforeWrap /\ running /\ pc # "failed" => \A c \in DOMAIN procs :
           procs'[c].killed /\ ~procs[c].killed =>
              \E b \in DOMAIN procs : procs[b].in = R(procs[c].out.id)]_vars
  BY WiringBroken
<1>3. Init => ErrEnds
  BY DEF Init, ErrEnds
<1> QED
  BY <1>1, <1>2, <1>3, ExitedNext, ErrEndsNext, PipesAreWired, PTL
     DEF Spec, BrokenPipeNeedsReader
====
