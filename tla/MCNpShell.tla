----------------------------- MODULE MCNpShell -----------------------------
(* Small instances of NpShell: the lines are typed as tokens and parsed. *)
EXTENDS NpShell

Parser == INSTANCE CmdParser WITH Words <- Programs

Src(k)  == [t |-> "word", w |-> [kind |-> "src", units |-> k]]
Filter  == [t |-> "word", w |-> [kind |-> "filter", units |-> 0]]
Unknown == [t |-> "word", w |-> [kind |-> "unknown", units |-> 0]]
Bar     == [t |-> "|"]
ToFile  == [t |-> ">"]
Quit    == [t |-> "exit"]
Num(k)  == [t |-> "num", n |-> k, err |-> FALSE]
Err(k)  == [t |-> "num", n |-> k, err |-> TRUE]

\* The program a command executes is the first word of its argv.
ToCommand(c) == [prog |-> c.argv[1], conn |-> c.conn, n |-> c.n, err |-> c.err]
Parsed(tokens) ==
    LET r == Parser!ParseCommand(tokens)
    IN  [queue |-> [i \in DOMAIN r.queue |->
                        [k \in DOMAIN r.queue[i] |-> ToCommand(r.queue[i][k])]],
         exit |-> r.exit]
ParsedLines(lines) == {Parsed(l) : l \in lines}

\* ordinary, redirected, numbered, split, failing and built-in lines; no output
\* that somebody reads to the end is larger than a pipe
MixedLines == ParsedLines({
    <<Src(1), Bar, Filter, Bar, Filter>>,
    <<Src(1), ToFile>>,
    <<Src(1), Num(1)>>,
    <<Filter, Bar, Unknown, Err(2)>>,
    <<Src(1), Num(1), Filter>>,
    <<Src(3), Bar, Src(0)>>,
    <<Quit>> })

\* one numbered pipe whose output does not fit, and lines before its reader
LargeLines == ParsedLines({ <<Src(2), Num(3)>>, <<Src(0)>> })

RingLines == ParsedLines({ <<Src(0), Num(1)>>, <<Src(0), Num(2)>>, <<Src(0)>> })

\* The lines of every instance are of the kind the specification describes.
ASSUME LinesAreProper == ProperLines
====
