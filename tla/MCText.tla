------------------------------- MODULE MCText -------------------------------
(* Every command line, query and text up to a length, typed item by item. *)
EXTENDS CmdParser, CgiUtil, Firewall

CONSTANTS Numbers,      \* the N of |N and !N
          UserIds,      \* the n of <n and >n
          Values,       \* what may be typed into the form, "" for nothing
          MaxTokens,    \* bound: the longest command line
          MaxText       \* bound: the longest text
VARIABLES kind,         \* what is typed
          input

\* The queries that a form with two servers sends, with and without the two
\* fields of the SOCKS server.
FormKeys == <<"h", "p", "f", "h", "p", "f", "sh", "sp">>
FormField(k, v) == [key |-> FormKeys[k], i |-> IF k > 6 THEN -1 ELSE (k - 1) \div 3, v |-> v]

\* A rule of socks.conf with four fields is turned into a regular expression that
\* matches the addresses the rule covers, and no others
\* (socks4_util.cpp:4-29).
Dotted(f) == <<f[1], ".", f[2], ".", f[3], ".", f[4]>>
ASSUME RulesAreMeant ==
    \A rule \in [1 .. 4 -> {"1", "2", "*"}], ip \in [1 .. 4 -> {"1", "2"}] :
        RegexMatch(Dotted(ip), ConvertToRegexPattern(Dotted(rule))) <=> Covers(Dotted(rule), Dotted(ip))

Init == kind \in {"line", "query", "text"} /\ input = << >>
Type(item) == input' = Append(input, item) /\ UNCHANGED kind
Next ==
    \/ kind = "line" /\ Len(input) < MaxTokens /\ \E tok \in Tokens(Numbers, UserIds) : Type(tok)
    \/ kind = "query" /\ Len(input) < 8 /\ \E v \in Values : Type(FormField(Len(input) + 1, v))
    \/ kind = "text" /\ Len(input) < MaxText /\ \E ch \in Characters : Type(ch)
Spec == Init /\ [][Next]_<<kind, input>>

\* The commands of the queue, in order, are the commands of the line: no word
\* is lost, repeated or given to another command; and the queue is cut at the
\* numbered pipes and nowhere else (project 2 cmdHandler.cpp:117-214).
ParsesAsWritten == kind = "line" =>
    LET q == ParseCommand(input).queue
        tokens == BeforeTalk(input)
        numbered == {i \in DOMAIN q : Last(q[i]).conn = "NUMBERED_PIPE"}
    IN  /\ FlattenSeq(q) = Segments(tokens)
        /\ \A i \in DOMAIN q : i < Len(q) => i \in numbered
        /\ Cardinality(numbered) = Len(SelectSeq(tokens, LAMBDA tok : tok.t = "num"))

\* A command line reads from and writes to the users it names, and to nobody if
\* it names none, up to the first line of the input that has a user pipe: the
\* lines behind a numbered pipe inherit it, since a moved NpCommandLine keeps
\* its uids (project 2 cmdHandler.cpp:184).
UsersOfOwnLine == kind = "line" =>
    LET users == ParseCommand(input).users
        written == UsersAsWritten(BeforeTalk(input))
    IN  \A k \in DOMAIN users :
          (\A j \in 1 .. k - 1 : written[j] = Uids(0, 0)) => users[k] = written[k]

\* Every server whose three fields are filled in gets a session, every session
\* writes to a column of its own whose title is its server, and the SOCKS
\* server is the one that was entered and none of the others, in all three
\* consoles.  Without the SOCKS fields, project 4 takes the last shell server
\* for it (console.cpp:15-17); the Windows server has no such fields.
SessionsHaveColumns == kind = "query" /\ Len(input) \in {6, 8} =>
    LET entries == ParseQueryString(SubSeq(input, 1, 6))
        filled == {entries[k] : k \in {j \in 1 .. 2 : FilledIn(entries[j])}}
        good(console) ==
            /\ filled \subseteq {s.server : s \in console.sessions}
            /\ \A s \in console.sessions : console.columns[s.column]
                                             = [host |-> s.server.host, port |-> s.server.port]
    IN  /\ good(Console3(input))
        /\ Len(input) = 6 => good(ConsoleW(input))
        /\ Len(input) = 8 => /\ good(Console4(input))
                             /\ Console4(input).proxy = ServerInfo(input[7].v, input[8].v, "")
                             /\ Len(Console4(input).columns) = Len(Console3(input).columns)

\* What a shell prints is shown as it is, neither broken up by its own markup
\* nor escaped twice.  cgi_html_escape drops carriage returns and does not escape
\* backslashes; printEscape writes negative codes for bytes that are not ASCII.
EscapedTextShows == kind = "text" =>
    /\ ~Contains(input, "\\") => Shows(HtmlEscape(input)) = SelectSeq(input, LAMBDA ch : ch # "cr")
    /\ ~Contains(input, "x") => Shows(PrintEscape(input)) = input
=============================================================================
