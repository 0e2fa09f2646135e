------------------------------ MODULE CgiUtil ------------------------------
(***************************************************************************)
(* cgi_util of projects 3 and 4: from the query of the panel's form to the *)
(* sessions and columns of the console, and from what a shell prints to    *)
(* what the browser shows.                                                 *)
(***************************************************************************)
EXTENDS Integers, Sequences, SequencesExt

-----------------------------------------------------------------------------
(* Queries.  A field is h0=v, p0=v, f0=v, h1=v ..., sh=v or sp=v.           *)

Fields(indices, values) ==
    [key : {"h", "p", "f"}, i : indices, v : values] \cup [key : {"sh", "sp"}, i : {-1}, v : values]

ServerInfo(h, p, f) == [host |-> h, port |-> p, fileName |-> f]

\* parseQueryString: every three fields are an entry, whatever their names.
\* It reads past the end unless their number is a multiple of three.
ParseQueryString(q) ==
    [k \in 1 .. Len(q) \div 3 |-> ServerInfo(q[3 * k - 2].v, q[3 * k - 1].v, q[3 * k].v)]

\* The expression h(\d)=..&p\1=..&f\1=.. matches at field k.
MatchesAt(q, k) ==
    /\ k + 2 <= Len(q)
    /\ q[k].key = "h" /\ q[k + 1].key = "p" /\ q[k + 2].key = "f"
    /\ q[k].i = q[k + 1].i /\ q[k].i = q[k + 2].i
ProxyAt(q, k) == k + 1 <= Len(q) /\ q[k].key = "sh" /\ q[k + 1].key = "sp"

\* parseHTTPQueryString: matches without any text are left out.
ParseHTTPQueryString(q) ==
    LET at == SetToSortSeq({k \in DOMAIN q : MatchesAt(q, k)}, LAMBDA a, b : a < b)
        all == [j \in DOMAIN at |-> ServerInfo(q[at[j]].v, q[at[j] + 1].v, q[at[j] + 2].v)]
    IN  SelectSeq(all, LAMBDA e : e.host # "" \/ e.port # "" \/ e.fileName # "")
\* Project 4 puts the SOCKS server behind them.
ParseHTTPQueryString4(q) ==
    LET at == {k \in DOMAIN q : ProxyAt(q, k)}
    IN  ParseHTTPQueryString(q)
        \o IF at = {} THEN << >> ELSE <<ServerInfo(q[Min(at)].v, q[Min(at) + 1].v, "")>>

\* generateHTTPNPShellWebConsole: a column per entry, with its host as title.
Columns(hosts) == [k \in DOMAIN hosts |-> [host |-> hosts[k].host, port |-> hosts[k].port]]

\* The sessions, as the column each one writes to and its server.
Session(k, e) == [column |-> k, server |-> e]

\* console.cgi of project 3.
Console3(q) ==
    LET hosts == ParseHTTPQueryString(q)
    IN  [columns |-> Columns(hosts), sessions |-> {Session(k, hosts[k]) : k \in DOMAIN hosts}]

\* Mutant: the last entry is read and not removed.
PopBackNot(hosts) == hosts
PopBack(hosts) == Front(hosts)
\* console.cgi of project 4: the last entry is the SOCKS server.
Console4(q) ==
    LET all == ParseHTTPQueryString4(q)
        hosts == PopBack(all)
    IN  [columns |-> Columns(hosts), sessions |-> {Session(k, hosts[k]) : k \in DOMAIN hosts},
         proxy |-> Last(all)]

\* routeAPI of the Windows server: a session for entries that are filled in.
FilledIn(e) == e.host # "" /\ e.port # "" /\ e.fileName # ""
ConsoleW(q) ==
    LET hosts == ParseQueryString(q)
    IN  [columns |-> Columns(hosts),
         sessions |-> {Session(k, hosts[k]) : k \in {j \in DOMAIN hosts : FilledIn(hosts[j])}}]

-----------------------------------------------------------------------------
(* Text.  A text is a sequence of characters; the name of an entity stands *)
(* behind its "&" as one.  "cr" is a carriage return, "nl" a newline, "A"  *)
(* a letter and "x" a byte that is not ASCII.                              *)

Characters == {"A", "&", "<", "'", "nl", "cr", "\\", "x"}

Replace(text, ch, by) == FlattenSeq([k \in DOMAIN text |-> IF text[k] = ch THEN by ELSE <<text[k]>>])

\* Mutant: the ampersands are replaced last.
HtmlEscapeLate(text) ==
    Replace(Replace(Replace(Replace(Replace(text,
        "<", <<"&", "lt;">>), "'", <<"&", "apos;">>), "nl", <<"&", "NewLine;">>), "cr", << >>),
        "&", <<"&", "amp;">>)
\* cgi_html_escape; ">" and the double quote are like "<".
HtmlEscape(text) ==
    Replace(Replace(Replace(Replace(Replace(text, "&", <<"&", "amp;">>),
        "<", <<"&", "lt;">>), "'", <<"&", "apos;">>), "nl", <<"&", "NewLine;">>), "cr", << >>)

\* printEscape: the code of every character but letters and digits.  A byte
\* that is not ASCII is a negative char.
Code(ch) == CASE ch = "&" -> "#38;" [] ch = "<" -> "#60;" [] ch = "'" -> "#39;" [] ch = "nl" -> "#10;"
              [] ch = "cr" -> "#13;" [] ch = "\\" -> "#92;" [] ch = "x" -> "#-61;"
PrintEscape(text) ==
    FlattenSeq([k \in DOMAIN text |-> IF text[k] = "A" THEN <<"A">> ELSE <<"&", Code(text[k])>>])

\* The browser: the text is a JavaScript literal in single quotes, and then
\* HTML.  The result is what is shown, or Broken.
Broken == <<"broken">>
Literal(text) ==
    FoldLeft(LAMBDA acc, ch :
        IF acc.esc THEN [acc EXCEPT !.esc = FALSE]
        ELSE IF ch = "\\" THEN [acc EXCEPT !.esc = TRUE]
        ELSE [acc EXCEPT !.out = Append(@, ch), !.ok = @ /\ ch \notin {"'", "nl"}],
        [out |-> << >>, esc |-> FALSE, ok |-> TRUE], text)
Named(ch) == CASE ch = "&" -> "amp;" [] ch = "<" -> "lt;" [] ch = "'" -> "apos;"
               [] ch = "nl" -> "NewLine;" [] OTHER -> "none"
Entity(name) == LET is == {ch \in Characters \ {"A", "x"} : name \in {Named(ch), Code(ch)}}
                IN  IF is = {} THEN "unknown" ELSE CHOOSE ch \in is : TRUE
Html(text) ==
    FoldLeft(LAMBDA acc, ch :
        IF acc.amp THEN [acc EXCEPT !.amp = FALSE, !.out = Append(@, Entity(ch))]
        ELSE IF ch = "&" THEN [acc EXCEPT !.amp = TRUE]
        ELSE [acc EXCEPT !.out = Append(@, ch), !.ok = @ /\ ch # "<"],
        [out |-> << >>, amp |-> FALSE, ok |-> TRUE], text)
Shows(text) ==
    LET js == Literal(text)
        html == Html(js.out)
    IN  IF js.ok /\ ~js.esc /\ html.ok THEN html.out ELSE Broken
=============================================================================
