------------------------------ MODULE Firewall ------------------------------
(***************************************************************************)
(* The firewall of the SOCKS server: a request is allowed when some rule   *)
(* of socks.conf for its operation matches the destination address.  A     *)
(* rule is turned into a regular expression by two passes of replacement,  *)
(* and std::regex decides.                                                 *)
(*                                                                         *)
(* Addresses and rules are sequences of tokens: the octets, ".", and in    *)
(* rules "*".  Conversion makes them "\." and ".*".                        *)
(***************************************************************************)
EXTENDS Naturals, Sequences

\* The two loops of convertToRegexPattern, on one token.
EscapeDots(t) == CASE t = "." -> "\\." [] t = ".*" -> "\\.*" [] OTHER -> t
StarToAny(t) == IF t = "*" THEN ".*" ELSE t

\* Mutant: the loops are swapped, so the dot of ".*" is escaped as well.
ConvertSwapped(rule) == [i \in DOMAIN rule |-> EscapeDots(StarToAny(rule[i]))]
ConvertToRegexPattern(rule) == [i \in DOMAIN rule |-> StarToAny(EscapeDots(rule[i]))]

\* std::regex_match: the whole of s, from s[j], against re, from re[i].
RegexMatch(s, re) ==
    LET Is(j, t) == j <= Len(s) /\ s[j] = t
        m[i \in 1 .. Len(re) + 1, j \in 1 .. Len(s) + 1] ==
            IF i > Len(re) THEN j > Len(s)
            ELSE CASE re[i] = ".*"    -> m[i + 1, j] \/ (j <= Len(s) /\ m[i, j + 1])
                   [] re[i] = "\\.*"  -> m[i + 1, j] \/ (Is(j, ".") /\ m[i, j + 1])
                   [] re[i] = "\\."   -> Is(j, ".") /\ m[i + 1, j + 1]
                   [] OTHER           -> Is(j, re[i]) /\ m[i + 1, j + 1]
    IN  m[1, 1]

\* A rule of type `c' is for CONNECT, any other for everything else.
MatchFirewallRule(r, command, ip) ==
    /\ (r.type = "c") = command
    /\ RegexMatch(ip, ConvertToRegexPattern(r.rule))

\* The loop over the lines of socks.conf; the first word of a line is not looked at.
IsDestinationIPAddressAllowed(conf, ip, command) ==
    \E i \in DOMAIN conf : MatchFirewallRule(conf[i], command, ip)

\* What a rule is meant to cover: octet by octet, "*" is any octet.
Covers(rule, ip) == /\ Len(rule) = Len(ip)
                    /\ \A i \in DOMAIN ip : rule[i] = ip[i] \/ (rule[i] = "*" /\ ip[i] # ".")
====
