------------------------------ MODULE MCSocks4 ------------------------------
(* A small instance of Socks4: one client that relays, one that does not. *)
EXTENDS Socks4

CONSTANTS c1, c2

\* Addresses have two octets here.
Near == <<"10", ".", "1">>
Down == <<"10", ".", "2">>
Far  == <<"20", ".", "1">>

MCConf == << [type |-> "b", rule |-> <<"*", ".", "*">>],
             [type |-> "c", rule |-> <<"10", ".", "*">>] >>
MCDns == [n \in {<<"near">>, <<"far">>, <<"unknown">>} |->
            CASE n = <<"near">> -> Near [] n = <<"far">> -> Far [] OTHER -> None]
MCReachable == {Near, Far}

Req(cmd, dst, seg, n) == [command |-> cmd, dst |-> dst, seg |-> seg, data |-> n]
MCRequests == [c \in Clients |->
    IF c = c1 THEN {Req("CONNECT", Near, "whole", 4), Req("CONNECT", Far, "split", 1),
                    Req("CONNECT", Near, "early", 2), Req("BIND", Far, "whole", 1),
                    Req("CONNECT", <<"far">>, "whole", 0),
                    Req("CONNECT", <<"unknown">>, "whole", 0), Req("other", Near, "whole", 0)}
              ELSE {Req("CONNECT", Down, "whole", 1)}]
====
