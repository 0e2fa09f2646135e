---------------------------- MODULE RwgDirectory ----------------------------
(***************************************************************************)
(* What the Remote Working Ground promises about who is online: a client   *)
(* that logs in gets the smallest unused id, keeps it until it leaves, and *)
(* no two clients go by the same name.                                     *)
(***************************************************************************)
EXTENDS Naturals

CONSTANTS Clients,    \* the connections
          MaxUsers,   \* ids are 1 .. MaxUsers
          Names,      \* the names a client may choose
          NoName,     \* "(no name)"
          Nobody      \* marks an id that is not in use

Ids == 1 .. MaxUsers

VARIABLES who,    \* who[i] = the client that has id i, or Nobody
          called  \* called[i] = its name, NoName when i is not in use
vars == <<who, called>>

Init == who = [i \in Ids |-> Nobody] /\ called = [i \in Ids |-> NoName]

Login(c) ==
    /\ \A i \in Ids : who[i] # c
    /\ \E i \in Ids : /\ who[i] = Nobody
                      /\ \A j \in 1 .. i - 1 : who[j] # Nobody
                      /\ who' = [who EXCEPT ![i] = c]
    /\ UNCHANGED called

Rename(i, n) ==
    /\ who[i] # Nobody
    /\ \A j \in Ids : called[j] # n
    /\ called' = [called EXCEPT ![i] = n]
    /\ UNCHANGED who

Logout(i) ==
    /\ who[i] # Nobody
    /\ who' = [who EXCEPT ![i] = Nobody]
    /\ called' = [called EXCEPT ![i] = NoName]

Next == \/ \E c \in Clients : Login(c)
        \/ \E i \in Ids : Logout(i) \/ \E n \in Names : Rename(i, n)

Spec == Init /\ [][Next]_vars
====
