---------------------------- MODULE Socks4Proofs ----------------------------
(***************************************************************************)
(* Theorems about Socks4, for every set of clients and requests, every     *)
(* rule file, every capacity of the connections and every limit on the     *)
(* number of processes.                                                    *)
(***************************************************************************)
EXTENDS Socks4, ProofFacts, SequenceTheorems

-----------------------------------------------------------------------------
(* Sequences.                                                              *)

\* Sequences that are put together one after the other, and the empty one.
LEMMA InTurn ==
    \A x, y, z \in Seq(Items) : (x \o y) \o z = x \o (y \o z)
  BY ConcatAssociative

LEMMA Empty ==
    /\ << >> \in Seq(Items) /\ Len(<< >>) = 0
    /\ \A x \in Seq(Items) : << >> \o x = x /\ x \o << >> = x
  BY ConcatEmptySeq

\* An element at the end of a sequence, and one at its front.
LEMMA OneElement ==
    ASSUME NEW a \in Seq(Items), NEW x \in Items
    PROVE  /\ <<x>> \in Seq(Items) /\ Len(<<x>>) = 1
           /\ Append(a, x) = a \o <<x>> /\ Append(a, x) \in Seq(Items)
           /\ Len(Append(a, x)) = Len(a) + 1 /\ Len(a) \in Nat
<1>1. Append(a, x) = a \o <<x>>
  BY AppendIsConcat
<1>2. Append(a, x) \in Seq(Items) /\ Len(Append(a, x)) = Len(a) + 1
  BY AppendProperties
<1> QED
  BY <1>1, <1>2

LEMMA FrontElement ==
    ASSUME NEW a \in Seq(Items), a # << >>
    PROVE  /\ Head(a) \in Items /\ Tail(a) \in Seq(Items) /\ <<Head(a)>> \in Seq(Items)
           /\ <<Head(a)>> \o Tail(a) = a
<1>1. Head(a) \in Items /\ Tail(a) \in Seq(Items)
  BY HeadTailProperties
<1> DEFINE y == Tail(a)
           x == <<Head(a)>>
<1>2. y \in Seq(Items) /\ Len(y) = Len(a) - 1 /\ \A i \in 1 .. Len(y) : y[i] = a[i + 1]
  BY HeadTailProperties
<1>3. x \in Seq(Items) /\ Len(x) = 1 /\ x[1] = a[1]
  BY <1>1
<1>4. Len(a) \in Nat /\ Len(a) >= 1
  OBVIOUS
<1> HIDE DEF x, y
<1>5. x \o y \in Seq(Items) /\ Len(x \o y) = Len(x) + Len(y)
      /\ \A i \in 1 .. Len(x \o y) : \/ i \in 1 .. Len(x) /\ (x \o y)[i] = x[i]
                                     \/ i - Len(x) \in 1 .. Len(y) /\ (x \o y)[i] = y[i - Len(x)]
  BY <1>2, <1>3, ConcatElements, SMTT(30)
<1> DEFINE z == x \o y
<1> HIDE DEF z
<1>6. z \in Seq(Items) /\ Len(z) = Len(a)
  BY <1>2, <1>3, <1>4, <1>5 DEF z
<1>7. ASSUME NEW i \in 1 .. Len(z) PROVE z[i] = a[i]
  <2>1. CASE i \in 1 .. Len(x) /\ z[i] = x[i]
    BY <1>3, <2>1
  <2>2. CASE i - Len(x) \in 1 .. Len(y) /\ z[i] = y[i - Len(x)]
    <3>1. i - 1 \in 1 .. Len(y) /\ z[i] = y[i - 1]
      BY <1>3, <2>2
    <3>2. y[i - 1] = a[i - 1 + 1] /\ i - 1 + 1 = i
      BY <1>2, <3>1
    <3> QED
      BY <3>1, <3>2
  <2> QED
    BY <1>5, <2>1, <2>2 DEF z
<1>8. z = a
  BY <1>6, <1>7, SeqEqual
<1> QED
  BY <1>1, <1>3, <1>8 DEF x, y, z

\* The first of b becomes the last of a.
LEMMA MoveHead ==
    ASSUME NEW a \in Seq(Items), NEW b \in Seq(Items), b # << >>
    PROVE  /\ Append(a, Head(b)) \o Tail(b) = a \o b
           /\ Append(a, Head(b)) \in Seq(Items) /\ Head(b) \in Items /\ Tail(b) \in Seq(Items)
<1>1. Head(b) \in Items /\ Tail(b) \in Seq(Items) /\ <<Head(b)>> \in Seq(Items) /\ <<Head(b)>> \o Tail(b) = b
  BY FrontElement, Zenon
<1>2. Append(a, Head(b)) = a \o <<Head(b)>> /\ Append(a, Head(b)) \in Seq(Items)
  BY <1>1, OneElement, Zenon
<1>3. (a \o <<Head(b)>>) \o Tail(b) = a \o (<<Head(b)>> \o Tail(b))
  BY <1>1, InTurn, Zenon
<1> QED
  BY <1>1, <1>2, <1>3, Zenon

\* A unit that is written moves from the one who writes to the stream.
LEMMA MoveWritten ==
    ASSUME NEW a \in Seq(Items), NEW b \in Seq(Items), NEW x \in Items, NEW d \in Seq(Items)
    PROVE  (a \o Append(b, x)) \o d = (a \o b) \o (<<x>> \o d)
<1>1. Append(b, x) = b \o <<x>> /\ <<x>> \in Seq(Items)
  BY OneElement, Zenon
<1>2. a \o (b \o <<x>>) = (a \o b) \o <<x>> /\ a \o b \in Seq(Items)
  BY <1>1, InTurn, ConcatElements, Zenon
<1>3. ((a \o b) \o <<x>>) \o d = (a \o b) \o (<<x>> \o d)
  BY <1>1, <1>2, InTurn, Zenon
<1> QED
  BY <1>1, <1>2, <1>3, Zenon

\* What is put at the end of the last part is put at the end of the whole.
LEMMA AppendLast ==
    ASSUME NEW a \in Seq(Items), NEW b \in Seq(Items), NEW x \in Items
    PROVE  a \o Append(b, x) = Append(a \o b, x)
<1>1. Append(b, x) = b \o <<x>> /\ <<x>> \in Seq(Items)
  BY OneElement, Zenon
<1>2. a \o (b \o <<x>>) = (a \o b) \o <<x>> /\ a \o b \in Seq(Items)
  BY <1>1, InTurn, ConcatElements, Zenon
<1>3. Append(a \o b, x) = (a \o b) \o <<x>>
  BY <1>2, OneElement, Zenon
<1> QED
  BY <1>1, <1>2, <1>3, Zenon

\* What the steps of a relay do to all that is on the way: a unit is read, ...
LEMMA TakesHead ==
    ASSUME NEW b \in Seq(Items), b # << >>
    PROVE  <<Head(b)>> \o Tail(b) = << >> \o b
  BY FrontElement, Empty, Zenon

\* ... written to the destination, and sent, ...
LEMMA MovesUp ==
    ASSUME NEW a \in Seq(Items), NEW p \in Seq(Items), NEW b \in Seq(Items), NEW x \in Items
    PROVE  (a \o Append(p, x)) \o (<< >> \o b) = (a \o p) \o (<<x>> \o b)
<1>1. << >> \o b = b
  BY Empty, Zenon
<1>2. (a \o Append(p, x)) \o b = (a \o p) \o (<<x>> \o b)
  BY MoveWritten, ZenonT(60)
<1> QED
  BY <1>1, <1>2, Zenon

LEMMA SendsUp ==
    ASSUME NEW q \in Seq(Items), NEW w \in Seq(Items), NEW b \in Seq(Items), NEW x \in Items
    PROVE  /\ q \o (w \o Append(b, x)) = Append(q \o (w \o b), x)
           /\ q \o (w \o b) \in Seq(Items)
<1>1. w \o Append(b, x) = Append(w \o b, x)
  BY AppendLast, Zenon
<1>2. w \o b \in Seq(Items)
  BY ConcatElements, Zenon
<1>3. q \o Append(w \o b, x) = Append(q \o (w \o b), x)
  BY <1>2, AppendLast, Zenon
<1>4. q \o (w \o b) \in Seq(Items)
  BY <1>2, ConcatElements, Zenon
<1> QED
  BY <1>1, <1>3, <1>4, Zenon

\* ... written to the client, and sent back.
LEMMA MovesDown ==
    ASSUME NEW r \in Seq(Items), NEW h \in Seq(Items), NEW x \in Items
    PROVE  /\ (<<x>> \o r) \o h = <<x>> \o ((<< >> \o r) \o h)
           /\ (<< >> \o r) \o h \in Seq(Items)
<1>1. << >> \o r = r
  BY Empty, Zenon
<1>2. r \o h \in Seq(Items)
  BY ConcatElements, Zenon
<1>3. <<x>> \in Seq(Items)
  BY OneElement, Zenon
<1>4. (<<x>> \o r) \o h = <<x>> \o (r \o h)
  BY <1>3, InTurn, Zenon
<1> QED
  BY <1>1, <1>2, <1>4, Zenon

LEMMA EchoesDown ==
    ASSUME NEW w \in Seq(Items), NEW r \in Seq(Items), NEW x \in Items
    PROVE  (w \o Append(r, x)) \o << >> = (w \o r) \o <<x>>
<1>1. w \o r \in Seq(Items)
  BY ConcatElements, Zenon
<1>2. w \o Append(r, x) = Append(w \o r, x)
  BY AppendLast, Zenon
<1>3. Append(w \o r, x) \in Seq(Items) /\ Append(w \o r, x) = (w \o r) \o <<x>>
  BY <1>1, OneElement, Zenon
<1> QED
  BY <1>2, <1>3, Empty, Zenon

LEMMA HoldsDown ==
    ASSUME NEW q \in Seq(Items), NEW w \in Seq(Items), NEW r \in Seq(Items), NEW x \in Items
    PROVE  /\ q \o ((w \o r) \o <<x>>) = Append(q \o ((w \o r) \o << >>), x)
           /\ q \o ((w \o r) \o << >>) \in Seq(Items)
<1> DEFINE y == w \o r
<1>1. y \in Seq(Items)
  BY ConcatElements, Zenon
<1> HIDE DEF y
<1>2. y \o << >> = y /\ Append(y, x) = y \o <<x>>
  BY <1>1, Empty, OneElement, Zenon
<1>3. q \o Append(y, x) = Append(q \o y, x) /\ q \o y \in Seq(Items)
  BY <1>1, AppendLast, ConcatElements, Zenon
<1>4. q \o (y \o <<x>>) = Append(q \o (y \o << >>), x) /\ q \o (y \o << >>) \in Seq(Items)
  BY <1>2, <1>3, Zenon
<1> QED
  BY <1>4, Zenon DEF y

\* The numbers 1, 2, 3, ...
Counts(q) == \A i \in 1 .. Len(q) : q[i] = i

\* n replies, and then these numbers.
Replied(q) == Number(q, Granted) + Number(q, Rejected)
RepliesFirst(q, n) == \A i \in 1 .. Len(q) : IF i <= n THEN q[i] \in Replies ELSE q[i] = i - n

\* Both hold for a part at the front, and when the next number is added.
LEMMA FrontPart ==
    ASSUME NEW a \in Seq(Items), NEW b \in Seq(Items), NEW n
    PROVE  /\ Counts(a \o b) => Counts(a)
           /\ RepliesFirst(a \o b, n) => RepliesFirst(a, n)
<1>1. \A i \in 1 .. Len(a) : i \in 1 .. Len(a \o b) /\ (a \o b)[i] = a[i]
  BY ConcatElements
<1> QED
  BY <1>1, Zenon DEF Counts, RepliesFirst

LEMMA NextNumber ==
    ASSUME NEW q \in Seq(Items), NEW n \in Nat, NEW m \in Nat, Len(q) = n + m
    PROVE  /\ RepliesFirst(q, n) => RepliesFirst(Append(q, m + 1), n)
           /\ n = 0 /\ Counts(q) => Counts(Append(q, m + 1))
           /\ Len(Append(q, m + 1)) = n + (m + 1)
<1> DEFINE r == Append(q, m + 1)
<1>1. Len(r) = n + m + 1 /\ r[n + m + 1] = m + 1 /\ \A i \in 1 .. n + m : r[i] = q[i]
  BY AppendElements
<1> HIDE DEF r
<1>2. ASSUME NEW i \in 1 .. Len(r) PROVE i = n + m + 1 \/ i \in 1 .. n + m
  BY <1>1
<1>3. ASSUME RepliesFirst(q, n), NEW i \in 1 .. Len(r)
      PROVE  IF i <= n THEN r[i] \in Replies ELSE r[i] = i - n
  <2>1. CASE i = n + m + 1
    BY <1>1, <2>1
  <2>2. CASE i \in 1 .. n + m
    BY <1>1, <1>3, <2>2 DEF RepliesFirst
  <2> QED
    BY <1>2, <2>1, <2>2
<1>4. ASSUME n = 0, Counts(q), NEW i \in 1 .. Len(r) PROVE r[i] = i
  <2>1. CASE i = n + m + 1
    BY <1>1, <1>4, <2>1
  <2>2. CASE i \in 1 .. n + m
    BY <1>1, <1>4, <2>2 DEF Counts
  <2> QED
    BY <1>2, <2>1, <2>2
<1>5. Len(r) = n + (m + 1)
  BY <1>1
<1> QED
  BY <1>3, <1>4, <1>5 DEF r, Counts, RepliesFirst

\* How often x is in a sequence that grows.
LEMMA NumberAppend ==
    ASSUME NEW q \in Seq(Items), NEW x, NEW y \in Items
    PROVE  /\ Number(q, x) \in Nat
           /\ Number(Append(q, y), x) = Number(q, x) + (IF y = x THEN 1 ELSE 0)
           /\ Number(<< >>, x) = 0
<1> DEFINE N(s) == {i \in 1 .. Len(s) : s[i] = x}
           r == Append(q, y)
<1>1. IsFiniteSet(N(q)) /\ Cardinality(N(q)) \in Nat
  <2>1. IsFiniteSet(1 .. Len(q)) /\ N(q) \subseteq 1 .. Len(q)
    BY FS_Interval
  <2> HIDE DEF N
  <2> QED
    BY <2>1, SubsetSize
<1>2. Len(r) = Len(q) + 1 /\ r[Len(q) + 1] = y /\ \A i \in 1 .. Len(q) : r[i] = q[i]
  BY AppendElements
<1>3. Len(q) \in Nat
  OBVIOUS
<1> HIDE DEF r
<1>4. N(r) = IF y = x THEN N(q) \cup {Len(q) + 1} ELSE N(q)
  <2>1. \A i : i \in 1 .. Len(r) <=> i \in 1 .. Len(q) \/ i = Len(q) + 1
    BY <1>2, <1>3
  <2> QED
    BY <1>2, <2>1
<1>5. Len(q) + 1 \notin N(q)
  BY <1>3
<1>6. Cardinality(N(q) \cup {Len(q) + 1}) = Cardinality(N(q)) + 1
  <2> HIDE DEF N
  <2> QED
    BY <1>1, <1>5, FS_AddElement
<1>7. Cardinality(N(r)) = Cardinality(N(q)) + (IF y = x THEN 1 ELSE 0)
  <2> HIDE DEF N
  <2> QED
    BY <1>1, <1>4, <1>6
<1>8. Cardinality(N(<< >>)) = 0
  <2>1. N(<< >>) = {}
    OBVIOUS
  <2> HIDE DEF N
  <2> QED
    BY <2>1, FS_EmptySet
<1> QED
  BY <1>1, <1>7, <1>8 DEF Number, r

-----------------------------------------------------------------------------
(* The inductive invariant, session by session.                            *)

Before == {"off", "queued", "wait"}
Setup  == Before \cup {"connect", "accept"}
Active == Setup \cup {"relay"}

Allowed(command, dst) ==
    IsDestinationIPAddressAllowed(Conf, ResolveEndpoint(dst), command = "CONNECT")

\* The unit that the chain in direction d is writing, and the one that the
\* destination has to send back.
InWrite(c, d) == IF writing[c] # None /\ writing[c].d = d THEN <<writing[c].item>> ELSE << >>
InHand(c) == IF held[c] # None THEN <<held[c]>> ELSE << >>

\* What a session has done when it is at a place.
Phase(c) ==
    /\ \A s \in {"cp", "pr", "rp"} : link[c][s] \in Seq(Data)
    /\ pc[c] \in Before => hdr[c] = None
    /\ pc[c] \in Before \cup {"connect"} => ToClient(c) = << >>
    /\ pc[c] \in Setup => /\ remote[c] = None /\ writing[c] = None
                          /\ "pr" \notin fin[c] /\ "pc" \notin fin[c]
    /\ pc[c] = "connect" => /\ hdr[c] # None /\ hdr[c].command = "CONNECT"
                            /\ ResolveEndpoint(hdr[c].dst) # None
                            /\ Allowed(hdr[c].command, hdr[c].dst)
    /\ pc[c] = "accept" => /\ hdr[c] # None /\ hdr[c].command = "BIND"
                           /\ ToClient(c) = <<Granted>>
    /\ remote[c] = None => /\ arrived[c] = << >> /\ held[c] = None
                           /\ link[c]["pr"] = << >> /\ link[c]["rp"] = << >>
    /\ req[c] = None => link[c]["cp"] = << >> /\ sent[c] = 0
    /\ "rp" \in fin[c] => held[c] = None
    /\ gone[c] => "cp" \in fin[c]
    /\ rgone[c] => "rp" \in fin[c]

\* What the client has been told.
Told(c) ==
    LET g == Number(ToClient(c), Granted)
        r == Number(ToClient(c), Rejected)
    IN  /\ g = 0 \/ r = 0
        /\ g <= Owed(c) /\ (remote[c] # None => g = Owed(c))
        /\ pc[c] \in Active => r = 0
        /\ r > 0 => /\ hdr[c] # None /\ ResolveEndpoint(hdr[c].dst) # None
                    /\ ~Allowed(hdr[c].command, hdr[c].dst)
        /\ remote[c] \notin {None, Peer} =>
             \E h \in Headers : /\ h.command = "CONNECT" /\ remote[c] = ResolveEndpoint(h.dst)
                                /\ Allowed(h.command, h.dst)

\* All that the client sent, from the destination back to the client.
AllUp(c) == (arrived[c] \o link[c]["pr"]) \o (InWrite(c, "up") \o link[c]["cp"])
UpOrder(c) ==
    Orderly(c) => /\ Counts(ToRemote(c))
                  /\ pc[c] \in Active /\ ~rgone[c] =>
                       Counts(AllUp(c)) /\ (~gone[c] => Len(AllUp(c)) = sent[c])

\* All that was sent to the client, from the client back to the destination.
AllDown(c) == (got[c] \o link[c]["pc"]) \o ((InWrite(c, "down") \o link[c]["rp"]) \o InHand(c))
DownOrder(c) ==
    Orderly(c) =>
        LET n == Replied(ToClient(c))
        IN  /\ RepliesFirst(ToClient(c), n)
            /\ pc[c] \in Active /\ ~gone[c] =>
                 /\ RepliesFirst(AllDown(c), n)
                 /\ "rp" \notin fin[c] => Len(AllDown(c)) = n + Len(arrived[c])

SessionInv(c) == Phase(c) /\ Told(c) /\ UpOrder(c) /\ DownOrder(c) /\ (Orderly(c) => EofLast(c))

Inv == TypeOK /\ \A c \in Clients : SessionInv(c)

-----------------------------------------------------------------------------
(* The invariant is inductive.                                             *)

\* A step of one session leaves the others as they are.
OthersKept(c) ==
    \A e \in Clients \ {c} :
        /\ pc'[e] = pc[e] /\ req'[e] = req[e] /\ hdr'[e] = hdr[e] /\ remote'[e] = remote[e]
        /\ link'[e] = link[e] /\ fin'[e] = fin[e] /\ writing'[e] = writing[e]
        /\ sent'[e] = sent[e] /\ held'[e] = held[e] /\ got'[e] = got[e]
        /\ arrived'[e] = arrived[e] /\ gone'[e] = gone[e] /\ rgone'[e] = rgone[e]

LEMMA OneSession ==
    ASSUME NEW c \in Clients, Inv, TypeOK', OthersKept(c), SessionInv(c)'
    PROVE  Inv'
<1>1. ASSUME NEW e \in Clients \ {c} PROVE SessionInv(e)'
  <2>1. SessionInv(e)
    BY DEF Inv
  <2>2. /\ ToClient(e)' = ToClient(e) /\ ToRemote(e)' = ToRemote(e)
        /\ InWrite(e, "up")' = InWrite(e, "up") /\ InWrite(e, "down")' = InWrite(e, "down")
        /\ InHand(e)' = InHand(e) /\ (Orderly(e)' <=> Orderly(e))
    BY Zenon DEF OthersKept, ToClient, ToRemote, InWrite, InHand, Orderly
  <2>3. AllUp(e)' = AllUp(e) /\ AllDown(e)' = AllDown(e)
    BY <2>2, Zenon DEF OthersKept, AllUp, AllDown
  <2>4. Phase(e)'
    BY <2>1, <2>2, Zenon DEF SessionInv, Phase, OthersKept
  <2>5. Told(e)'
    BY <2>1, <2>2, ZenonT(60) DEF SessionInv, Told, Owed, OthersKept
  <2>6. UpOrder(e)'
    BY <2>1, <2>2, <2>3, Zenon DEF SessionInv, UpOrder, OthersKept
  <2>7. DownOrder(e)'
    BY <2>1, <2>2, <2>3, Zenon DEF SessionInv, DownOrder, OthersKept
  <2>8. Orderly(e)' => EofLast(e)'
    BY <2>1, <2>2, Zenon DEF SessionInv, EofLast, OthersKept
  <2> QED
    BY <2>4, <2>5, <2>6, <2>7, <2>8, Zenon DEF SessionInv
<1>2. ASSUME NEW e \in Clients PROVE SessionInv(e)'
  <2>1. CASE e = c
    BY <2>1
  <2>2. CASE e # c
    BY <1>1, <2>2
  <2> QED
    BY <2>1, <2>2
<1> QED
  BY <1>2 DEF Inv

\* What TypeOK says of one session.
Places == {"off", "queued", "wait", "connect", "accept", "relay", "idle", "dead"}
SessionType(c) ==
    /\ pc[c] \in Places
    /\ \A s \in Streams : link[c][s] \in Seq(Items)
    /\ got[c] \in Seq(Items) /\ arrived[c] \in Seq(Items)
    /\ arrived[c] \in Seq(Data)
    /\ InWrite(c, "up") \in Seq(Items) /\ InWrite(c, "down") \in Seq(Items) /\ InHand(c) \in Seq(Items)
    /\ ToClient(c) \in Seq(Items) /\ ToRemote(c) \in Seq(Items)
    /\ sent[c] \in Nat /\ gone[c] \in BOOLEAN /\ rgone[c] \in BOOLEAN

LEMMA DataFacts ==
    /\ \A q \in Seq(Data) : q \in Seq(Items)
    /\ Data \subseteq Items /\ Replies \subseteq Items /\ None \notin Data
    /\ \A x \in Data : x # Granted /\ x # Rejected
  BY ValuesAssumption DEF Items, Data, Replies

LEMMA TypeOfSession ==
    ASSUME TypeOK, NEW c \in Clients
    PROVE  SessionType(c)
<1>1. /\ pc[c] \in Places /\ got[c] \in Seq(Items) /\ arrived[c] \in Seq(Data)
      /\ \A s \in Streams : link[c][s] \in Seq(Items)
      /\ sent[c] \in Nat /\ gone[c] \in BOOLEAN /\ rgone[c] \in BOOLEAN
      /\ writing[c] \in Writes \cup {None} /\ held[c] \in Data \cup {None}
  BY DEF TypeOK, Places
<1>2. arrived[c] \in Seq(Items)
  BY <1>1, DataFacts
<1>3. ASSUME NEW d PROVE InWrite(c, d) \in Seq(Items)
  <2>1. CASE writing[c] # None /\ writing[c].d = d
    <3>1. writing[c].item \in Items
      BY <1>1, <2>1, DataFacts DEF Writes
    <3>2. <<writing[c].item>> \in Seq(Items)
      BY <3>1
    <3> QED
      BY <2>1, <3>2 DEF InWrite
  <2>2. CASE ~ (writing[c] # None /\ writing[c].d = d)
    BY <2>2 DEF InWrite
  <2> QED
    BY <2>1, <2>2
<1>4. InHand(c) \in Seq(Items)
  <2>1. CASE held[c] # None
    <3>1. held[c] \in Items
      BY <1>1, <2>1, DataFacts
    <3>2. <<held[c]>> \in Seq(Items)
      BY <3>1
    <3> QED
      BY <2>1, <3>2 DEF InHand
  <2>2. CASE held[c] = None
    BY <2>2 DEF InHand
  <2> QED
    BY <2>1, <2>2
<1>5. link[c]["pc"] \in Seq(Items) /\ link[c]["pr"] \in Seq(Items)
  BY <1>1 DEF Streams
<1>6. ToClient(c) \in Seq(Items) /\ ToRemote(c) \in Seq(Items)
  BY <1>1, <1>2, <1>5, ConcatElements, Zenon DEF ToClient, ToRemote
<1> QED
  BY <1>1, <1>2, <1>3, <1>4, <1>6, Zenon DEF SessionType

\* The streams after something is put into one of them, or taken from it.
LEMMA LinkPut ==
    ASSUME TypeOK, NEW c \in Clients, NEW s \in Streams, NEW x \in Items, link' = Put(link, c, s, x)
    PROVE  /\ link' \in [Clients -> [Streams -> Seq(Items)]]
           /\ link'[c][s] = Append(link[c][s], x)
           /\ \A u \in Streams \ {s} : link'[c][u] = link[c][u]
           /\ \A e \in Clients \ {c} : link'[e] = link[e]
<1>1. link \in [Clients -> [Streams -> Seq(Items)]]
  BY DEF TypeOK
<1>2. link[c] \in [Streams -> Seq(Items)] /\ link[c][s] \in Seq(Items)
  BY <1>1
<1> DEFINE y == Append(link[c][s], x)
<1>3. y \in Seq(Items)
  BY <1>2, OneElement
<1> HIDE DEF y
<1>4. link' = [link EXCEPT ![c] = [link[c] EXCEPT ![s] = y]]
  BY DEF Put, y
<1>5. [link[c] EXCEPT ![s] = y] \in [Streams -> Seq(Items)]
  BY <1>2, <1>3
<1>6. link'[c] = [link[c] EXCEPT ![s] = y]
  BY <1>1, <1>4, Zenon
<1>7. link'[c][s] = y /\ \A u \in Streams \ {s} : link'[c][u] = link[c][u]
  BY <1>2, <1>6, Zenon
<1>8. link' \in [Clients -> [Streams -> Seq(Items)]]
  BY <1>1, <1>4, <1>5, Zenon
<1>9. \A e \in Clients \ {c} : link'[e] = link[e]
  BY <1>1, <1>4, Zenon
<1> QED
  BY <1>7, <1>8, <1>9, Zenon DEF y

LEMMA LinkTail ==
    ASSUME TypeOK, NEW c \in Clients, NEW s \in Streams, link[c][s] # << >>,
           link' = [link EXCEPT ![c][s] = Tail(@)]
    PROVE  /\ link' \in [Clients -> [Streams -> Seq(Items)]]
           /\ link'[c][s] = Tail(link[c][s])
           /\ \A u \in Streams \ {s} : link'[c][u] = link[c][u]
           /\ \A e \in Clients \ {c} : link'[e] = link[e]
<1>1. link \in [Clients -> [Streams -> Seq(Items)]]
  BY DEF TypeOK
<1>2. link[c] \in [Streams -> Seq(Items)] /\ link[c][s] \in Seq(Items)
  BY <1>1
<1> DEFINE y == Tail(link[c][s])
<1>3. y \in Seq(Items)
  BY <1>2, FrontElement
<1> HIDE DEF y
<1>4. link' = [link EXCEPT ![c] = [link[c] EXCEPT ![s] = y]]
  BY DEF y
<1>5. [link[c] EXCEPT ![s] = y] \in [Streams -> Seq(Items)]
  BY <1>2, <1>3
<1>6. link'[c] = [link[c] EXCEPT ![s] = y]
  BY <1>1, <1>4, Zenon
<1>7. link'[c][s] = y /\ \A u \in Streams \ {s} : link'[c][u] = link[c][u]
  BY <1>2, <1>6, Zenon
<1>8. link' \in [Clients -> [Streams -> Seq(Items)]]
  BY <1>1, <1>4, <1>5, Zenon
<1>9. \A e \in Clients \ {c} : link'[e] = link[e]
  BY <1>1, <1>4, Zenon
<1> QED
  BY <1>7, <1>8, <1>9, Zenon DEF y

\* The streams that have ended, after more of them end.
LEMMA FinGrows ==
    ASSUME TypeOK, NEW c \in Clients, NEW X \in SUBSET Streams, fin' = [fin EXCEPT ![c] = @ \cup X]
    PROVE  /\ fin' \in [Clients -> SUBSET Streams] /\ fin'[c] = fin[c] \cup X
           /\ \A e \in Clients \ {c} : fin'[e] = fin[e]
<1>1. fin \in [Clients -> SUBSET Streams] /\ fin[c] \cup X \in SUBSET Streams
  BY DEF TypeOK
<1> QED
  BY <1>1

\* The parts of the invariant that a step does not touch.
LEMMA ToldKept ==
    ASSUME NEW c, Told(c), ToClient(c)' = ToClient(c), remote'[c] = remote[c], hdr'[c] = hdr[c],
           pc'[c] \in Active => pc[c] \in Active
    PROVE  Told(c)'
  BY Zenon DEF Told, Owed

LEMMA UpKept ==
    ASSUME NEW c, UpOrder(c), req'[c] = req[c], ToRemote(c)' = ToRemote(c),
           pc'[c] \in Active /\ ~rgone'[c] =>
               /\ pc[c] \in Active /\ ~rgone[c] /\ AllUp(c)' = AllUp(c)
               /\ sent'[c] = sent[c] /\ (~gone'[c] => ~gone[c])
    PROVE  UpOrder(c)'
<1>1. Orderly(c)' <=> Orderly(c)
  BY DEF Orderly
<1> QED
  BY <1>1, Zenon DEF UpOrder

LEMMA DownKept ==
    ASSUME NEW c, DownOrder(c), req'[c] = req[c], ToClient(c)' = ToClient(c),
           pc'[c] \in Active /\ ~gone'[c] =>
               /\ pc[c] \in Active /\ ~gone[c] /\ AllDown(c)' = AllDown(c)
               /\ arrived'[c] = arrived[c] \/ "rp" \in fin'[c]
               /\ "rp" \in fin[c] => "rp" \in fin'[c]
    PROVE  DownOrder(c)'
<1>1. Orderly(c)' <=> Orderly(c)
  BY DEF Orderly
<1> QED
  BY <1>1, Zenon DEF DownOrder

LEMMA EofKept ==
    ASSUME NEW c, Orderly(c) => EofLast(c), req'[c] = req[c], ToRemote(c)' = ToRemote(c),
           pc'[c] = "relay" => pc[c] = "relay",
           remote'[c] = remote[c], fin'[c] = fin[c], sent'[c] = sent[c],
           gone'[c] = gone[c], rgone'[c] = rgone[c],
           link'[c]["rp"] = link[c]["rp"]
    PROVE  Orderly(c)' => EofLast(c)'
<1>1. Orderly(c)' <=> Orderly(c)
  BY DEF Orderly
<1> QED
  BY <1>1, Zenon DEF EofLast

LEMMA NoReplies == Number(<< >>, Granted) = 0 /\ Number(<< >>, Rejected) = 0 /\ Replied(<< >>) = 0
<1>1. Number(<< >>, Granted) = 0 /\ Number(<< >>, Rejected) = 0
  BY NumberAppend, Empty, DataFacts DEF Replies
<1> QED
  BY <1>1 DEF Replied

\* A session that is over: its handler is destroyed, or its process ends.
Finishes(c) ==
    /\ pc'[c] \in {"idle", "dead"}
    /\ fin'[c] = fin[c] \cup {"pc", "pr"} \/ fin'[c] = fin[c] \cup {"pc"}
    /\ link'[c] = link[c] /\ remote'[c] = remote[c] /\ req'[c] = req[c] /\ sent'[c] = sent[c]
    /\ held'[c] = held[c] /\ got'[c] = got[c] /\ arrived'[c] = arrived[c]
    /\ gone'[c] = gone[c] /\ rgone'[c] = rgone[c]
    /\ hdr'[c] = hdr[c] \/ (ToClient(c) = << >> /\ remote[c] = None)

LEMMA FinishKeeps ==
    ASSUME NEW c \in Clients, TypeOK, SessionInv(c), Finishes(c)
    PROVE  SessionInv(c)'
<1> USE DEF Finishes
<1>1. Phase(c) /\ Told(c) /\ UpOrder(c) /\ DownOrder(c)
  BY DEF SessionInv
<1>2. ToClient(c)' = ToClient(c) /\ ToRemote(c)' = ToRemote(c)
  BY Zenon DEF ToClient, ToRemote
<1>3. pc'[c] \notin Active
  BY DEF Active, Setup, Before
<1>4. /\ \A s \in {"cp", "pr", "rp"} : (s \in fin'[c] => s \in fin[c] \/ s = "pr")
      /\ "cp" \in fin[c] => "cp" \in fin'[c]
  OBVIOUS
<1>5. Phase(c)'
  BY <1>1, <1>4 DEF Phase, Before, Setup
<1>6. Told(c)'
  <2>1. CASE hdr'[c] = hdr[c]
    BY <1>1, <1>2, <1>3, <2>1, ToldKept
  <2>2. CASE ToClient(c) = << >> /\ remote[c] = None
    BY <1>2, <2>2, NoReplies DEF Told, Owed
  <2> QED
    BY <2>1, <2>2
<1>7. UpOrder(c)' /\ DownOrder(c)'
  BY <1>1, <1>2, <1>3, UpKept, DownKept
<1>8. EofLast(c)'
  BY DEF EofLast
<1> QED
  BY <1>5, <1>6, <1>7, <1>8 DEF SessionInv

LEMMA InvInit == Init => Inv
<1> SUFFICES ASSUME Init PROVE Inv
  OBVIOUS
<1>1. TypeOK
  <2>1. link \in [Clients -> [Streams -> Seq(Items)]]
    BY DEF Init
  <2> QED
    BY <2>1 DEF Init, TypeOK, Streams
<1>2. ASSUME NEW c \in Clients PROVE SessionInv(c)
  <2>1. /\ pc[c] = "off" /\ req[c] = None /\ hdr[c] = None /\ remote[c] = None
        /\ fin[c] = {} /\ writing[c] = None /\ sent[c] = 0 /\ held[c] = None
        /\ got[c] = << >> /\ arrived[c] = << >> /\ gone[c] = FALSE /\ rgone[c] = FALSE
        /\ \A s \in Streams : link[c][s] = << >>
    BY DEF Init
  <2>2. ToClient(c) = << >>
    BY <2>1, Empty DEF ToClient, Streams
  <2>3. Phase(c)
    <3>1. /\ link[c]["cp"] = << >> /\ link[c]["pr"] = << >> /\ link[c]["rp"] = << >>
          /\ << >> \in Seq(Data)
      BY <2>1 DEF Streams
    <3> QED
      BY <2>1, <2>2, <3>1 DEF Phase, Before, Setup
  <2>4. Told(c)
    BY <2>1, <2>2, NoReplies DEF Told, Owed
  <2> QED
    BY <2>1, <2>3, <2>4 DEF SessionInv, UpOrder, DownOrder, EofLast, Orderly
<1> QED
  BY <1>1, <1>2 DEF Inv

LEMMA AcceptKeeps ==
    ASSUME Inv, NEW c \in Clients, Accept(c)
    PROVE  Inv'
<1>1. TypeOK /\ SessionInv(c) /\ pc[c] = "queued"
  BY DEF Inv, Accept
<1>2. UNCHANGED <<req, hdr, remote, link, dir, writing, sent, held, got, arrived, gone, rgone>>
  BY DEF Accept, relay, ends
<1>3. \/ pc' = Set(pc, c, "wait") /\ armed' \in BOOLEAN /\ UNCHANGED <<up, fin>>
      \/ /\ up' = FALSE /\ UNCHANGED armed
         /\ pc' = Set(pc, c, "dead") /\ fin' = [fin EXCEPT ![c] = @ \cup {"pc"}]
  BY DEF Accept, Rearmed
<1>4. TypeOK' /\ OthersKept(c)
  <2>1. pc' \in [Clients -> Places] /\ \A e \in Clients \ {c} : pc'[e] = pc[e]
    BY <1>1, <1>3 DEF TypeOK, Set, Places
  <2>2. fin' \in [Clients -> SUBSET Streams] /\ \A e \in Clients \ {c} : fin'[e] = fin[e]
    BY <1>1, <1>3, FinGrows DEF TypeOK, Streams
  <2>3. up' \in BOOLEAN /\ armed' \in BOOLEAN
    BY <1>1, <1>3 DEF TypeOK
  <2>4. TypeOK'
    BY <1>1, <1>2, <2>1, <2>2, <2>3, Zenon DEF TypeOK, Places
  <2> QED
    BY <1>2, <2>1, <2>2, <2>4, Zenon DEF OthersKept
<1>5. SessionInv(c)'
  <2>1. CASE pc' = Set(pc, c, "wait") /\ UNCHANGED <<up, fin>>
    <3>1. pc'[c] = "wait"
      BY <1>1, <2>1 DEF TypeOK, Set
    <3>2. Phase(c) /\ Told(c) /\ UpOrder(c) /\ DownOrder(c) /\ pc[c] \in Active
      BY <1>1 DEF SessionInv, Active, Setup, Before
    <3>3. /\ ToClient(c)' = ToClient(c) /\ ToRemote(c)' = ToRemote(c)
          /\ AllUp(c)' = AllUp(c) /\ AllDown(c)' = AllDown(c)
      BY <1>2, <2>1, Zenon DEF ToClient, ToRemote, AllUp, AllDown, InWrite, InHand
    <3>4. Phase(c)'
      BY <1>1, <1>2, <2>1, <3>1, <3>2, <3>3 DEF Phase, Before, Setup
    <3>5. Told(c)' /\ UpOrder(c)' /\ DownOrder(c)'
      BY <1>2, <2>1, <3>2, <3>3, ToldKept, UpKept, DownKept
    <3>6. EofLast(c)'
      BY <3>1 DEF EofLast
    <3> QED
      BY <3>4, <3>5, <3>6 DEF SessionInv
  <2>2. CASE pc' = Set(pc, c, "dead") /\ fin' = [fin EXCEPT ![c] = @ \cup {"pc"}]
    <3>1. pc'[c] = "dead" /\ fin'[c] = fin[c] \cup {"pc"}
      BY <1>1, <2>2 DEF TypeOK, Set
    <3>2. /\ link'[c] = link[c] /\ remote'[c] = remote[c] /\ req'[c] = req[c] /\ sent'[c] = sent[c]
          /\ held'[c] = held[c] /\ got'[c] = got[c] /\ arrived'[c] = arrived[c]
          /\ gone'[c] = gone[c] /\ rgone'[c] = rgone[c] /\ hdr'[c] = hdr[c]
      BY <1>2
    <3> QED
      BY <1>1, <3>1, <3>2, FinishKeeps, Zenon DEF Finishes
  <2> QED
    BY <1>3, <2>1, <2>2
<1> QED
  BY <1>4, <1>5, OneSession

LEMMA ClientConnectKeeps ==
    ASSUME Inv, NEW c \in Clients, ClientConnect(c)
    PROVE  Inv'
<1>1. TypeOK /\ SessionInv(c) /\ pc[c] = "off"
  BY DEF Inv, ClientConnect
<1>2. UNCHANGED <<up, armed, req, hdr, remote, link, fin, dir, writing, sent, held, got, arrived, gone, rgone>>
  BY DEF ClientConnect, relay, ends, streams
<1>3. pc' \in [Clients -> Places] /\ (\A e \in Clients \ {c} : pc'[e] = pc[e]) /\ pc'[c] = "queued"
  BY <1>1 DEF TypeOK, Set, Places, ClientConnect
<1>4. TypeOK' /\ OthersKept(c)
  BY <1>1, <1>2, <1>3, Zenon DEF TypeOK, Places, OthersKept
<1>5. SessionInv(c)'
  <2>1. Phase(c) /\ Told(c) /\ UpOrder(c) /\ DownOrder(c) /\ pc[c] \in Active
    BY <1>1 DEF SessionInv, Active, Setup, Before
  <2>2. /\ ToClient(c)' = ToClient(c) /\ ToRemote(c)' = ToRemote(c)
        /\ AllUp(c)' = AllUp(c) /\ AllDown(c)' = AllDown(c)
    BY <1>2, Zenon DEF ToClient, ToRemote, AllUp, AllDown, InWrite, InHand
  <2>3. Phase(c)'
    BY <1>1, <1>2, <1>3, <2>1, <2>2 DEF Phase, Before, Setup
  <2>4. Told(c)' /\ UpOrder(c)' /\ DownOrder(c)'
    BY <1>2, <2>1, <2>2, ToldKept, UpKept, DownKept
  <2>5. EofLast(c)'
    BY <1>3 DEF EofLast
  <2> QED
    BY <2>3, <2>4, <2>5 DEF SessionInv
<1> QED
  BY <1>4, <1>5, OneSession

\* The first replies.
LEMMA OneReply ==
    ASSUME NEW x \in Replies
    PROVE  /\ Append(<< >>, x) = <<x>> /\ <<x>> \in Seq(Items)
           /\ Number(<<x>>, Granted) = (IF x = Granted THEN 1 ELSE 0)
           /\ Number(<<x>>, Rejected) = (IF x = Rejected THEN 1 ELSE 0)
           /\ Replied(<<x>>) = 1 /\ Len(<<x>>) = 1 /\ RepliesFirst(<<x>>, 1)
<1>1. x \in Items /\ << >> \in Seq(Items) /\ (x = Granted \/ x = Rejected) /\ Granted # Rejected
  BY DataFacts, ValuesAssumption DEF Replies
<1>2. Append(<< >>, x) = <<x>> /\ <<x>> \in Seq(Items) /\ Len(<<x>>) = 1 /\ <<x>>[1] = x
  BY <1>1
<1>3. /\ Number(Append(<< >>, x), Granted) = Number(<< >>, Granted) + (IF x = Granted THEN 1 ELSE 0)
      /\ Number(Append(<< >>, x), Rejected) = Number(<< >>, Rejected) + (IF x = Rejected THEN 1 ELSE 0)
  BY <1>1, NumberAppend
<1>4. /\ Number(<<x>>, Granted) = (IF x = Granted THEN 1 ELSE 0)
      /\ Number(<<x>>, Rejected) = (IF x = Rejected THEN 1 ELSE 0)
  BY <1>2, <1>3, NoReplies
<1>5. Replied(<<x>>) = 1
  BY <1>1, <1>4 DEF Replied
<1>6. RepliesFirst(<<x>>, 1)
  BY <1>2 DEF RepliesFirst
<1> QED
  BY <1>2, <1>4, <1>5, <1>6

LEMMA TwoReplies ==
    LET q == Append(<<Granted>>, Granted)
    IN  /\ q \in Seq(Items) /\ Number(q, Granted) = 2 /\ Number(q, Rejected) = 0
        /\ Replied(q) = 2 /\ Len(q) = 2 /\ RepliesFirst(q, 2)
<1> DEFINE q == Append(<<Granted>>, Granted)
<1>1. Granted \in Replies /\ Granted \in Items /\ Granted # Rejected
  BY DataFacts, ValuesAssumption DEF Replies
<1>2. <<Granted>> \in Seq(Items) /\ Number(<<Granted>>, Granted) = 1 /\ Number(<<Granted>>, Rejected) = 0
  BY <1>1, OneReply
<1>3. q \in Seq(Items) /\ Len(q) = 2 /\ q[1] = Granted /\ q[2] = Granted
  BY <1>1, <1>2
<1>4. Number(q, Granted) = 2 /\ Number(q, Rejected) = 0
  <2>1. \A x : Number(q, x) = Number(<<Granted>>, x) + (IF Granted = x THEN 1 ELSE 0)
    BY <1>1, <1>2, NumberAppend, Zenon
  <2> HIDE DEF q
  <2> QED
    BY <1>1, <1>2, <2>1
<1> HIDE DEF q
<1>5. Replied(q) = 2
  BY <1>4 DEF Replied
<1>6. RepliesFirst(q, 2)
  BY <1>1, <1>3 DEF RepliesFirst
<1> QED
  BY <1>3, <1>4, <1>5, <1>6 DEF q

\* Before a relay starts, there is nothing on the way but replies.
LEMMA SetupFacts ==
    ASSUME NEW c \in Clients, TypeOK, SessionInv(c), pc[c] \in Setup
    PROVE  /\ remote[c] = None /\ arrived[c] = << >> /\ held[c] = None /\ writing[c] = None
           /\ link[c]["pr"] = << >> /\ link[c]["rp"] = << >>
           /\ InWrite(c, "up") = << >> /\ InWrite(c, "down") = << >> /\ InHand(c) = << >>
           /\ ToRemote(c) = << >> /\ AllDown(c) = ToClient(c)
<1>1. /\ remote[c] = None /\ arrived[c] = << >> /\ held[c] = None /\ writing[c] = None
      /\ link[c]["pr"] = << >> /\ link[c]["rp"] = << >>
  BY DEF SessionInv, Phase
<1>2. InWrite(c, "up") = << >> /\ InWrite(c, "down") = << >> /\ InHand(c) = << >>
  BY <1>1 DEF InWrite, InHand
<1>3. ToClient(c) \in Seq(Items)
  BY TypeOfSession DEF SessionType
<1>4. << >> \o << >> = << >> /\ ToClient(c) \o << >> = ToClient(c)
  BY <1>3, Empty, Zenon
<1>5. ToRemote(c) = << >>
  BY <1>1, <1>4, Zenon DEF ToRemote
<1>6. AllDown(c) = ToClient(c)
  BY <1>1, <1>2, <1>4, Zenon DEF AllDown, ToClient
<1> QED
  BY <1>1, <1>2, <1>5, <1>6

\* A reply is given when there is nothing else on the way.
LEMMA DownReplied ==
    ASSUME NEW c \in Clients, NEW q \in Seq(Items), ToClient(c)' = q, AllDown(c)' = q,
           arrived'[c] = << >>, NEW n \in Nat, Replied(q) = n, Len(q) = n, RepliesFirst(q, n)
    PROVE  DownOrder(c)'
<1>1. Len(arrived'[c]) = 0
  OBVIOUS
<1> QED
  BY <1>1 DEF DownOrder

\* The handler is destroyed, or its process ends.
LEMMA OverType ==
    ASSUME TypeOK, NEW c \in Clients, NEW l \in {"idle", "dead"}, Over(c, l)
    PROVE  /\ pc' \in [Clients -> Places] /\ pc'[c] = l
           /\ fin' \in [Clients -> SUBSET Streams] /\ fin'[c] = fin[c] \cup {"pc", "pr"}
           /\ writing' \in [Clients -> Writes \cup {None}] /\ writing'[c] = None
           /\ \A e \in Clients \ {c} : pc'[e] = pc[e] /\ fin'[e] = fin[e] /\ writing'[e] = writing[e]
<1>1. {"pc", "pr"} \in SUBSET Streams /\ fin' = [fin EXCEPT ![c] = @ \cup {"pc", "pr"}]
  BY DEF Over, Streams
<1>2. /\ fin' \in [Clients -> SUBSET Streams] /\ fin'[c] = fin[c] \cup {"pc", "pr"}
      /\ \A e \in Clients \ {c} : fin'[e] = fin[e]
  BY <1>1, FinGrows
<1>3. /\ pc' \in [Clients -> Places] /\ pc'[c] = l
      /\ \A e \in Clients \ {c} : pc'[e] = pc[e]
  BY DEF TypeOK, Over, Set, Places
<1>4. /\ writing' \in [Clients -> Writes \cup {None}] /\ writing'[c] = None
      /\ \A e \in Clients \ {c} : writing'[e] = writing[e]
  BY DEF TypeOK, Over, Set
<1> QED
  BY <1>2, <1>3, <1>4

\* A reply is put into the stream to the client.
LEMMA GivesReply ==
    ASSUME NEW c \in Clients, TypeOK, SessionInv(c), pc[c] \in Setup, NEW x \in Replies,
           link' = Put(link, c, "pc", x), UNCHANGED <<held, got, arrived>>
    PROVE  /\ link' \in [Clients -> [Streams -> Seq(Items)]]
           /\ \A s \in {"cp", "pr", "rp"} : link'[c][s] = link[c][s]
           /\ \A e \in Clients \ {c} : link'[e] = link[e]
           /\ ToClient(c)' = Append(ToClient(c), x) /\ ToRemote(c)' = ToRemote(c)
           /\ writing'[c] = None => AllUp(c)' = AllUp(c) /\ AllDown(c)' = Append(ToClient(c), x)
<1>0. writing[c] = None /\ held[c] = None /\ link[c]["rp"] = << >>
  BY SetupFacts
<1>1. /\ link' \in [Clients -> [Streams -> Seq(Items)]]
      /\ link'[c]["pc"] = Append(link[c]["pc"], x)
      /\ \A u \in Streams \ {"pc"} : link'[c][u] = link[c][u]
      /\ \A e \in Clients \ {c} : link'[e] = link[e]
  BY LinkPut, DataFacts DEF Streams
<1>2. \A s \in {"cp", "pr", "rp"} : link'[c][s] = link[c][s]
  BY <1>1 DEF Streams
<1>3. x \in Items /\ got[c] \in Seq(Items) /\ link[c]["pc"] \in Seq(Items) /\ ToClient(c) \in Seq(Items)
  BY TypeOfSession, DataFacts DEF SessionType, Streams
<1>4. got[c] \o Append(link[c]["pc"], x) = Append(got[c] \o link[c]["pc"], x)
  BY <1>3, AppendLast, Zenon
<1>5. ToClient(c)' = Append(ToClient(c), x)
  BY <1>1, <1>4 DEF ToClient
<1>6. ToRemote(c)' = ToRemote(c)
  BY <1>2 DEF ToRemote
<1>7. ASSUME writing'[c] = None PROVE AllUp(c)' = AllUp(c) /\ AllDown(c)' = Append(ToClient(c), x)
  <2>1. InWrite(c, "up")' = InWrite(c, "up") /\ InWrite(c, "down")' = << >> /\ InHand(c)' = << >>
    BY <1>0, <1>7 DEF InWrite, InHand
  <2>2. link'[c]["pr"] = link[c]["pr"] /\ link'[c]["cp"] = link[c]["cp"] /\ link'[c]["rp"] = << >>
    BY <1>0, <1>2
  <2> DEFINE q == Append(ToClient(c), x)
  <2>3. q \in Seq(Items)
    BY <1>3, OneElement, Zenon
  <2> HIDE DEF q
  <2>4. << >> \o << >> = << >> /\ q \o << >> = q
    BY <2>3, Empty, Zenon
  <2>5. got'[c] \o link'[c]["pc"] = q
    BY <1>5 DEF ToClient, q
  <2>6. AllDown(c)' = q
    BY <2>1, <2>2, <2>4, <2>5, Zenon DEF AllDown
  <2>7. AllUp(c)' = AllUp(c)
    BY <2>1, <2>2, Zenon DEF AllUp
  <2> QED
    BY <2>6, <2>7 DEF q
<1> QED
  BY <1>1, <1>2, <1>5, <1>6, <1>7

LEMMA HandleReadKeeps ==
    ASSUME Inv, NEW c \in Clients, HandleRead(c)
    PROVE  Inv'
<1>1. TypeOK /\ SessionInv(c) /\ pc[c] = "wait" /\ pc[c] \in Setup /\ pc[c] \in Active
  BY DEF Inv, HandleRead, Setup, Before, Active
<1>2. Phase(c) /\ Told(c) /\ UpOrder(c) /\ DownOrder(c) /\ ToClient(c) = << >>
  BY <1>1 DEF SessionInv, Phase, Before
<1>3. UNCHANGED <<up, armed, req, remote, dir, sent, held, got, arrived, gone, rgone>>
  BY DEF HandleRead, ends
<1>4. /\ remote[c] = None /\ arrived[c] = << >> /\ held[c] = None /\ writing[c] = None
      /\ link[c]["pr"] = << >> /\ link[c]["rp"] = << >>
      /\ ToRemote(c) = << >> /\ AllDown(c) = ToClient(c)
  BY <1>1, SetupFacts
<1>5. CASE Over(c, "dead") /\ UNCHANGED <<hdr, link>>
  <2>1. /\ pc' \in [Clients -> Places] /\ pc'[c] = "dead"
        /\ fin' \in [Clients -> SUBSET Streams] /\ fin'[c] = fin[c] \cup {"pc", "pr"}
        /\ writing' \in [Clients -> Writes \cup {None}]
        /\ \A e \in Clients \ {c} : pc'[e] = pc[e] /\ fin'[e] = fin[e] /\ writing'[e] = writing[e]
    BY <1>1, <1>5, OverType
  <2>2. TypeOK' /\ OthersKept(c)
    BY <1>1, <1>3, <1>5, <2>1, Zenon DEF TypeOK, Places, OthersKept
  <2>3. SessionInv(c)'
    BY <1>1, <1>3, <1>5, <2>1, FinishKeeps DEF Finishes
  <2> QED
    BY <2>2, <2>3, OneSession
<1>6. ASSUME NEW h \in {[command |-> r.command, dst |-> r.dst] : r \in Requests[c]},
             hdr' = Set(hdr, c, h)
      PROVE  /\ hdr' \in [Clients -> Headers \cup {None}] /\ hdr'[c] = h /\ h # None
             /\ \A e \in Clients \ {c} : hdr'[e] = hdr[e]
  <2>1. h \in Headers
    BY DEF Headers, AllRequests
  <2>2. hdr \in [Clients -> Headers \cup {None}]
    BY <1>1 DEF TypeOK
  <2>3. h # None
    BY <2>1, ValuesAssumption
  <2> QED
    BY <1>6, <2>1, <2>2, <2>3 DEF Set
<1>7. ASSUME NEW h \in {[command |-> r.command, dst |-> r.dst] : r \in Requests[c]},
             hdr' = Set(hdr, c, h), NEW l \in {"dead", "idle"}, Over(c, l), UNCHANGED link
      PROVE  Inv'
  <2>1. /\ pc' \in [Clients -> Places] /\ pc'[c] = l
        /\ fin' \in [Clients -> SUBSET Streams] /\ fin'[c] = fin[c] \cup {"pc", "pr"}
        /\ writing' \in [Clients -> Writes \cup {None}]
        /\ \A e \in Clients \ {c} : pc'[e] = pc[e] /\ fin'[e] = fin[e] /\ writing'[e] = writing[e]
    BY <1>1, <1>7, OverType
  <2>2. hdr' \in [Clients -> Headers \cup {None}] /\ \A e \in Clients \ {c} : hdr'[e] = hdr[e]
    BY <1>6, <1>7
  <2>3. TypeOK' /\ OthersKept(c)
    BY <1>1, <1>3, <1>7, <2>1, <2>2, Zenon DEF TypeOK, Places, OthersKept
  <2>4. Finishes(c)
    BY <1>2, <1>3, <1>4, <1>7, <2>1 DEF Finishes
  <2>5. SessionInv(c)'
    BY <1>1, <2>4, FinishKeeps
  <2> QED
    BY <2>3, <2>5, OneSession
<1>8. ASSUME NEW x \in Replies, link' = Put(link, c, "pc", x)
      PROVE  /\ link' \in [Clients -> [Streams -> Seq(Items)]]
             /\ \A s \in {"cp", "pr", "rp"} : link'[c][s] = link[c][s]
             /\ \A e \in Clients \ {c} : link'[e] = link[e]
             /\ ToClient(c)' = <<x>> /\ ToRemote(c)' = ToRemote(c)
             /\ writing'[c] = None => AllUp(c)' = AllUp(c) /\ AllDown(c)' = <<x>>
  <2>1. /\ link' \in [Clients -> [Streams -> Seq(Items)]]
        /\ \A s \in {"cp", "pr", "rp"} : link'[c][s] = link[c][s]
        /\ \A e \in Clients \ {c} : link'[e] = link[e]
        /\ ToClient(c)' = Append(ToClient(c), x) /\ ToRemote(c)' = ToRemote(c)
        /\ writing'[c] = None => AllUp(c)' = AllUp(c) /\ AllDown(c)' = Append(ToClient(c), x)
    BY <1>1, <1>3, <1>8, GivesReply
  <2> QED
    BY <1>2, <2>1, OneReply
<1>9. ASSUME NEW h \in {[command |-> r.command, dst |-> r.dst] : r \in Requests[c]},
             hdr' = Set(hdr, c, h), ResolveEndpoint(h.dst) # None, ~Allowed(h.command, h.dst),
             link' = Put(link, c, "pc", Rejected), Over(c, "idle")
      PROVE  Inv'
  <2>0. Rejected \in Replies /\ Granted # Rejected
    BY ValuesAssumption DEF Replies
  <2>1. /\ pc' \in [Clients -> Places] /\ pc'[c] = "idle"
        /\ fin' \in [Clients -> SUBSET Streams] /\ fin'[c] = fin[c] \cup {"pc", "pr"}
        /\ writing' \in [Clients -> Writes \cup {None}] /\ writing'[c] = None
        /\ \A e \in Clients \ {c} : pc'[e] = pc[e] /\ fin'[e] = fin[e] /\ writing'[e] = writing[e]
    BY <1>1, <1>9, OverType
  <2>2. /\ hdr' \in [Clients -> Headers \cup {None}] /\ hdr'[c] = h /\ h # None
        /\ \A e \in Clients \ {c} : hdr'[e] = hdr[e]
    BY <1>6, <1>9
  <2>3. /\ link' \in [Clients -> [Streams -> Seq(Items)]]
        /\ \A s \in {"cp", "pr", "rp"} : link'[c][s] = link[c][s]
        /\ \A e \in Clients \ {c} : link'[e] = link[e]
        /\ ToClient(c)' = <<Rejected>> /\ ToRemote(c)' = ToRemote(c)
        /\ AllUp(c)' = AllUp(c) /\ AllDown(c)' = <<Rejected>>
    BY <1>8, <1>9, <2>0, <2>1
  <2>4. TypeOK' /\ OthersKept(c)
    BY <1>1, <1>3, <2>1, <2>2, <2>3, Zenon DEF TypeOK, Places, OthersKept
  <2>5. Phase(c)'
    BY <1>2, <1>3, <2>1, <2>3 DEF Phase, Setup, Before
  <2>6. Told(c)'
    <3>1. Number(<<Rejected>>, Granted) = 0 /\ Number(<<Rejected>>, Rejected) = 1
      BY <2>0, OneReply
    <3>2. remote'[c] = None /\ pc'[c] \notin Active
      BY <1>3, <1>4, <2>1 DEF Active, Setup, Before
    <3> QED
      BY <1>9, <2>2, <2>3, <3>1, <3>2 DEF Told, Owed
  <2>7. UpOrder(c)'
    <3>1. pc'[c] \notin Active
      BY <2>1 DEF Active, Setup, Before
    <3> QED
      BY <1>2, <1>3, <2>3, <3>1, UpKept
  <2>8. DownOrder(c)'
    BY <1>3, <1>4, <2>0, <2>3, OneReply, DownReplied
  <2>9. EofLast(c)'
    BY <2>1 DEF EofLast
  <2>10. SessionInv(c)'
    BY <2>5, <2>6, <2>7, <2>8, <2>9 DEF SessionInv
  <2> QED
    BY <2>4, <2>10, OneSession
<1>10. ASSUME NEW h \in {[command |-> r.command, dst |-> r.dst] : r \in Requests[c]},
              hdr' = Set(hdr, c, h), ResolveEndpoint(h.dst) # None,
              Allowed(h.command, h.dst), h.command = "CONNECT",
              pc' = Set(pc, c, "connect"), UNCHANGED <<streams, writing>>
       PROVE  Inv'
  <2>1. pc' \in [Clients -> Places] /\ pc'[c] = "connect" /\ \A e \in Clients \ {c} : pc'[e] = pc[e]
    BY <1>1, <1>10 DEF TypeOK, Set, Places
  <2>2. /\ hdr' \in [Clients -> Headers \cup {None}] /\ hdr'[c] = h /\ h # None
        /\ \A e \in Clients \ {c} : hdr'[e] = hdr[e]
    BY <1>6, <1>10
  <2>3. link' = link /\ fin' = fin /\ writing' = writing
    BY <1>10 DEF streams
  <2>4. TypeOK' /\ OthersKept(c)
    BY <1>1, <1>3, <2>1, <2>2, <2>3, Zenon DEF TypeOK, Places, OthersKept
  <2>5. /\ ToClient(c)' = ToClient(c) /\ ToRemote(c)' = ToRemote(c)
        /\ AllUp(c)' = AllUp(c) /\ AllDown(c)' = AllDown(c)
    BY <1>3, <2>3, Zenon DEF ToClient, ToRemote, AllUp, AllDown, InWrite, InHand
  <2>6. Phase(c)'
    BY <1>1, <1>2, <1>3, <1>10, <2>1, <2>2, <2>3, <2>5 DEF Phase, Setup, Before
  <2>7. Told(c)'
    BY <1>2, <1>3, <1>4, <2>5, NoReplies DEF Told, Owed
  <2>8. UpOrder(c)' /\ DownOrder(c)'
    BY <1>1, <1>2, <1>3, <2>3, <2>5, UpKept, DownKept
  <2>9. EofLast(c)'
    BY <2>1 DEF EofLast
  <2>10. SessionInv(c)'
    BY <2>6, <2>7, <2>8, <2>9 DEF SessionInv
  <2> QED
    BY <2>4, <2>10, OneSession
<1>11. ASSUME NEW h \in {[command |-> r.command, dst |-> r.dst] : r \in Requests[c]},
              hdr' = Set(hdr, c, h), h.command = "BIND",
              link' = Put(link, c, "pc", Granted),
              pc' = Set(pc, c, "accept"), UNCHANGED <<fin, writing>>
       PROVE  Inv'
  <2>0. Granted \in Replies /\ Granted # Rejected
    BY ValuesAssumption DEF Replies
  <2>1. pc' \in [Clients -> Places] /\ pc'[c] = "accept" /\ \A e \in Clients \ {c} : pc'[e] = pc[e]
    BY <1>1, <1>11 DEF TypeOK, Set, Places
  <2>2. /\ hdr' \in [Clients -> Headers \cup {None}] /\ hdr'[c] = h /\ h # None
        /\ \A e \in Clients \ {c} : hdr'[e] = hdr[e]
    BY <1>6, <1>11
  <2>3. /\ link' \in [Clients -> [Streams -> Seq(Items)]]
        /\ \A s \in {"cp", "pr", "rp"} : link'[c][s] = link[c][s]
        /\ \A e \in Clients \ {c} : link'[e] = link[e]
        /\ ToClient(c)' = <<Granted>> /\ ToRemote(c)' = ToRemote(c)
        /\ AllUp(c)' = AllUp(c) /\ AllDown(c)' = <<Granted>>
    BY <1>4, <1>8, <1>11, <2>0
  <2>4. TypeOK' /\ OthersKept(c)
    BY <1>1, <1>3, <1>11, <2>1, <2>2, <2>3, Zenon DEF TypeOK, Places, OthersKept
  <2>5. Phase(c)'
    BY <1>1, <1>2, <1>3, <1>11, <2>1, <2>2, <2>3 DEF Phase, Setup, Before
  <2>6. Told(c)'
    <3>1. Number(<<Granted>>, Granted) = 1 /\ Number(<<Granted>>, Rejected) = 0
      BY <2>0, OneReply
    <3>2. remote'[c] = None
      BY <1>3, <1>4
    <3> QED
      BY <1>11, <2>2, <2>3, <3>1, <3>2 DEF Told, Owed
  <2>7. UpOrder(c)'
    BY <1>1, <1>2, <1>3, <2>3, UpKept
  <2>8. DownOrder(c)'
    BY <1>3, <1>4, <2>0, <2>3, OneReply, DownReplied
  <2>9. EofLast(c)'
    BY <2>1 DEF EofLast
  <2>10. SessionInv(c)'
    BY <2>5, <2>6, <2>7, <2>8, <2>9 DEF SessionInv
  <2> QED
    BY <2>4, <2>10, OneSession
<1>12. CASE Over(c, "dead") /\ UNCHANGED <<hdr, link, dir>>
  BY <1>5, <1>12
<1>13. CASE ~ (Over(c, "dead") /\ UNCHANGED <<hdr, link, dir>>)
  <2>1. PICK h \in {[command |-> r.command, dst |-> r.dst] : r \in Requests[c]} :
          /\ hdr' = Set(hdr, c, h)
          /\ \/ Over(c, "dead") /\ UNCHANGED link
             \/ /\ ResolveEndpoint(h.dst) # None /\ ~Allowed(h.command, h.dst)
                /\ link' = Put(link, c, "pc", Rejected) /\ Over(c, "idle")
             \/ /\ ResolveEndpoint(h.dst) # None /\ Allowed(h.command, h.dst) /\ h.command = "CONNECT"
                /\ pc' = Set(pc, c, "connect") /\ UNCHANGED <<streams, writing>>
             \/ /\ h.command = "BIND" /\ link' = Put(link, c, "pc", Granted)
                /\ pc' = Set(pc, c, "accept") /\ UNCHANGED <<fin, writing>>
             \/ Over(c, "idle") /\ UNCHANGED link
    BY <1>13, Zenon DEF HandleRead, Allowed
  <2> QED
    BY <1>7, <1>9, <1>10, <1>11, <2>1
<1> QED
  BY <1>12, <1>13

\* A relay starts, with a connection or without one.
LEMMA RelayStarts ==
    ASSUME Inv, NEW c \in Clients, pc[c] \in {"connect", "accept"}, StartRelay(c),
           UNCHANGED <<up, armed, req, hdr, fin, writing, sent, held, got, arrived, gone, rgone>>,
           NEW w \in Reachable \cup {Peer, None}, remote' = Set(remote, c, w),
           \/ w = None /\ pc[c] = "connect" /\ link' = link
           \/ /\ w # None /\ link' = Put(link, c, "pc", Granted)
              /\ w # Peer => \E h \in Headers : /\ h.command = "CONNECT" /\ w = ResolveEndpoint(h.dst)
                                                /\ Allowed(h.command, h.dst)
    PROVE  Inv'
<1>1. TypeOK /\ SessionInv(c) /\ pc[c] \in Setup /\ pc[c] \in Active
  BY DEF Inv, Setup, Before, Active
<1>2. Phase(c) /\ Told(c) /\ UpOrder(c) /\ DownOrder(c) /\ "pr" \notin fin[c] /\ "pc" \notin fin[c]
  BY <1>1 DEF SessionInv, Phase
<1>3. /\ remote[c] = None /\ arrived[c] = << >> /\ held[c] = None /\ writing[c] = None
      /\ link[c]["pr"] = << >> /\ link[c]["rp"] = << >>
      /\ ToRemote(c) = << >> /\ AllDown(c) = ToClient(c)
  BY <1>1, SetupFacts
<1>4. pc' \in [Clients -> Places] /\ pc'[c] = "relay" /\ \A e \in Clients \ {c} : pc'[e] = pc[e]
  BY <1>1 DEF TypeOK, StartRelay, Set, Places
<1>5. dir' \in [Clients -> [{"up", "down"} -> {"off", "wait", "done"}]]
  BY <1>1 DEF TypeOK, StartRelay, Set
<1>6. /\ remote' \in [Clients -> Reachable \cup {Peer, None}] /\ remote'[c] = w
      /\ \A e \in Clients \ {c} : remote'[e] = remote[e]
  BY <1>1 DEF TypeOK, Set
<1>7. CASE w = None /\ pc[c] = "connect" /\ link' = link
  <2>1. TypeOK' /\ OthersKept(c)
    BY <1>1, <1>4, <1>5, <1>6, <1>7, Zenon DEF TypeOK, Places, OthersKept
  <2>2. /\ ToClient(c)' = ToClient(c) /\ ToRemote(c)' = ToRemote(c)
        /\ AllUp(c)' = AllUp(c) /\ AllDown(c)' = AllDown(c)
    BY <1>7, Zenon DEF ToClient, ToRemote, AllUp, AllDown, InWrite, InHand
  <2>3. Phase(c)'
    BY <1>2, <1>3, <1>4, <1>6, <1>7 DEF Phase, Setup, Before
  <2>4. Told(c)' /\ UpOrder(c)' /\ DownOrder(c)'
    <3>1. remote'[c] = remote[c]
      BY <1>3, <1>6, <1>7
    <3> QED
      BY <1>1, <1>2, <1>3, <1>6, <1>7, <2>2, <3>1, ToldKept, UpKept, DownKept
  <2>5. EofLast(c)'
    BY <1>6, <1>7 DEF EofLast
  <2>6. SessionInv(c)'
    BY <2>3, <2>4, <2>5 DEF SessionInv
  <2> QED
    BY <2>1, <2>6, OneSession
<1>8. CASE w # None /\ link' = Put(link, c, "pc", Granted)
  <2> DEFINE q == Append(ToClient(c), Granted)
  <2>0. Granted \in Replies /\ Granted # Rejected
    BY ValuesAssumption DEF Replies
  <2>1. /\ link' \in [Clients -> [Streams -> Seq(Items)]]
        /\ \A s \in {"cp", "pr", "rp"} : link'[c][s] = link[c][s]
        /\ \A e \in Clients \ {c} : link'[e] = link[e]
        /\ ToClient(c)' = q /\ ToRemote(c)' = ToRemote(c)
        /\ AllUp(c)' = AllUp(c) /\ AllDown(c)' = q
    BY <1>1, <1>3, <1>8, <2>0, GivesReply
  <2>2. TypeOK' /\ OthersKept(c)
    BY <1>1, <1>4, <1>5, <1>6, <2>1, Zenon DEF TypeOK, Places, OthersKept
  <2>3. \E n \in {1, 2} : /\ q \in Seq(Items) /\ Number(q, Granted) = n /\ Number(q, Rejected) = 0
                          /\ Replied(q) = n /\ Len(q) = n /\ RepliesFirst(q, n)
                          /\ Owed(c)' = n
    <3>1. CASE pc[c] = "connect"
      <4>1. q = <<Granted>>
        BY <1>2, <2>0, <3>1, OneReply DEF Phase, Before
      <4>2. Owed(c)' = 1
        BY <1>2, <1>6, <1>8, <3>1 DEF Phase, Owed
      <4> QED
        BY <2>0, <4>1, <4>2, OneReply
    <3>2. CASE pc[c] = "accept"
      <4>1. q = Append(<<Granted>>, Granted)
        BY <1>2, <3>2 DEF Phase
      <4>2. Owed(c)' = 2
        BY <1>2, <1>6, <1>8, <3>2 DEF Phase, Owed
      <4> HIDE DEF q
      <4> QED
        BY <4>1, <4>2, TwoReplies
    <3> QED
      BY <3>1, <3>2
  <2> HIDE DEF q
  <2>4. Phase(c)'
    BY <1>2, <1>4, <1>6, <1>8, <2>1 DEF Phase, Setup, Before
  <2>5. Told(c)'
    BY <1>6, <1>8, <2>1, <2>3 DEF Told
  <2>6. UpOrder(c)'
    BY <1>1, <1>2, <2>1, UpKept
  <2>7. DownOrder(c)'
    <3>1. PICK n \in {1, 2} : q \in Seq(Items) /\ Replied(q) = n /\ Len(q) = n /\ RepliesFirst(q, n)
      BY <2>3
    <3> QED
      BY <1>3, <2>1, <3>1, DownReplied
  <2>8. EofLast(c)'
    BY <1>2 DEF EofLast
  <2>9. SessionInv(c)'
    BY <2>4, <2>5, <2>6, <2>7, <2>8 DEF SessionInv
  <2> QED
    BY <2>2, <2>9, OneSession
<1> QED
  BY <1>7, <1>8

\* The reply throws, and the process ends.
LEMMA ReplyFailsKeeps ==
    ASSUME Inv, NEW c \in Clients, ReplyFails(c), UNCHANGED <<up, armed, req, hdr, ends>>
    PROVE  Inv'
<1>1. TypeOK /\ SessionInv(c)
  BY DEF Inv
<1>2. /\ Over(c, "dead")
      /\ UNCHANGED <<up, armed, req, hdr, remote, link, dir, sent, held, got, arrived, gone, rgone>>
  BY DEF ReplyFails, ends
<1>3. /\ pc' \in [Clients -> Places] /\ pc'[c] = "dead"
      /\ fin' \in [Clients -> SUBSET Streams] /\ fin'[c] = fin[c] \cup {"pc", "pr"}
      /\ writing' \in [Clients -> Writes \cup {None}]
      /\ \A e \in Clients \ {c} : pc'[e] = pc[e] /\ fin'[e] = fin[e] /\ writing'[e] = writing[e]
  BY <1>1, <1>2, OverType
<1>4. TypeOK' /\ OthersKept(c)
  BY <1>1, <1>2, <1>3, Zenon DEF TypeOK, Places, OthersKept
<1>5. Finishes(c)
  BY <1>2, <1>3 DEF Finishes
<1> QED
  BY <1>1, <1>4, <1>5, FinishKeeps, OneSession

LEMMA ConnectKeeps ==
    ASSUME Inv, NEW c \in Clients, Connect(c)
    PROVE  Inv'
<1> DEFINE ip == ResolveEndpoint(hdr[c].dst)
           w == IF ip \in Reachable THEN ip ELSE None
<1>0. CASE ReplyFails(c)
  BY <1>0, ReplyFailsKeeps DEF Connect
<1>1. CASE ~ReplyFails(c)
  <2>1. /\ pc[c] = "connect" /\ StartRelay(c) /\ remote' = Set(remote, c, w)
        /\ UNCHANGED <<up, armed, req, hdr, fin, writing, sent, held, got, arrived, gone, rgone>>
        /\ link' = IF ip \in Reachable THEN Put(link, c, "pc", Granted) ELSE link
    BY <1>1, Zenon DEF Connect, ConnectReply, ends
  <2>2. /\ hdr[c] # None /\ hdr[c].command = "CONNECT" /\ ip # None /\ Allowed(hdr[c].command, hdr[c].dst)
        /\ hdr[c] \in Headers
    BY <2>1 DEF Inv, SessionInv, Phase, TypeOK
  <2>3. w \in Reachable \cup {Peer, None}
    OBVIOUS
  <2>4. CASE ip \in Reachable
    <3>1. w = ip /\ w # None /\ link' = Put(link, c, "pc", Granted)
      BY <2>1, <2>2, <2>4
    <3>2. \E h \in Headers : h.command = "CONNECT" /\ w = ResolveEndpoint(h.dst) /\ Allowed(h.command, h.dst)
      BY <2>2, <3>1, Zenon
    <3> HIDE DEF w, ip
    <3> QED
      BY <2>1, <2>3, <3>1, <3>2, RelayStarts
  <2>5. CASE ip \notin Reachable
    <3>1. w = None /\ link' = link
      BY <2>1, <2>5
    <3> HIDE DEF w, ip
    <3> QED
      BY <2>1, <2>3, <3>1, RelayStarts
  <2> QED
    BY <2>4, <2>5
<1> QED
  BY <1>0, <1>1

LEMMA BindAcceptKeeps ==
    ASSUME Inv, NEW c \in Clients, BindAccept(c)
    PROVE  Inv'
<1>1. CASE ReplyFails(c)
  BY <1>1, ReplyFailsKeeps DEF BindAccept
<1>2. CASE ~ReplyFails(c)
  <2>1. /\ pc[c] = "accept" /\ StartRelay(c) /\ remote' = Set(remote, c, Peer)
        /\ UNCHANGED <<up, armed, req, hdr, fin, writing, sent, held, got, arrived, gone, rgone>>
        /\ link' = Put(link, c, "pc", Granted)
    BY <1>2, Zenon DEF BindAccept, ends
  <2>2. Peer # None
    BY ValuesAssumption
  <2> QED
    BY <2>1, <2>2, RelayStarts
<1> QED
  BY <1>1, <1>2

LEMMA DataHead ==
    ASSUME NEW q \in Seq(Data), q # << >>
    PROVE  Head(q) \in Data /\ Tail(q) \in Seq(Data)
  BY HeadTailProperties

LEMMA ReadSomeKeeps ==
    ASSUME Inv, NEW c \in Clients, NEW d \in {"up", "down"}, ReadSome(c, d)
    PROVE  Inv'
<1> DEFINE s == Source(d)
           x == Head(link[c][s])
<1>1. TypeOK /\ SessionInv(c) /\ SessionType(c)
  BY TypeOfSession DEF Inv
<1>2. /\ pc[c] = "relay" /\ writing[c] = None /\ link[c][s] # << >>
      /\ link' = [link EXCEPT ![c][s] = Tail(@)]
      /\ writing' = Set(writing, c, [d |-> d, item |-> x])
      /\ UNCHANGED <<up, armed, pc, req, hdr, remote, fin, dir, sent, held, got, arrived, gone, rgone>>
  BY DEF ReadSome, Free, control, ends
<1>3. Phase(c) /\ Told(c) /\ UpOrder(c) /\ DownOrder(c) /\ (Orderly(c) => EofLast(c))
  BY <1>1 DEF SessionInv
<1>4. /\ s \in {"cp", "rp"} /\ s \in Streams
      /\ d = "up" => s = "cp"
      /\ d = "down" => s = "rp"
  BY DEF Source, Streams
<1>5. x \in Data /\ Tail(link[c][s]) \in Seq(Data)
  <2>1. link[c][s] \in Seq(Data)
    BY <1>3, <1>4 DEF Phase
  <2> QED
    BY <1>2, <2>1, DataHead
<1> HIDE DEF s, x
<1>6. /\ link' \in [Clients -> [Streams -> Seq(Items)]]
      /\ link'[c][s] = Tail(link[c][s])
      /\ \A u \in Streams \ {s} : link'[c][u] = link[c][u]
      /\ \A e \in Clients \ {c} : link'[e] = link[e]
  BY <1>1, <1>2, <1>4, LinkTail
<1>7. /\ writing' \in [Clients -> Writes \cup {None}] /\ writing'[c] = [d |-> d, item |-> x]
      /\ writing'[c] # None
      /\ \A e \in Clients \ {c} : writing'[e] = writing[e]
  <2>1. [d |-> d, item |-> x] \in Writes
    BY <1>5 DEF Writes
  <2>2. [d |-> d, item |-> x] # None
    BY <2>1, ValuesAssumption
  <2> QED
    BY <1>1, <1>2, <2>1, <2>2 DEF TypeOK, Set
<1>8. TypeOK' /\ OthersKept(c)
  BY <1>1, <1>2, <1>6, <1>7, Zenon DEF TypeOK, OthersKept
<1>9. link'[c]["pr"] = link[c]["pr"] /\ link'[c]["pc"] = link[c]["pc"]
  BY <1>4, <1>6 DEF Streams
<1>10. ToClient(c)' = ToClient(c) /\ ToRemote(c)' = ToRemote(c) /\ InHand(c)' = InHand(c)
  BY <1>2, <1>9 DEF ToClient, ToRemote, InHand
<1>11. /\ InWrite(c, d)' = <<x>> /\ \A f \in {"up", "down"} : f # d => InWrite(c, f)' = << >>
       /\ \A f \in {"up", "down"} : InWrite(c, f) = << >>
  BY <1>2, <1>7 DEF InWrite
<1>12. /\ link[c]["cp"] \in Seq(Items) /\ link[c]["rp"] \in Seq(Items) /\ link[c]["pr"] \in Seq(Items)
       /\ link[c]["pc"] \in Seq(Items)
       /\ arrived[c] \in Seq(Items) /\ got[c] \in Seq(Items) /\ InHand(c) \in Seq(Items)
       /\ x \in Items
  BY <1>1, <1>5, DataFacts DEF SessionType, Streams
<1>13. AllUp(c)' = AllUp(c) /\ AllDown(c)' = AllDown(c)
  <2>1. CASE d = "up"
    <3>1. /\ link'[c]["cp"] = Tail(link[c]["cp"]) /\ x = Head(link[c]["cp"]) /\ link[c]["cp"] # << >>
          /\ link'[c]["rp"] = link[c]["rp"]
      BY <1>2, <1>4, <1>6, <2>1 DEF Streams, x
    <3>2. /\ InWrite(c, "up")' = <<x>> /\ InWrite(c, "up") = << >>
          /\ InWrite(c, "down")' = << >> /\ InWrite(c, "down") = << >>
      BY <1>11, <2>1
    <3>3. <<x>> \o Tail(link[c]["cp"]) = << >> \o link[c]["cp"]
      BY <1>12, <3>1, TakesHead, Zenon
    <3>4. AllUp(c)' = AllUp(c)
      BY <1>2, <1>9, <3>1, <3>2, <3>3, Zenon DEF AllUp
    <3>5. AllDown(c)' = AllDown(c)
      BY <1>2, <1>9, <1>10, <3>1, <3>2, Zenon DEF AllDown
    <3> QED
      BY <3>4, <3>5
  <2>2. CASE d = "down"
    <3>1. /\ link'[c]["rp"] = Tail(link[c]["rp"]) /\ x = Head(link[c]["rp"]) /\ link[c]["rp"] # << >>
          /\ link'[c]["cp"] = link[c]["cp"]
      BY <1>2, <1>4, <1>6, <2>2 DEF Streams, x
    <3>2. /\ InWrite(c, "down")' = <<x>> /\ InWrite(c, "down") = << >>
          /\ InWrite(c, "up")' = << >> /\ InWrite(c, "up") = << >>
      BY <1>11, <2>2
    <3>3. <<x>> \o Tail(link[c]["rp"]) = << >> \o link[c]["rp"]
      BY <1>12, <3>1, TakesHead, Zenon
    <3>4. AllUp(c)' = AllUp(c)
      BY <1>2, <1>9, <3>1, <3>2, Zenon DEF AllUp
    <3>5. AllDown(c)' = AllDown(c)
      BY <1>2, <1>9, <1>10, <3>1, <3>2, <3>3, Zenon DEF AllDown
    <3> QED
      BY <3>4, <3>5
  <2> QED
    BY <2>1, <2>2
<1>14. Phase(c)'
  <2>1. \A u \in {"cp", "pr", "rp"} : link'[c][u] \in Seq(Data)
    BY <1>3, <1>5, <1>6 DEF Phase, Streams
  <2>2. remote[c] = None => link'[c]["rp"] = << >>
    BY <1>2, <1>3, <1>4, <1>6 DEF Phase, Streams
  <2>3. req[c] # None \/ (link'[c]["cp"] = << >> /\ sent[c] = 0)
    BY <1>2, <1>3, <1>4, <1>6 DEF Phase, Streams
  <2> QED
    BY <1>2, <1>3, <1>9, <2>1, <2>2, <2>3 DEF Phase, Before, Setup
<1>15. Told(c)' /\ UpOrder(c)' /\ DownOrder(c)'
  BY <1>2, <1>3, <1>10, <1>13, ToldKept, UpKept, DownKept
<1>16. Orderly(c)' => EofLast(c)'
  <2>1. Orderly(c)' <=> Orderly(c)
    BY <1>2 DEF Orderly
  <2>2. link[c]["rp"] = << >> => link'[c]["rp"] = << >>
    BY <1>2, <1>4, <1>6 DEF Streams
  <2> QED
    BY <1>2, <1>3, <1>10, <2>1, <2>2, Zenon DEF EofLast
<1>17. SessionInv(c)'
  BY <1>14, <1>15, <1>16 DEF SessionInv
<1> QED
  BY <1>8, <1>17, OneSession

\* How long all that is on the way to the destination is.
LEMMA UpLength ==
    ASSUME NEW q \in Seq(Items), NEW w \in Seq(Items), NEW b \in Seq(Items)
    PROVE  /\ Len(q \o (w \o b)) = Len(q) + Len(w) + Len(b)
           /\ Len(q) \in Nat /\ Len(w) \in Nat /\ Len(b) \in Nat
<1>1. w \o b \in Seq(Items) /\ Len(w \o b) = Len(w) + Len(b) /\ Len(w) \in Nat /\ Len(b) \in Nat
  BY ConcatElements, Zenon
<1>2. Len(q \o (w \o b)) = Len(q) + Len(w \o b) /\ Len(q) \in Nat
  BY <1>1, ConcatElements, Zenon
<1> QED
  BY <1>1, <1>2

LEMMA WriteUpKeeps ==
    ASSUME NEW c \in Clients, TypeOK, SessionInv(c), pc[c] = "relay", remote[c] # None, ~rgone[c],
           writing[c] # None, writing[c].d = "up", writing'[c] = None,
           link' = Put(link, c, "pr", writing[c].item),
           UNCHANGED <<pc, req, hdr, remote, fin, sent, held, got, arrived, gone, rgone>>
    PROVE  SessionInv(c)'
<1> DEFINE x == writing[c].item
<1>1. Phase(c) /\ Told(c) /\ UpOrder(c) /\ DownOrder(c) /\ (Orderly(c) => EofLast(c)) /\ SessionType(c)
  BY TypeOfSession DEF SessionInv
<1>2. x \in Data /\ x \in Items /\ "pr" \in Streams
  BY DataFacts DEF TypeOK, Writes, Streams
<1>3. InWrite(c, "up") = <<x>> /\ InWrite(c, "down") = << >>
  BY DEF InWrite
<1> HIDE DEF x
<1>4. /\ link'[c]["pr"] = Append(link[c]["pr"], x)
      /\ \A u \in Streams \ {"pr"} : link'[c][u] = link[c][u]
  BY <1>2, LinkPut DEF x
<1>5. /\ link'[c]["cp"] = link[c]["cp"] /\ link'[c]["rp"] = link[c]["rp"]
      /\ link'[c]["pc"] = link[c]["pc"]
  BY <1>4 DEF Streams
<1>6. /\ InWrite(c, "up")' = << >> /\ InWrite(c, "down")' = << >> /\ InHand(c)' = InHand(c)
      /\ ToClient(c)' = ToClient(c)
  BY <1>5 DEF InWrite, InHand, ToClient
<1>7. AllDown(c)' = AllDown(c)
  BY <1>3, <1>5, <1>6, Zenon DEF AllDown
<1>8. /\ link[c]["pr"] \in Seq(Items) /\ link[c]["cp"] \in Seq(Items) /\ arrived[c] \in Seq(Items)
      /\ ToRemote(c) \in Seq(Items)
  BY <1>1 DEF SessionType, Streams
<1>9. AllUp(c)' = AllUp(c)
  <2>1. \A a, p, b \in Seq(Items) : (a \o Append(p, x)) \o (<< >> \o b) = (a \o p) \o (<<x>> \o b)
    BY <1>2, MovesUp, ZenonT(60)
  <2>2. (arrived[c] \o Append(link[c]["pr"], x)) \o (<< >> \o link[c]["cp"])
          = (arrived[c] \o link[c]["pr"]) \o (<<x>> \o link[c]["cp"])
    BY <1>8, <2>1, ZenonT(60)
  <2> QED
    BY <1>3, <1>4, <1>5, <1>6, <2>2, Zenon DEF AllUp
<1>10. Orderly(c)' <=> Orderly(c)
  BY DEF Orderly
<1>11. pc[c] \in Active
  BY DEF Active
<1>12. UpOrder(c)'
  <2>1. ASSUME Orderly(c) PROVE Counts(ToRemote(c)')
    <3>1. Counts(AllUp(c)) /\ AllUp(c)' = ToRemote(c)' \o (<< >> \o link[c]["cp"])
      BY <1>1, <1>5, <1>6, <1>11, <2>1, Zenon DEF UpOrder, AllUp, ToRemote
    <3>2. ToRemote(c)' \in Seq(Items)
      <4>1. Append(link[c]["pr"], x) \in Seq(Items)
        BY <1>2, <1>8, OneElement, Zenon
      <4>2. ToRemote(c)' = arrived[c] \o Append(link[c]["pr"], x)
        BY <1>4 DEF ToRemote
      <4> QED
        BY <1>8, <4>1, <4>2, ConcatElements, ZenonT(60)
    <3>3. << >> \o link[c]["cp"] \in Seq(Items)
      BY <1>8, Empty, Zenon
    <3>4. Counts(ToRemote(c)' \o (<< >> \o link[c]["cp"]))
      BY <1>9, <3>1, Zenon
    <3> QED
      BY <3>2, <3>3, <3>4, FrontPart, Zenon
  <2>2. ASSUME Orderly(c)
        PROVE  Counts(AllUp(c)') /\ (~gone'[c] => Len(AllUp(c)') = sent'[c])
    BY <1>1, <1>9, <1>11, <2>2, Zenon DEF UpOrder
  <2> QED
    BY <1>10, <2>1, <2>2 DEF UpOrder
<1>13. Phase(c)'
  <2>1. Append(link[c]["pr"], x) \in Seq(Data)
    BY <1>1, <1>2, AppendProperties DEF Phase
  <2>2. \A s \in {"cp", "pr", "rp"} : link'[c][s] \in Seq(Data)
    BY <1>1, <1>4, <1>5, <2>1 DEF Phase
  <2> QED
    BY <1>1, <1>5, <2>2 DEF Phase, Before, Setup
<1>14. Told(c)' /\ DownOrder(c)'
  BY <1>1, <1>6, <1>7, ToldKept, DownKept
<1>15. Orderly(c)' => EofLast(c)'
  <2> SUFFICES ASSUME Orderly(c) PROVE EofLast(c)'
    BY <1>10
  <2>1. "pr" \notin fin[c] \/ gone[c]
    <3> SUFFICES ASSUME ~gone[c] PROVE "pr" \notin fin[c]
      OBVIOUS
    <3>1. Len(AllUp(c)) = sent[c]
      BY <1>1, <1>11 DEF UpOrder
    <3>2. <<x>> \in Seq(Items) /\ Len(<<x>>) = 1
      BY <1>2
    <3>3. /\ Len(ToRemote(c) \o (<<x>> \o link[c]["cp"])) = Len(ToRemote(c)) + Len(<<x>>) + Len(link[c]["cp"])
          /\ Len(ToRemote(c)) \in Nat /\ Len(link[c]["cp"]) \in Nat
      BY <1>8, <3>2, UpLength, ZenonT(60)
    <3>4. Len(AllUp(c)) = Len(ToRemote(c)) + Len(<<x>>) + Len(link[c]["cp"])
      BY <1>3, <3>3, Zenon DEF AllUp, ToRemote
    <3>5. sent[c] # Len(ToRemote(c))
      <4>1. \A m, n \in Nat : m + 1 + n # m
        OBVIOUS
      <4> QED
        BY <3>1, <3>2, <3>3, <3>4, <4>1, Zenon
    <3> QED
      BY <1>1, <3>5 DEF EofLast
  <2> QED
    BY <1>1, <1>5, <2>1, Zenon DEF EofLast
<1> QED
  BY <1>12, <1>13, <1>14, <1>15 DEF SessionInv

LEMMA WriteDownKeeps ==
    ASSUME NEW c \in Clients, TypeOK, SessionInv(c), pc[c] = "relay", ~gone[c],
           writing[c] # None, writing[c].d = "down", writing'[c] = None,
           link' = Put(link, c, "pc", writing[c].item),
           UNCHANGED <<pc, req, hdr, remote, fin, sent, held, got, arrived, gone, rgone>>
    PROVE  SessionInv(c)'
<1> DEFINE x == writing[c].item
<1>1. Phase(c) /\ Told(c) /\ UpOrder(c) /\ DownOrder(c) /\ (Orderly(c) => EofLast(c)) /\ SessionType(c)
  BY TypeOfSession DEF SessionInv
<1>2. x \in Data /\ x \in Items /\ "pc" \in Streams /\ x # Granted /\ x # Rejected
  BY DataFacts DEF TypeOK, Writes, Streams
<1>3. InWrite(c, "up") = << >> /\ InWrite(c, "down") = <<x>>
  BY DEF InWrite
<1> HIDE DEF x
<1>4. /\ link'[c]["pc"] = Append(link[c]["pc"], x)
      /\ \A u \in Streams \ {"pc"} : link'[c][u] = link[c][u]
  BY <1>2, LinkPut DEF x
<1>5. /\ link'[c]["cp"] = link[c]["cp"] /\ link'[c]["rp"] = link[c]["rp"]
      /\ link'[c]["pr"] = link[c]["pr"]
  BY <1>4 DEF Streams
<1>6. /\ InWrite(c, "up")' = << >> /\ InWrite(c, "down")' = << >> /\ InHand(c)' = InHand(c)
      /\ ToRemote(c)' = ToRemote(c)
  BY <1>5 DEF InWrite, InHand, ToRemote
<1>7. AllUp(c)' = AllUp(c)
  BY <1>3, <1>5, <1>6, Zenon DEF AllUp
<1>8. /\ link[c]["pc"] \in Seq(Items) /\ link[c]["rp"] \in Seq(Items) /\ got[c] \in Seq(Items)
      /\ InHand(c) \in Seq(Items) /\ ToClient(c) \in Seq(Items)
  BY <1>1 DEF SessionType, Streams
<1>9. ToClient(c)' = Append(ToClient(c), x)
  <2>1. got[c] \o Append(link[c]["pc"], x) = Append(got[c] \o link[c]["pc"], x)
    BY <1>2, <1>8, AppendLast, Zenon
  <2> QED
    BY <1>4, <2>1 DEF ToClient
<1>10. AllDown(c)' = AllDown(c)
  <2> DEFINE g == got[c]
             l == link[c]["pc"]
             r == link[c]["rp"]
             h == InHand(c)
  <2>1. g \in Seq(Items) /\ l \in Seq(Items) /\ r \in Seq(Items) /\ h \in Seq(Items)
    BY <1>8
  <2>2. AllDown(c)' = (g \o Append(l, x)) \o ((<< >> \o r) \o h)
    BY <1>4, <1>5, <1>6, Zenon DEF AllDown
  <2>3. AllDown(c) = (g \o l) \o ((<<x>> \o r) \o h)
    BY <1>3, Zenon DEF AllDown
  <2> HIDE DEF g, l, r, h
  <2> DEFINE z == (<< >> \o r) \o h
  <2>4. (<<x>> \o r) \o h = <<x>> \o z /\ z \in Seq(Items)
    BY <1>2, <2>1, MovesDown, Zenon
  <2> HIDE DEF z
  <2>5. (g \o Append(l, x)) \o z = (g \o l) \o (<<x>> \o z)
    <3>1. \A a, b, d \in Seq(Items) : (a \o Append(b, x)) \o d = (a \o b) \o (<<x>> \o d)
      BY <1>2, MoveWritten, Zenon
    <3> QED
      BY <2>1, <2>4, <3>1, ZenonT(60)
  <2> QED
    BY <2>2, <2>3, <2>4, <2>5, Zenon DEF z
<1>11. Orderly(c)' <=> Orderly(c)
  BY DEF Orderly
<1>12. pc[c] \in Active
  BY DEF Active
<1>13. /\ Number(ToClient(c)', Granted) = Number(ToClient(c), Granted)
       /\ Number(ToClient(c)', Rejected) = Number(ToClient(c), Rejected)
  <2>1. \A y : /\ Number(ToClient(c), y) \in Nat
               /\ Number(Append(ToClient(c), x), y) = Number(ToClient(c), y) + (IF x = y THEN 1 ELSE 0)
    BY <1>2, <1>8, NumberAppend, Zenon
  <2> QED
    BY <1>2, <1>9, <2>1
<1>14. Told(c)'
  BY <1>1, <1>13, Zenon DEF Told, Owed
<1>15. UpOrder(c)'
  BY <1>1, <1>6, <1>7, <1>12, UpKept
<1>16. DownOrder(c)'
  <2> SUFFICES ASSUME Orderly(c) PROVE DownOrder(c)'
    BY <1>11 DEF DownOrder
  <2> DEFINE n == Replied(ToClient(c))
  <2>1. Replied(ToClient(c)') = n
    BY <1>13 DEF Replied
  <2>2. /\ RepliesFirst(AllDown(c), n)
        /\ "rp" \notin fin[c] => Len(AllDown(c)) = n + Len(arrived[c])
    BY <1>1, <1>12 DEF DownOrder
  <2> HIDE DEF n
  <2>3. RepliesFirst(ToClient(c)', n)
    <3>1. ToClient(c)' \in Seq(Items)
      BY <1>2, <1>8, <1>9, OneElement, Zenon
    <3> DEFINE z == (<< >> \o link[c]["rp"]) \o InHand(c)
    <3>2. z \in Seq(Items)
      <4>1. << >> \o link[c]["rp"] \in Seq(Items)
        BY <1>8, Empty, Zenon
      <4> QED
        BY <1>8, <4>1, ConcatElements, Zenon
    <3>3. AllDown(c)' = ToClient(c)' \o z
      BY <1>5, <1>6, Zenon DEF AllDown, ToClient
    <3> HIDE DEF z
    <3>4. RepliesFirst(ToClient(c)' \o z, n)
      BY <1>10, <2>2, <3>3, Zenon
    <3> QED
      BY <3>1, <3>2, <3>4, FrontPart, Zenon
  <2> QED
    BY <1>10, <2>1, <2>2, <2>3, Zenon DEF DownOrder
<1>17. Phase(c)'
  BY <1>1, <1>5, <1>6 DEF Phase, Before, Setup
<1>18. Orderly(c)' => EofLast(c)'
  BY <1>1, <1>5, <1>6, EofKept
<1> QED
  BY <1>14, <1>15, <1>16, <1>17, <1>18 DEF SessionInv

LEMMA WriteSomeKeeps ==
    ASSUME Inv, NEW c \in Clients, WriteSome(c)
    PROVE  Inv'
<1>1. TypeOK /\ SessionInv(c) /\ pc[c] = "relay" /\ writing[c] # None
  BY DEF Inv, WriteSome
<1>2. UNCHANGED <<up, armed, req, hdr, remote, dir, sent, held, got, arrived, gone, rgone>>
  BY DEF WriteSome, Continue, ends
<1>3. writing[c].d \in {"up", "down"} /\ writing[c].item \in Items
  BY <1>1, DataFacts DEF TypeOK, Writes
<1>4. CASE Over(c, "dead") /\ UNCHANGED link
  <2>1. /\ pc' \in [Clients -> Places] /\ pc'[c] = "dead"
        /\ fin' \in [Clients -> SUBSET Streams] /\ fin'[c] = fin[c] \cup {"pc", "pr"}
        /\ writing' \in [Clients -> Writes \cup {None}]
        /\ \A e \in Clients \ {c} : pc'[e] = pc[e] /\ fin'[e] = fin[e] /\ writing'[e] = writing[e]
    BY <1>1, <1>4, OverType
  <2>2. TypeOK' /\ OthersKept(c)
    BY <1>1, <1>2, <1>4, <2>1, Zenon DEF TypeOK, Places, OthersKept
  <2>3. Finishes(c)
    BY <1>2, <1>4, <2>1 DEF Finishes
  <2> QED
    BY <1>1, <2>2, <2>3, FinishKeeps, OneSession
<1>5. ASSUME writing' = Set(writing, c, None)
      PROVE  /\ writing' \in [Clients -> Writes \cup {None}] /\ writing'[c] = None
             /\ \A e \in Clients \ {c} : writing'[e] = writing[e]
  BY <1>1, <1>5 DEF TypeOK, Set
<1>6. CASE /\ Deserted(c, Target(writing[c].d))
           /\ writing' = Set(writing, c, None) /\ UNCHANGED <<pc, link, fin>>
  <2>1. TypeOK' /\ OthersKept(c)
    BY <1>1, <1>2, <1>5, <1>6, Zenon DEF TypeOK, OthersKept
  <2>2. Phase(c) /\ Told(c) /\ UpOrder(c) /\ DownOrder(c) /\ (Orderly(c) => EofLast(c))
    BY <1>1 DEF SessionInv
  <2>3. ToClient(c)' = ToClient(c) /\ ToRemote(c)' = ToRemote(c)
    BY <1>2, <1>6 DEF ToClient, ToRemote
  <2>4. \/ writing[c].d = "down" /\ gone[c]
        \/ writing[c].d = "up" /\ rgone[c]
    BY <1>3, <1>6 DEF Deserted, Target
  <2>5. ASSUME ~rgone[c] PROVE AllUp(c)' = AllUp(c)
    <3>1. InWrite(c, "up") = << >> /\ InWrite(c, "up")' = << >>
      BY <1>1, <1>5, <1>6, <2>4, <2>5 DEF InWrite
    <3> QED
      BY <1>2, <1>6, <3>1, Zenon DEF AllUp
  <2>6. ASSUME ~gone[c] PROVE AllDown(c)' = AllDown(c)
    <3>1. InWrite(c, "down") = << >> /\ InWrite(c, "down")' = << >>
      BY <1>1, <1>5, <1>6, <2>4, <2>6 DEF InWrite
    <3> QED
      BY <1>2, <1>6, <3>1, Zenon DEF AllDown, InHand
  <2>7. Phase(c)'
    BY <1>1, <1>2, <1>6, <2>2 DEF Phase, Before, Setup
  <2>9. Told(c)' /\ UpOrder(c)' /\ DownOrder(c)' /\ (Orderly(c)' => EofLast(c)')
    <3>1. Told(c)' /\ UpOrder(c)' /\ (Orderly(c)' => EofLast(c)')
      BY <1>2, <1>6, <2>2, <2>3, <2>5, ToldKept, UpKept, EofKept
    <3>2. DownOrder(c)'
      BY <1>2, <1>6, <2>2, <2>3, <2>6, DownKept
    <3> QED
      BY <3>1, <3>2
  <2>8. SessionInv(c)'
    BY <2>7, <2>9 DEF SessionInv
  <2> QED
    BY <2>1, <2>8, OneSession
<1>7. CASE /\ ~Unconnected(c, Target(writing[c].d)) /\ ~Deserted(c, Target(writing[c].d))
           /\ link' = Put(link, c, Target(writing[c].d), writing[c].item)
           /\ writing' = Set(writing, c, None) /\ UNCHANGED <<pc, fin>>
  <2>1. Target(writing[c].d) \in Streams
    BY DEF Target, Streams
  <2>2. /\ link' \in [Clients -> [Streams -> Seq(Items)]]
        /\ \A e \in Clients \ {c} : link'[e] = link[e]
    BY <1>1, <1>3, <1>7, <2>1, LinkPut
  <2>3. TypeOK' /\ OthersKept(c)
    BY <1>1, <1>2, <1>5, <1>7, <2>2, Zenon DEF TypeOK, OthersKept
  <2>4. CASE writing[c].d = "up"
    <3>1. Target(writing[c].d) = "pr" /\ remote[c] # None /\ ~rgone[c]
      BY <1>7, <2>4 DEF Target, Unconnected, Deserted
    <3> QED
      BY <1>1, <1>2, <1>5, <1>7, <2>3, <2>4, <3>1, WriteUpKeeps, OneSession
  <2>5. CASE writing[c].d = "down"
    <3>1. Target(writing[c].d) = "pc" /\ ~gone[c]
      BY <1>7, <2>5 DEF Target, Deserted
    <3> QED
      BY <1>1, <1>2, <1>5, <1>7, <2>3, <2>5, <3>1, WriteDownKeeps, OneSession
  <2> QED
    BY <1>3, <2>4, <2>5
<1> QED
  BY <1>4, <1>6, <1>7, Zenon DEF WriteSome, streams

LEMMA PassEofKeeps ==
    ASSUME Inv, NEW c \in Clients, NEW d \in {"up", "down"}, PassEof(c, d)
    PROVE  Inv'
<1>1. TypeOK /\ SessionInv(c) /\ SessionType(c) /\ pc[c] = "relay" /\ writing[c] = None /\ AtEof(c, d)
  BY TypeOfSession DEF Inv, PassEof, Free
<1>2. UNCHANGED <<up, armed, req, hdr, remote, link, sent, held, got, arrived, gone, rgone>>
  BY DEF PassEof, ends
<1>3. dir' \in [Clients -> [{"up", "down"} -> {"off", "wait", "done"}]]
  <2>1. dir \in [Clients -> [{"up", "down"} -> {"off", "wait", "done"}]]
    BY <1>1 DEF TypeOK
  <2>2. dir' = dir \/ dir' = [dir EXCEPT ![c][d] = "done"]
    BY DEF PassEof
  <2> QED
    BY <2>1, <2>2
<1>4. ASSUME NEW l \in {"idle", "dead"}, Over(c, l) PROVE Inv'
  <2>1. /\ pc' \in [Clients -> Places] /\ pc'[c] = l
        /\ fin' \in [Clients -> SUBSET Streams] /\ fin'[c] = fin[c] \cup {"pc", "pr"}
        /\ writing' \in [Clients -> Writes \cup {None}]
        /\ \A e \in Clients \ {c} : pc'[e] = pc[e] /\ fin'[e] = fin[e] /\ writing'[e] = writing[e]
    BY <1>1, <1>4, OverType
  <2>2. TypeOK' /\ OthersKept(c)
    BY <1>1, <1>2, <1>3, <2>1, Zenon DEF TypeOK, Places, OthersKept
  <2>3. Finishes(c)
    BY <1>2, <2>1 DEF Finishes
  <2> QED
    BY <1>1, <2>2, <2>3, FinishKeeps, OneSession
<1>5. CASE fin' = [fin EXCEPT ![c] = @ \cup {Target(d)}] /\ UNCHANGED <<pc, writing>>
  <2>1. {Target(d)} \in SUBSET Streams
    BY DEF Target, Streams
  <2>2. /\ fin' \in [Clients -> SUBSET Streams] /\ fin'[c] = fin[c] \cup {Target(d)}
        /\ \A e \in Clients \ {c} : fin'[e] = fin[e]
    BY <1>1, <1>5, <2>1, FinGrows
  <2>3. TypeOK' /\ OthersKept(c)
    BY <1>1, <1>2, <1>3, <1>5, <2>2, Zenon DEF TypeOK, OthersKept
  <2>4. Phase(c) /\ Told(c) /\ UpOrder(c) /\ DownOrder(c) /\ (Orderly(c) => EofLast(c))
    BY <1>1 DEF SessionInv
  <2>5. /\ ToClient(c)' = ToClient(c) /\ ToRemote(c)' = ToRemote(c)
        /\ AllUp(c)' = AllUp(c) /\ AllDown(c)' = AllDown(c)
    BY <1>2, <1>5, Zenon DEF ToClient, ToRemote, AllUp, AllDown, InWrite, InHand
  <2>6. /\ Target(d) \in {"pr", "pc"} /\ (Target(d) = "pr" <=> d = "up")
        /\ "rp" \in fin'[c] <=> "rp" \in fin[c]
        /\ "cp" \in fin'[c] <=> "cp" \in fin[c]
    BY <2>2 DEF Target
  <2>7. Phase(c)'
    BY <1>1, <1>2, <1>5, <2>4, <2>6 DEF Phase, Before, Setup
  <2>8. Told(c)' /\ UpOrder(c)' /\ DownOrder(c)'
    BY <1>2, <1>5, <2>4, <2>5, <2>6, ToldKept, UpKept, DownKept
  <2>9. Orderly(c)' => EofLast(c)'
    <3> SUFFICES ASSUME Orderly(c), remote[c] # None PROVE EofLast(c)'
      BY <1>2 DEF Orderly, EofLast
    <3>1. /\ link[c][Source(d)] = << >> /\ Source(d) \in fin[c]
      BY <1>1 DEF AtEof, Unconnected
    <3>2. ASSUME d = "up" PROVE "cp" \in fin[c] /\ (Len(ToRemote(c)) = sent[c] \/ gone[c] \/ rgone[c])
      <4>1. link[c]["cp"] = << >> /\ "cp" \in fin[c]
        BY <3>1, <3>2 DEF Source
      <4>2. InWrite(c, "up") = << >>
        BY <1>1 DEF InWrite
      <4>3. ToRemote(c) \in Seq(Items)
        BY <1>1 DEF SessionType
      <4>4. AllUp(c) = ToRemote(c)
        <5>1. << >> \o << >> = << >> /\ ToRemote(c) \o << >> = ToRemote(c)
          BY <4>3, Empty, Zenon
        <5> QED
          BY <4>1, <4>2, <5>1, Zenon DEF AllUp, ToRemote
      <4>5. ~gone[c] /\ ~rgone[c] => Len(AllUp(c)) = sent[c]
        BY <1>1, <2>4 DEF UpOrder, Active
      <4> QED
        BY <4>1, <4>4, <4>5
    <3>3. ASSUME d = "down" PROVE "rp" \in fin[c] /\ link[c]["rp"] = << >>
      BY <3>1, <3>3 DEF Source
    <3>4. /\ "pr" \in fin[c] =>
               "cp" \in fin[c] /\ (Len(ToRemote(c)) = sent[c] \/ gone[c] \/ rgone[c])
          /\ "pc" \in fin[c] => "rp" \in fin[c] /\ link[c]["rp"] = << >>
      BY <1>1, <2>4 DEF EofLast
    <3>5. "pr" \in fin'[c] => "pr" \in fin[c] \/ d = "up"
      BY <2>2, <2>6
    <3>6. "pc" \in fin'[c] => "pc" \in fin[c] \/ d = "down"
      BY <2>2, <2>6
    <3>7. "pr" \in fin'[c] =>
            "cp" \in fin'[c] /\ (Len(ToRemote(c)) = sent[c] \/ gone[c] \/ rgone[c])
      BY <2>6, <3>2, <3>4, <3>5
    <3>8. "pc" \in fin'[c] => "rp" \in fin'[c] /\ link[c]["rp"] = << >>
      BY <2>6, <3>3, <3>4, <3>6
    <3> QED
      BY <1>2, <2>5, <3>7, <3>8 DEF EofLast
  <2>10. SessionInv(c)'
    BY <2>7, <2>8, <2>9 DEF SessionInv
  <2> QED
    BY <2>3, <2>10, OneSession
<1> QED
  BY <1>4, <1>5, Zenon DEF PassEof

-----------------------------------------------------------------------------
(* The clients and the destinations.                                       *)

LEMMA RequestKeeps ==
    ASSUME Inv, NEW c \in Clients, NEW r \in Requests[c], Request(c, r)
    PROVE  Inv'
<1>1. TypeOK /\ SessionInv(c) /\ SessionType(c) /\ pc[c] \in {"queued", "wait"} /\ req[c] = None
  BY TypeOfSession DEF Inv, Request
<1>2. UNCHANGED <<up, armed, pc, hdr, remote, fin, dir, writing, held, got, arrived, gone, rgone>>
  BY DEF Request, relay
<1>3. Phase(c) /\ Told(c) /\ UpOrder(c) /\ DownOrder(c) /\ (Orderly(c) => EofLast(c))
      /\ pc[c] \in Setup /\ pc[c] \in Active /\ ToClient(c) = << >>
      /\ link[c]["cp"] = << >> /\ sent[c] = 0
  BY <1>1 DEF SessionInv, Phase, Setup, Before, Active
<1>4. r \in AllRequests /\ r # None /\ r.data \in Nat /\ (r.seg = "early" => r.data > 0)
  BY RequestsAssumption, ValuesAssumption DEF AllRequests
<1>5. /\ req' \in [Clients -> AllRequests \cup {None}] /\ req'[c] = r
      /\ \A e \in Clients \ {c} : req'[e] = req[e]
  BY <1>1, <1>4 DEF Request, TypeOK, Set
<1>6. /\ link' \in [Clients -> [Streams -> Seq(Items)]]
      /\ \A s \in {"pr", "rp", "pc"} : link'[c][s] = link[c][s]
      /\ link'[c]["cp"] \in Seq(Data)
      /\ \A e \in Clients \ {c} : link'[e] = link[e]
      /\ r.seg = "whole" => link' = link
  <2>1. CASE link' = link
    <3>1. << >> \in Seq(Data)
      OBVIOUS
    <3> QED
      BY <1>1, <1>3, <2>1, <3>1 DEF TypeOK
  <2>2. CASE r.seg = "split" /\ link' = Put(link, c, "cp", Rest)
    <3>1. Rest \in Items /\ Rest \in Data /\ "cp" \in Streams
      BY DataFacts DEF Data, Streams
    <3>2. /\ link' \in [Clients -> [Streams -> Seq(Items)]]
          /\ link'[c]["cp"] = Append(link[c]["cp"], Rest)
          /\ \A u \in Streams \ {"cp"} : link'[c][u] = link[c][u]
          /\ \A e \in Clients \ {c} : link'[e] = link[e]
      BY <1>1, <2>2, <3>1, LinkPut
    <3>3. Append(<< >>, Rest) \in Seq(Data)
      BY <3>1
    <3> QED
      BY <1>3, <2>2, <3>2, <3>3 DEF Streams
  <2> QED
    BY <2>1, <2>2 DEF Request
<1>7. /\ sent' \in [Clients -> Nat] /\ sent'[c] <= r.data
      /\ \A e \in Clients \ {c} : sent'[e] = sent[e]
      /\ r.seg = "whole" => sent' = sent
  <2>1. sent \in [Clients -> Nat]
    BY <1>1 DEF TypeOK
  <2>2. CASE sent' = sent
    BY <1>3, <1>4, <2>1, <2>2
  <2>3. CASE r.seg = "early" /\ sent' = [sent EXCEPT ![c] = 1]
    <3>1. 1 <= r.data
      BY <1>4, <2>3
    <3> QED
      BY <2>1, <2>3, <3>1
  <2> QED
    BY <2>2, <2>3 DEF Request
<1>8. \A e \in Clients : req'[e] # None => req'[e] \in Requests[e] /\ sent'[e] <= req'[e].data
  BY <1>1, <1>5, <1>7 DEF TypeOK
<1>9. TypeOK' /\ OthersKept(c)
  BY <1>1, <1>2, <1>5, <1>6, <1>7, <1>8, Zenon DEF TypeOK, OthersKept
<1>10. /\ remote[c] = None /\ arrived[c] = << >> /\ held[c] = None /\ writing[c] = None
       /\ link[c]["pr"] = << >> /\ link[c]["rp"] = << >> /\ ToRemote(c) = << >>
  BY <1>1, <1>3, SetupFacts
<1>11. ToClient(c)' = << >> /\ ToRemote(c)' = << >> /\ remote'[c] = None
  BY <1>2, <1>3, <1>6, <1>10 DEF ToClient, ToRemote
<1>12. Phase(c)'
  BY <1>1, <1>2, <1>3, <1>4, <1>5, <1>6, <1>10, <1>11 DEF Phase, Before, Setup
<1>13. Told(c)'
  BY <1>11, NoReplies DEF Told, Owed
<1>14. Counts(<< >>) /\ RepliesFirst(<< >>, 0) /\ Len(<< >>) = 0
  BY DEF Counts, RepliesFirst
<1>15. ASSUME r.seg = "whole" PROVE AllUp(c)' = << >> /\ AllDown(c)' = << >> /\ sent'[c] = 0
  <2>1. InWrite(c, "up")' = << >> /\ InWrite(c, "down")' = << >> /\ InHand(c)' = << >>
    BY <1>2, <1>10 DEF InWrite, InHand
  <2>2. link'[c]["cp"] = << >> /\ link'[c]["pr"] = << >> /\ link'[c]["rp"] = << >> /\ << >> \o << >> = << >>
    BY <1>3, <1>6, <1>10, <1>15, Empty
  <2>3. arrived'[c] = << >> /\ got'[c] \o link'[c]["pc"] = << >>
    BY <1>2, <1>10, <1>11 DEF ToClient
  <2>4. AllUp(c)' = << >>
    BY <2>1, <2>2, <2>3, Zenon DEF AllUp
  <2>5. AllDown(c)' = << >>
    BY <2>1, <2>2, <2>3, Zenon DEF AllDown
  <2> QED
    BY <1>3, <1>7, <1>15, <2>4, <2>5
<1>16. Orderly(c)' => r.seg = "whole"
  BY <1>5 DEF Orderly
<1>17. UpOrder(c)'
  BY <1>11, <1>14, <1>15, <1>16 DEF UpOrder
<1>18. DownOrder(c)'
  <2>1. Len(arrived'[c]) = 0
    BY <1>2, <1>10, <1>14
  <2> QED
    BY <1>11, <1>14, <1>15, <1>16, <2>1, NoReplies DEF DownOrder
<1>19. EofLast(c)'
  BY <1>11 DEF EofLast
<1>20. SessionInv(c)'
  BY <1>12, <1>13, <1>17, <1>18, <1>19 DEF SessionInv
<1> QED
  BY <1>9, <1>20, OneSession

LEMMA ClientSendKeeps ==
    ASSUME Inv, NEW c \in Clients, ClientSend(c)
    PROVE  Inv'
<1> DEFINE x == sent[c] + 1
<1>1. TypeOK /\ SessionInv(c) /\ SessionType(c) /\ req[c] # None /\ "cp" \notin fin[c]
      /\ sent[c] < req[c].data /\ req[c].data \in Nat /\ sent[c] \in Nat
  BY TypeOfSession, RequestsAssumption DEF Inv, ClientSend, TypeOK
<1>2. /\ link' = Put(link, c, "cp", x) /\ sent' = [sent EXCEPT ![c] = x]
      /\ UNCHANGED <<up, armed, pc, req, hdr, remote, fin, dir, writing, held, got, arrived, gone, rgone>>
  BY DEF ClientSend, control, relay
<1>3. Phase(c) /\ Told(c) /\ UpOrder(c) /\ DownOrder(c) /\ (Orderly(c) => EofLast(c))
  BY <1>1 DEF SessionInv
<1>4. x \in Data /\ x \in Items /\ x \in Nat /\ x <= req[c].data /\ "cp" \in Streams
  BY <1>1, DataFacts DEF Data, Streams
<1> HIDE DEF x
<1>5. /\ link' \in [Clients -> [Streams -> Seq(Items)]]
      /\ link'[c]["cp"] = Append(link[c]["cp"], x)
      /\ \A u \in Streams \ {"cp"} : link'[c][u] = link[c][u]
      /\ \A e \in Clients \ {c} : link'[e] = link[e]
  BY <1>1, <1>2, <1>4, LinkPut
<1>6. /\ sent' \in [Clients -> Nat] /\ sent'[c] = x
      /\ \A e \in Clients \ {c} : sent'[e] = sent[e]
  BY <1>1, <1>2, <1>4 DEF TypeOK
<1>7. \A e \in Clients : req'[e] # None => req'[e] \in Requests[e] /\ sent'[e] <= req'[e].data
  BY <1>1, <1>2, <1>4, <1>6 DEF TypeOK
<1>8. TypeOK' /\ OthersKept(c)
  BY <1>1, <1>2, <1>5, <1>6, <1>7, Zenon DEF TypeOK, OthersKept
<1>9. /\ link'[c]["pr"] = link[c]["pr"] /\ link'[c]["rp"] = link[c]["rp"]
      /\ link'[c]["pc"] = link[c]["pc"]
  BY <1>5 DEF Streams
<1>10. /\ ToClient(c)' = ToClient(c) /\ ToRemote(c)' = ToRemote(c)
       /\ InWrite(c, "up")' = InWrite(c, "up") /\ InWrite(c, "down")' = InWrite(c, "down")
       /\ InHand(c)' = InHand(c)
  BY <1>2, <1>9 DEF ToClient, ToRemote, InWrite, InHand
<1>11. AllDown(c)' = AllDown(c)
  BY <1>2, <1>9, <1>10, Zenon DEF AllDown
<1>12. AllUp(c)' = Append(AllUp(c), x) /\ AllUp(c) \in Seq(Items)
  <2>1. ToRemote(c) \in Seq(Items) /\ InWrite(c, "up") \in Seq(Items) /\ link[c]["cp"] \in Seq(Items)
    BY <1>1, <1>4 DEF SessionType
  <2>2. /\ ToRemote(c) \o (InWrite(c, "up") \o Append(link[c]["cp"], x))
             = Append(ToRemote(c) \o (InWrite(c, "up") \o link[c]["cp"]), x)
        /\ ToRemote(c) \o (InWrite(c, "up") \o link[c]["cp"]) \in Seq(Items)
    <3>1. \A q, w, b \in Seq(Items) : /\ q \o (w \o Append(b, x)) = Append(q \o (w \o b), x)
                                      /\ q \o (w \o b) \in Seq(Items)
      BY <1>4, SendsUp, Zenon
    <3> QED
      BY <2>1, <3>1, Zenon
  <2> QED
    BY <1>2, <1>5, <1>9, <1>10, <2>2, Zenon DEF AllUp, ToRemote
<1>13. Orderly(c)' <=> Orderly(c)
  BY <1>2 DEF Orderly
<1>14. UpOrder(c)'
  <2> SUFFICES ASSUME Orderly(c) PROVE UpOrder(c)'
    BY <1>13 DEF UpOrder
  <2>1. Counts(ToRemote(c)')
    BY <1>3, <1>10 DEF UpOrder
  <2>2. ASSUME pc[c] \in Active, ~rgone[c] PROVE Counts(AllUp(c)') /\ Len(AllUp(c)') = sent'[c]
    <3> DEFINE z == AllUp(c)
    <3>1. z \in Seq(Items) /\ Counts(z) /\ Len(z) = 0 + sent[c] /\ 0 \in Nat /\ sent[c] \in Nat
      BY <1>1, <1>3, <1>12, <2>2 DEF UpOrder, Phase
    <3> HIDE DEF z
    <3>2. Counts(Append(z, sent[c] + 1)) /\ Len(Append(z, sent[c] + 1)) = 0 + (sent[c] + 1)
      BY <3>1, NextNumber, Zenon
    <3>3. 0 + (sent[c] + 1) = sent[c] + 1
      BY <1>1
    <3> QED
      BY <1>6, <1>12, <3>2, <3>3, Zenon DEF x, z
  <2> QED
    BY <1>2, <2>1, <2>2 DEF UpOrder
<1>15. Phase(c)'
  <2>1. Append(link[c]["cp"], x) \in Seq(Data)
    BY <1>3, <1>4, AppendProperties DEF Phase
  <2>2. \A s \in {"cp", "pr", "rp"} : link'[c][s] \in Seq(Data)
    BY <1>3, <1>5, <1>9, <2>1 DEF Phase
  <2> QED
    BY <1>1, <1>2, <1>3, <1>9, <1>10, <2>2, Zenon DEF Phase
<1>16. Told(c)' /\ DownOrder(c)'
  BY <1>2, <1>3, <1>10, <1>11, ToldKept, DownKept
<1>17. Orderly(c)' => EofLast(c)'
  BY <1>1, <1>2, <1>3, <1>9, <1>13, Zenon DEF EofLast
<1>18. SessionInv(c)'
  BY <1>14, <1>15, <1>16, <1>17 DEF SessionInv
<1> QED
  BY <1>8, <1>18, OneSession

LEMMA ClientReadKeeps ==
    ASSUME Inv, NEW c \in Clients, ClientRead(c)
    PROVE  Inv'
<1> DEFINE x == Head(link[c]["pc"])
<1>1. TypeOK /\ SessionInv(c) /\ SessionType(c) /\ link[c]["pc"] # << >> /\ "pc" \in Streams
  BY TypeOfSession DEF Inv, ClientRead, Streams
<1>2. /\ link' = [link EXCEPT ![c]["pc"] = Tail(@)] /\ got' = [got EXCEPT ![c] = Append(got[c], x)]
      /\ UNCHANGED <<up, armed, pc, req, hdr, remote, fin, dir, writing, sent, held, arrived, gone, rgone>>
  BY DEF ClientRead, control, relay
<1>3. Phase(c) /\ Told(c) /\ UpOrder(c) /\ DownOrder(c) /\ (Orderly(c) => EofLast(c))
  BY <1>1 DEF SessionInv
<1>4. /\ link' \in [Clients -> [Streams -> Seq(Items)]]
      /\ link'[c]["pc"] = Tail(link[c]["pc"])
      /\ \A u \in Streams \ {"pc"} : link'[c][u] = link[c][u]
      /\ \A e \in Clients \ {c} : link'[e] = link[e]
  BY <1>1, <1>2, LinkTail
<1>5. got[c] \in Seq(Items) /\ link[c]["pc"] \in Seq(Items)
  BY <1>1 DEF SessionType
<1>6. Append(got[c], x) \o Tail(link[c]["pc"]) = got[c] \o link[c]["pc"] /\ Append(got[c], x) \in Seq(Items)
  BY <1>1, <1>5, MoveHead, Zenon
<1> HIDE DEF x
<1>7. /\ got' \in [Clients -> Seq(Items)] /\ got'[c] = Append(got[c], x)
      /\ \A e \in Clients \ {c} : got'[e] = got[e]
  <2>1. got \in [Clients -> Seq(Items)]
    BY <1>1 DEF TypeOK
  <2> QED
    BY <1>2, <1>6, <2>1, Zenon
<1>8. TypeOK' /\ OthersKept(c)
  BY <1>1, <1>2, <1>4, <1>7, Zenon DEF TypeOK, OthersKept
<1>9. /\ link'[c]["pr"] = link[c]["pr"] /\ link'[c]["rp"] = link[c]["rp"]
      /\ link'[c]["cp"] = link[c]["cp"]
  BY <1>4 DEF Streams
<1>10. /\ ToClient(c)' = ToClient(c) /\ ToRemote(c)' = ToRemote(c)
       /\ InWrite(c, "up")' = InWrite(c, "up") /\ InWrite(c, "down")' = InWrite(c, "down")
       /\ InHand(c)' = InHand(c)
  BY <1>2, <1>4, <1>6, <1>7, <1>9, Zenon DEF ToClient, ToRemote, InWrite, InHand
<1>11. AllDown(c)' = AllDown(c) /\ AllUp(c)' = AllUp(c)
  BY <1>2, <1>9, <1>10, Zenon DEF AllDown, AllUp, ToClient, ToRemote
<1>12. Phase(c)'
  <2>1. \A s \in {"cp", "pr", "rp"} : link'[c][s] \in Seq(Data)
    BY <1>3, <1>9 DEF Phase
  <2> QED
    BY <1>2, <1>3, <1>9, <1>10, <2>1, Zenon DEF Phase
<1>13. Told(c)' /\ UpOrder(c)' /\ DownOrder(c)' /\ (Orderly(c)' => EofLast(c)')
  BY <1>2, <1>3, <1>9, <1>10, <1>11, ToldKept, UpKept, DownKept, EofKept
<1>14. SessionInv(c)'
  BY <1>12, <1>13 DEF SessionInv
<1> QED
  BY <1>8, <1>14, OneSession

\* What is left of a stream whose sender has closed its socket.
LEMMA FrontOf ==
    ASSUME NEW S, NEW b \in Seq(S), NEW n \in 0 .. Len(b)
    PROVE  /\ SubSeq(b, 1, n) \in Seq(S) /\ (n = Len(b) => SubSeq(b, 1, n) = b)
           /\ \E r \in Seq(S) : SubSeq(b, 1, n) \o r = b
           /\ b = << >> => SubSeq(b, 1, n) = << >>
<1>1. /\ SubSeq(b, 1, n) \o SubSeq(b, n + 1, Len(b)) = SubSeq(b, 1, Len(b))
      /\ SubSeq(b, 1, Len(b)) = b
  <2>1. /\ Len(b) \in Nat /\ 1 \in 1 .. Len(b) + 1 /\ n \in 1 - 1 .. Len(b)
        /\ Len(b) \in n .. Len(b)
    OBVIOUS
  <2>2. SubSeq(b, 1, n) \o SubSeq(b, n + 1, Len(b)) = SubSeq(b, 1, Len(b))
    BY <2>1, ConcatAdjacentSubSeq, Zenon
  <2> QED
    BY <2>2, SubSeqFull, Zenon
<1>2. SubSeq(b, n + 1, Len(b)) \in Seq(S) /\ SubSeq(b, 1, n) \in Seq(S)
  BY SubSeqProperties
<1>3. b = << >> => n = Len(b)
  OBVIOUS
<1> QED
  BY <1>1, <1>2, <1>3

\* It is the last part of all that is on the way, and cut at its end.
LEMMA CutKeeps ==
    ASSUME NEW q \in Seq(Items), NEW w \in Seq(Items), NEW p \in Seq(Items), NEW r \in Seq(Items), NEW n
    PROVE  /\ Counts(q \o (w \o (p \o r))) => Counts(q \o (w \o p))
           /\ RepliesFirst(q \o (w \o (p \o r)), n) => RepliesFirst(q \o (w \o p), n)
<1> DEFINE v == w \o p
<1>1. w \o (p \o r) = v \o r /\ v \in Seq(Items)
  BY InTurn, ConcatElements, Zenon
<1> HIDE DEF v
<1>2. q \o (v \o r) = (q \o v) \o r /\ q \o v \in Seq(Items)
  BY <1>1, InTurn, ConcatElements, Zenon
<1>3. /\ Counts((q \o v) \o r) => Counts(q \o v)
      /\ RepliesFirst((q \o v) \o r, n) => RepliesFirst(q \o v, n)
  BY <1>2, FrontPart, Zenon
<1> QED
  BY <1>1, <1>2, <1>3, Zenon DEF v

\* The streams after an end has closed its socket.
LEMMA LinkCut ==
    ASSUME TypeOK, NEW c \in Clients, NEW s \in Streams, link[c][s] \in Seq(Data),
           NEW all \in BOOLEAN, Closes(c, s, all)
    PROVE  /\ link' \in [Clients -> [Streams -> Seq(Items)]]
           /\ link'[c][s] \in Seq(Data) /\ (link[c][s] = << >> => link'[c][s] = << >>)
           /\ \E r \in Seq(Items) : link'[c][s] \o r = link[c][s]
           /\ \A u \in Streams \ {s} : link'[c][u] = link[c][u]
           /\ \A e \in Clients \ {c} : link'[e] = link[e]
           /\ ~all => link' = link
<1>1. link \in [Clients -> [Streams -> Seq(Items)]]
  BY DEF TypeOK
<1>2. link[c] \in [Streams -> Seq(Items)] /\ link[c][s] \in Seq(Items)
  BY <1>1
<1>3. PICK n \in 0 .. Len(link[c][s]) : /\ all \/ n = Len(link[c][s])
                                       /\ link' = [link EXCEPT ![c][s] = SubSeq(@, 1, n)]
  BY DEF Closes
<1> DEFINE y == SubSeq(link[c][s], 1, n)
<1>4. /\ y \in Seq(Data) /\ y \in Seq(Items) /\ (n = Len(link[c][s]) => y = link[c][s])
      /\ \E r \in Seq(Items) : y \o r = link[c][s]
      /\ link[c][s] = << >> => y = << >>
  BY <1>2, FrontOf, Zenon
<1> HIDE DEF y
<1>5. link' = [link EXCEPT ![c] = [link[c] EXCEPT ![s] = y]]
  BY <1>3 DEF y
<1>6. [link[c] EXCEPT ![s] = y] \in [Streams -> Seq(Items)]
  BY <1>2, <1>4
<1>7. link'[c] = [link[c] EXCEPT ![s] = y]
  BY <1>1, <1>5, Zenon
<1>8. link'[c][s] = y /\ \A u \in Streams \ {s} : link'[c][u] = link[c][u]
  BY <1>2, <1>7, Zenon
<1>9. link' \in [Clients -> [Streams -> Seq(Items)]]
  BY <1>1, <1>5, <1>6, Zenon
<1>10. \A e \in Clients \ {c} : link'[e] = link[e]
  BY <1>1, <1>5, Zenon
<1>11. ASSUME ~all PROVE link' = link
  <2>1. [link[c] EXCEPT ![s] = y] = link[c]
    BY <1>2, <1>3, <1>4, <1>11
  <2> QED
    BY <1>1, <1>5, <2>1
<1> QED
  BY <1>4, <1>8, <1>9, <1>10, <1>11, Zenon

LEMMA ClientCloseKeeps ==
    ASSUME Inv, NEW c \in Clients, ClientClose(c)
    PROVE  Inv'
<1>1. TypeOK /\ SessionInv(c) /\ SessionType(c) /\ "cp" \notin fin[c] /\ {"cp"} \in SUBSET Streams
  BY TypeOfSession DEF Inv, ClientClose, Streams
<1>2. PICK all \in BOOLEAN : gone' = Set(gone, c, all) /\ Closes(c, "cp", all)
  BY DEF ClientClose
<1>3. /\ fin' = [fin EXCEPT ![c] = @ \cup {"cp"}]
      /\ UNCHANGED <<up, armed, pc, req, hdr, remote, dir, writing, sent, held, got, arrived, rgone>>
  BY <1>2 DEF ClientClose, Closes, control, relay
<1>4. Phase(c) /\ Told(c) /\ UpOrder(c) /\ DownOrder(c) /\ (Orderly(c) => EofLast(c)) /\ ~gone[c]
  BY <1>1 DEF SessionInv, Phase
<1>5. /\ fin' \in [Clients -> SUBSET Streams] /\ fin'[c] = fin[c] \cup {"cp"}
      /\ \A e \in Clients \ {c} : fin'[e] = fin[e]
  BY <1>1, <1>3, FinGrows
<1>6. /\ gone' \in [Clients -> BOOLEAN] /\ gone'[c] = all
      /\ \A e \in Clients \ {c} : gone'[e] = gone[e]
  BY <1>1, <1>2 DEF TypeOK, Set
<1>7. link[c]["cp"] \in Seq(Data) /\ link[c]["cp"] \in Seq(Items) /\ "cp" \in Streams
  BY <1>1, <1>4 DEF Phase, SessionType, Streams
<1>8. /\ link' \in [Clients -> [Streams -> Seq(Items)]]
      /\ link'[c]["cp"] \in Seq(Data) /\ (link[c]["cp"] = << >> => link'[c]["cp"] = << >>)
      /\ \E r \in Seq(Items) : link'[c]["cp"] \o r = link[c]["cp"]
      /\ \A u \in Streams \ {"cp"} : link'[c][u] = link[c][u]
      /\ \A e \in Clients \ {c} : link'[e] = link[e]
      /\ ~all => link' = link
  <2>1. Closes(c, "cp", all) /\ all \in BOOLEAN
    BY <1>2
  <2> HIDE <1>2
  <2> QED
    BY <1>1, <1>7, <2>1, LinkCut, ZenonT(60)
<1>9. TypeOK' /\ OthersKept(c)
  BY <1>1, <1>3, <1>5, <1>6, <1>8, Zenon DEF TypeOK, OthersKept
<1>10. /\ link'[c]["pr"] = link[c]["pr"] /\ link'[c]["rp"] = link[c]["rp"]
       /\ link'[c]["pc"] = link[c]["pc"]
  BY <1>8 DEF Streams
<1>11. /\ ToClient(c)' = ToClient(c) /\ ToRemote(c)' = ToRemote(c)
       /\ InWrite(c, "up")' = InWrite(c, "up") /\ InWrite(c, "down")' = InWrite(c, "down")
       /\ InHand(c)' = InHand(c)
  BY <1>3, <1>10 DEF ToClient, ToRemote, InWrite, InHand
<1>12. AllDown(c)' = AllDown(c)
  BY <1>3, <1>10, <1>11, Zenon DEF AllDown
<1>13. Orderly(c)' <=> Orderly(c)
  BY <1>3 DEF Orderly
<1>14. "cp" \in fin'[c] /\ \A s \in {"pr", "rp", "pc"} : s \in fin'[c] <=> s \in fin[c]
  BY <1>5
<1>15. Phase(c)'
  <2>1. \A s \in {"cp", "pr", "rp"} : link'[c][s] \in Seq(Data)
    BY <1>4, <1>8, <1>10 DEF Phase
  <2> QED
    BY <1>3, <1>4, <1>8, <1>10, <1>11, <1>14, <2>1 DEF Phase
<1>16. UpOrder(c)'
  <2>1. ASSUME Orderly(c), pc[c] \in Active, ~rgone[c]
        PROVE  Counts(AllUp(c)') /\ (~all => Len(AllUp(c)') = sent[c])
    <3>1. Counts(AllUp(c)) /\ Len(AllUp(c)) = sent[c]
      BY <1>4, <2>1 DEF UpOrder
    <3> DEFINE q == ToRemote(c)
               w == InWrite(c, "up")
               p == link'[c]["cp"]
    <3>2. PICK r \in Seq(Items) : p \o r = link[c]["cp"]
      BY <1>8
    <3>3. q \in Seq(Items) /\ w \in Seq(Items) /\ p \in Seq(Items)
      BY <1>1, <1>8 DEF SessionType, Streams
    <3>4. AllUp(c) = q \o (w \o (p \o r)) /\ AllUp(c)' = q \o (w \o p)
      BY <1>3, <1>10, <1>11, <3>2, Zenon DEF AllUp, ToRemote
    <3>5. ~all => AllUp(c)' = AllUp(c)
      <4>1. ~all => link'[c]["cp"] = link[c]["cp"]
        BY <1>8
      <4> QED
        BY <1>3, <1>10, <1>11, <4>1, Zenon DEF AllUp
    <3> HIDE DEF q, w, p
    <3>6. Counts(q \o (w \o p))
      <4>1. Counts(q \o (w \o (p \o r))) => Counts(q \o (w \o p))
        BY <3>2, <3>3, CutKeeps, ZenonT(60)
      <4> QED
        BY <3>1, <3>4, <4>1, Zenon
    <3> QED
      BY <3>1, <3>4, <3>5, <3>6, Zenon
  <2> QED
    BY <1>3, <1>4, <1>6, <1>11, <1>13, <2>1, Zenon DEF UpOrder
<1>17. Told(c)' /\ DownOrder(c)'
  BY <1>3, <1>4, <1>11, <1>12, <1>14, ToldKept, DownKept
<1>18. Orderly(c)' => EofLast(c)'
  BY <1>1, <1>3, <1>4, <1>10, <1>11, <1>13, <1>14 DEF EofLast
<1>19. SessionInv(c)'
  BY <1>15, <1>16, <1>17, <1>18 DEF SessionInv
<1> QED
  BY <1>9, <1>19, OneSession

\* The first unit that has not arrived.
LEMMA NextUnit ==
    ASSUME NEW a \in Seq(Items), NEW b \in Seq(Items), b # << >>, Counts(a \o b)
    PROVE  Head(b) = Len(a) + 1
<1>1. Len(b) >= 1 /\ Len(b) \in Nat /\ Len(a) \in Nat /\ Head(b) = b[1]
  OBVIOUS
<1>2. Len(a \o b) = Len(a) + Len(b) /\ \A i \in 1 .. Len(b) : (a \o b)[Len(a) + i] = b[i]
  BY ConcatElements
<1>3. (a \o b)[Len(a) + 1] = b[1] /\ Len(a) + 1 \in 1 .. Len(a \o b)
  BY <1>1, <1>2
<1> QED
  BY <1>1, <1>3 DEF Counts

LEMMA RemoteReadKeeps ==
    ASSUME Inv, NEW c \in Clients, RemoteRead(c)
    PROVE  Inv'
<1> DEFINE x == Head(link[c]["pr"])
<1>1. TypeOK /\ SessionInv(c) /\ SessionType(c) /\ link[c]["pr"] # << >> /\ "pr" \in Streams
      /\ remote[c] # None /\ held[c] = None
  BY TypeOfSession DEF Inv, RemoteRead, Streams
<1>2. /\ link' = [link EXCEPT ![c]["pr"] = Tail(@)]
      /\ arrived' = [arrived EXCEPT ![c] = Append(arrived[c], x)]
      /\ held' = Set(held, c, IF "rp" \in fin[c] THEN None ELSE x)
      /\ UNCHANGED <<up, armed, pc, req, hdr, remote, fin, dir, writing, sent, got, gone, rgone>>
  BY DEF RemoteRead, control, relay
<1>3. Phase(c) /\ Told(c) /\ UpOrder(c) /\ DownOrder(c) /\ (Orderly(c) => EofLast(c))
  BY <1>1 DEF SessionInv
<1>4. /\ link' \in [Clients -> [Streams -> Seq(Items)]]
      /\ link'[c]["pr"] = Tail(link[c]["pr"])
      /\ \A u \in Streams \ {"pr"} : link'[c][u] = link[c][u]
      /\ \A e \in Clients \ {c} : link'[e] = link[e]
  BY <1>1, <1>2, LinkTail
<1>5. arrived[c] \in Seq(Items) /\ arrived[c] \in Seq(Data) /\ link[c]["pr"] \in Seq(Items)
  BY <1>1 DEF SessionType
<1>6. Append(arrived[c], x) \o Tail(link[c]["pr"]) = arrived[c] \o link[c]["pr"]
  BY <1>1, <1>5, MoveHead, Zenon
<1>7. x \in Data /\ x \in Items /\ Tail(link[c]["pr"]) \in Seq(Data) /\ x # None
  BY <1>1, <1>3, DataHead, DataFacts DEF Phase
<1>8. Orderly(c) => x = Len(arrived[c]) + 1
  BY <1>1, <1>3, <1>5, NextUnit DEF UpOrder, ToRemote
<1> HIDE DEF x
<1>9. Append(arrived[c], x) \in Seq(Data) /\ Len(Append(arrived[c], x)) = Len(arrived[c]) + 1
      /\ Len(arrived[c]) \in Nat
  BY <1>5, <1>7, AppendProperties
<1>10. /\ arrived' \in [Clients -> Seq(Data)] /\ arrived'[c] = Append(arrived[c], x)
       /\ \A e \in Clients \ {c} : arrived'[e] = arrived[e]
  <2>1. arrived \in [Clients -> Seq(Data)]
    BY <1>1 DEF TypeOK
  <2> QED
    BY <1>2, <1>9, <2>1, Zenon
<1>11. /\ held' \in [Clients -> Data \cup {None}] /\ held'[c] = IF "rp" \in fin[c] THEN None ELSE x
       /\ \A e \in Clients \ {c} : held'[e] = held[e]
  BY <1>1, <1>2, <1>7 DEF TypeOK, Set
<1>12. TypeOK' /\ OthersKept(c)
  BY <1>1, <1>2, <1>4, <1>10, <1>11, Zenon DEF TypeOK, OthersKept
<1>13. /\ link'[c]["pc"] = link[c]["pc"] /\ link'[c]["rp"] = link[c]["rp"]
       /\ link'[c]["cp"] = link[c]["cp"]
  BY <1>4 DEF Streams
<1>14. /\ ToClient(c)' = ToClient(c) /\ ToRemote(c)' = ToRemote(c)
       /\ InWrite(c, "up")' = InWrite(c, "up") /\ InWrite(c, "down")' = InWrite(c, "down")
  BY <1>2, <1>4, <1>6, <1>10, <1>13, Zenon DEF ToClient, ToRemote, InWrite
<1>15. AllUp(c)' = AllUp(c)
  BY <1>13, <1>14, Zenon DEF AllUp, ToRemote
<1>16. Phase(c)'
  <2>1. \A s \in {"cp", "pr", "rp"} : link'[c][s] \in Seq(Data)
    BY <1>3, <1>4, <1>7, <1>13 DEF Phase
  <2>2. remote'[c] # None /\ ("rp" \in fin'[c] => held'[c] = None)
    BY <1>1, <1>2, <1>11
  <2> QED
    BY <1>2, <1>3, <1>13, <1>14, <2>1, <2>2 DEF Phase
<1>17. Told(c)' /\ UpOrder(c)' /\ (Orderly(c)' => EofLast(c)')
  BY <1>2, <1>3, <1>13, <1>14, <1>15, ToldKept, UpKept, EofKept
<1>18. DownOrder(c)'
  <2>1. CASE "rp" \in fin[c]
    <3>1. held'[c] = held[c]
      BY <1>1, <1>11, <2>1
    <3>2. AllDown(c)' = AllDown(c)
      BY <1>2, <1>13, <1>14, <3>1, Zenon DEF AllDown, InHand
    <3> QED
      BY <1>2, <1>3, <1>14, <2>1, <3>2, DownKept
  <2>2. CASE "rp" \notin fin[c]
    <3>1. InHand(c) = << >> /\ InHand(c)' = <<x>>
      BY <1>1, <1>7, <1>11, <2>2 DEF InHand
    <3> DEFINE q == ToClient(c)
               w == InWrite(c, "down")
               r == link[c]["rp"]
               z == AllDown(c)
    <3>2. q \in Seq(Items) /\ w \in Seq(Items) /\ r \in Seq(Items)
      BY <1>1 DEF SessionType, Streams
    <3>3. z = q \o ((w \o r) \o << >>) /\ AllDown(c)' = q \o ((w \o r) \o <<x>>)
      BY <1>2, <1>13, <1>14, <3>1, Zenon DEF AllDown, ToClient
    <3>4. Orderly(c)' <=> Orderly(c)
      BY <1>2 DEF Orderly
    <3> HIDE DEF q, w, r, z
    <3>5. /\ q \o ((w \o r) \o <<x>>) = Append(q \o ((w \o r) \o << >>), x)
          /\ q \o ((w \o r) \o << >>) \in Seq(Items)
      <4>1. \A s, t, v \in Seq(Items) : /\ s \o ((t \o v) \o <<x>>) = Append(s \o ((t \o v) \o << >>), x)
                                        /\ s \o ((t \o v) \o << >>) \in Seq(Items)
        BY <1>7, HoldsDown, Zenon
      <4> QED
        BY <3>2, <4>1, Zenon
    <3>6. AllDown(c)' = Append(z, x) /\ z \in Seq(Items)
      BY <3>3, <3>5, Zenon
    <3> SUFFICES ASSUME Orderly(c) PROVE DownOrder(c)'
      BY <3>4 DEF DownOrder
    <3> DEFINE n == Replied(ToClient(c))
    <3>7. n \in Nat
      <4>1. Number(q, Granted) \in Nat /\ Number(q, Rejected) \in Nat
        BY <1>7, <3>2, NumberAppend, Zenon
      <4> QED
        BY <4>1 DEF Replied, q
    <3>8. RepliesFirst(ToClient(c)', n) /\ Replied(ToClient(c)') = n
      BY <1>3, <1>14, Zenon DEF DownOrder
    <3>9. ASSUME pc[c] \in Active, ~gone[c]
          PROVE  RepliesFirst(AllDown(c)', n) /\ Len(AllDown(c)') = n + Len(arrived'[c])
      <4>1. RepliesFirst(z, n) /\ Len(z) = n + Len(arrived[c])
        BY <1>3, <2>2, <3>9 DEF DownOrder, z
      <4> HIDE DEF n
      <4>2. PICK m \in Nat : m = Len(arrived[c])
        BY <1>9
      <4>3. x = m + 1 /\ Len(z) = n + m /\ Len(arrived'[c]) = m + 1
        BY <1>8, <1>9, <1>10, <4>1, <4>2, Zenon
      <4>4. RepliesFirst(Append(z, m + 1), n) /\ Len(Append(z, m + 1)) = n + (m + 1)
        BY <3>6, <3>7, <4>1, <4>3, NextNumber, Zenon
      <4> QED
        BY <3>6, <4>3, <4>4, Zenon
    <3> QED
      BY <1>2, <3>8, <3>9, Zenon DEF DownOrder
  <2> QED
    BY <2>1, <2>2
<1>19. SessionInv(c)'
  BY <1>16, <1>17, <1>18 DEF SessionInv
<1> QED
  BY <1>12, <1>19, OneSession

LEMMA RemoteWriteKeeps ==
    ASSUME Inv, NEW c \in Clients, RemoteWrite(c)
    PROVE  Inv'
<1> DEFINE x == held[c]
<1>1. TypeOK /\ SessionInv(c) /\ SessionType(c) /\ "rp" \in Streams /\ x # None
  BY TypeOfSession DEF Inv, RemoteWrite, Streams
<1>2. /\ link' = Put(link, c, "rp", x) /\ held' = Set(held, c, None)
      /\ UNCHANGED <<up, armed, pc, req, hdr, remote, fin, dir, writing, sent, got, arrived, gone, rgone>>
  BY DEF RemoteWrite, control, relay
<1>3. Phase(c) /\ Told(c) /\ UpOrder(c) /\ DownOrder(c) /\ (Orderly(c) => EofLast(c))
  BY <1>1 DEF SessionInv
<1>4. x \in Data /\ x \in Items
  BY <1>1, DataFacts DEF TypeOK
<1>5. "rp" \notin fin[c] /\ remote[c] # None
  BY <1>1, <1>3 DEF Phase
<1>6. InHand(c) = <<x>>
  BY <1>1 DEF InHand
<1> HIDE DEF x
<1>7. /\ link' \in [Clients -> [Streams -> Seq(Items)]]
      /\ link'[c]["rp"] = Append(link[c]["rp"], x)
      /\ \A u \in Streams \ {"rp"} : link'[c][u] = link[c][u]
      /\ \A e \in Clients \ {c} : link'[e] = link[e]
  BY <1>1, <1>2, <1>4, LinkPut
<1>8. /\ held' \in [Clients -> Data \cup {None}] /\ held'[c] = None
      /\ \A e \in Clients \ {c} : held'[e] = held[e]
  BY <1>1, <1>2 DEF TypeOK, Set
<1>9. TypeOK' /\ OthersKept(c)
  BY <1>1, <1>2, <1>7, <1>8, Zenon DEF TypeOK, OthersKept
<1>10. /\ link'[c]["pr"] = link[c]["pr"] /\ link'[c]["pc"] = link[c]["pc"]
       /\ link'[c]["cp"] = link[c]["cp"]
  BY <1>7 DEF Streams
<1>11. /\ ToClient(c)' = ToClient(c) /\ ToRemote(c)' = ToRemote(c)
       /\ InWrite(c, "up")' = InWrite(c, "up") /\ InWrite(c, "down")' = InWrite(c, "down")
       /\ InHand(c)' = << >>
  BY <1>2, <1>8, <1>10 DEF ToClient, ToRemote, InWrite, InHand
<1>12. AllUp(c)' = AllUp(c)
  BY <1>2, <1>10, <1>11, Zenon DEF AllUp
<1>13. AllDown(c)' = AllDown(c)
  <2>1. InWrite(c, "down") \in Seq(Items) /\ link[c]["rp"] \in Seq(Items)
    BY <1>1 DEF SessionType
  <2>2. (InWrite(c, "down") \o Append(link[c]["rp"], x)) \o << >>
          = (InWrite(c, "down") \o link[c]["rp"]) \o <<x>>
    <3>1. \A w, r \in Seq(Items) : (w \o Append(r, x)) \o << >> = (w \o r) \o <<x>>
      BY <1>4, EchoesDown, Zenon
    <3> QED
      BY <2>1, <3>1, Zenon
  <2> QED
    BY <1>2, <1>6, <1>7, <1>10, <1>11, <2>2, Zenon DEF AllDown
<1>14. Phase(c)'
  <2>1. Append(link[c]["rp"], x) \in Seq(Data)
    BY <1>3, <1>4, AppendProperties DEF Phase
  <2>2. \A s \in {"cp", "pr", "rp"} : link'[c][s] \in Seq(Data)
    BY <1>3, <1>7, <1>10, <2>1 DEF Phase
  <2> QED
    BY <1>2, <1>3, <1>5, <1>8, <1>10, <1>11, <2>2 DEF Phase
<1>15. Told(c)' /\ UpOrder(c)' /\ DownOrder(c)'
  BY <1>2, <1>3, <1>11, <1>12, <1>13, ToldKept, UpKept, DownKept
<1>16. Orderly(c)' => EofLast(c)'
  <2>1. Orderly(c)' <=> Orderly(c)
    BY <1>2 DEF Orderly
  <2> QED
    BY <1>2, <1>3, <1>5, <1>11, <2>1, Zenon DEF EofLast
<1>17. SessionInv(c)'
  BY <1>14, <1>15, <1>16 DEF SessionInv
<1> QED
  BY <1>9, <1>17, OneSession

LEMMA RemoteCloseKeeps ==
    ASSUME Inv, NEW c \in Clients, RemoteClose(c)
    PROVE  Inv'
<1>1. TypeOK /\ SessionInv(c) /\ SessionType(c) /\ held[c] = None /\ remote[c] # None
      /\ "rp" \notin fin[c] /\ {"rp"} \in SUBSET Streams
  BY TypeOfSession DEF Inv, RemoteClose, Streams
<1>2. PICK all \in BOOLEAN : rgone' = Set(rgone, c, all) /\ Closes(c, "rp", all)
  BY DEF RemoteClose
<1>3. /\ fin' = [fin EXCEPT ![c] = @ \cup {"rp"}]
      /\ UNCHANGED <<up, armed, pc, req, hdr, remote, dir, writing, sent, held, got, arrived, gone>>
  BY <1>2 DEF RemoteClose, Closes, control, relay
<1>4. Phase(c) /\ Told(c) /\ UpOrder(c) /\ DownOrder(c) /\ (Orderly(c) => EofLast(c))
  BY <1>1 DEF SessionInv
<1>5. /\ fin' \in [Clients -> SUBSET Streams] /\ fin'[c] = fin[c] \cup {"rp"}
      /\ \A e \in Clients \ {c} : fin'[e] = fin[e]
  BY <1>1, <1>3, FinGrows
<1>6. /\ rgone' \in [Clients -> BOOLEAN] /\ rgone'[c] = all
      /\ \A e \in Clients \ {c} : rgone'[e] = rgone[e]
  BY <1>1, <1>2 DEF TypeOK, Set
<1>7. link[c]["rp"] \in Seq(Data) /\ link[c]["rp"] \in Seq(Items) /\ "rp" \in Streams
  BY <1>1, <1>4 DEF Phase, SessionType, Streams
<1>8. /\ link' \in [Clients -> [Streams -> Seq(Items)]]
      /\ link'[c]["rp"] \in Seq(Data) /\ (link[c]["rp"] = << >> => link'[c]["rp"] = << >>)
      /\ \E r \in Seq(Items) : link'[c]["rp"] \o r = link[c]["rp"]
      /\ \A u \in Streams \ {"rp"} : link'[c][u] = link[c][u]
      /\ \A e \in Clients \ {c} : link'[e] = link[e]
  BY <1>1, <1>2, <1>7, LinkCut, Zenon
<1>9. TypeOK' /\ OthersKept(c)
  BY <1>1, <1>3, <1>5, <1>6, <1>8, Zenon DEF TypeOK, OthersKept
<1>10. /\ link'[c]["pr"] = link[c]["pr"] /\ link'[c]["cp"] = link[c]["cp"]
       /\ link'[c]["pc"] = link[c]["pc"]
  BY <1>8 DEF Streams
<1>11. /\ ToClient(c)' = ToClient(c) /\ ToRemote(c)' = ToRemote(c)
       /\ InWrite(c, "up")' = InWrite(c, "up") /\ InWrite(c, "down")' = InWrite(c, "down")
       /\ InHand(c)' = << >> /\ InHand(c) = << >>
  BY <1>1, <1>3, <1>10 DEF ToClient, ToRemote, InWrite, InHand
<1>12. AllUp(c)' = AllUp(c)
  BY <1>3, <1>10, <1>11, Zenon DEF AllUp
<1>13. Orderly(c)' <=> Orderly(c)
  BY <1>3 DEF Orderly
<1>14. "rp" \in fin'[c] /\ \A s \in {"pr", "cp", "pc"} : s \in fin'[c] <=> s \in fin[c]
  BY <1>5
<1>15. Phase(c)'
  <2>1. \A s \in {"cp", "pr", "rp"} : link'[c][s] \in Seq(Data)
    BY <1>4, <1>8, <1>10 DEF Phase
  <2> QED
    BY <1>1, <1>3, <1>4, <1>8, <1>10, <1>11, <1>14, <2>1 DEF Phase
<1>16. Told(c)' /\ UpOrder(c)'
  <2>1. ~rgone'[c] => ~rgone[c]
    BY <1>4, <1>1 DEF Phase
  <2> QED
    BY <1>3, <1>4, <1>11, <1>12, <2>1, ToldKept, UpKept
<1>17. DownOrder(c)'
  <2>1. ASSUME NEW n, RepliesFirst(AllDown(c), n) PROVE RepliesFirst(AllDown(c)', n)
    <3> DEFINE q == ToClient(c)
               w == InWrite(c, "down")
               p == link'[c]["rp"]
    <3>1. PICK r \in Seq(Items) : p \o r = link[c]["rp"]
      BY <1>8
    <3>2. q \in Seq(Items) /\ w \in Seq(Items) /\ p \in Seq(Items)
      BY <1>1, <1>8 DEF SessionType, Streams
    <3>3. p \o r \in Seq(Items)
      BY <1>7, <3>1
    <3>4. AllDown(c) = q \o ((w \o (p \o r)) \o << >>) /\ AllDown(c)' = q \o ((w \o p) \o << >>)
      BY <1>3, <1>10, <1>11, <3>1, Zenon DEF AllDown, ToClient
    <3> HIDE DEF q, w, p
    <3>5. (w \o (p \o r)) \o << >> = w \o (p \o r) /\ (w \o p) \o << >> = w \o p
      <4>1. w \o (p \o r) \in Seq(Items) /\ w \o p \in Seq(Items)
        BY <3>2, <3>3, ConcatElements, Zenon
      <4> QED
        BY <4>1, Empty, Zenon
    <3>6. RepliesFirst(q \o (w \o (p \o r)), n) => RepliesFirst(q \o (w \o p), n)
      BY <3>2, CutKeeps, ZenonT(60)
    <3> QED
      BY <2>1, <3>4, <3>5, <3>6, Zenon
  <2> QED
    BY <1>3, <1>4, <1>11, <1>13, <1>14, <2>1, Zenon DEF DownOrder
<1>18. Orderly(c)' => EofLast(c)'
  <2>1. "pc" \notin fin[c] \/ ~(pc[c] = "relay" /\ Orderly(c))
    BY <1>1, <1>4 DEF EofLast
  <2>2. /\ "pr" \in fin'[c] <=> "pr" \in fin[c]
        /\ "cp" \in fin'[c] <=> "cp" \in fin[c]
        /\ "pc" \in fin'[c] <=> "pc" \in fin[c]
    BY <1>14
  <2>3. rgone[c] => rgone'[c]
    BY <1>1, <1>4 DEF Phase
  <2> QED
    BY <1>3, <1>4, <1>11, <1>13, <2>1, <2>2, <2>3, Zenon DEF EofLast
<1>19. SessionInv(c)'
  BY <1>15, <1>16, <1>17, <1>18 DEF SessionInv
<1> QED
  BY <1>9, <1>19, OneSession

-----------------------------------------------------------------------------
(* The theorems.                                                           *)

LEMMA NextKeeps ==
    ASSUME Inv, Next
    PROVE  Inv'
<1>1. PICK c \in Clients :
        \/ Accept(c) \/ Child(c) \/ BindAccept(c)
        \/ ClientConnect(c) \/ (\E r \in Requests[c] : Request(c, r))
        \/ ClientSend(c) \/ ClientClose(c) \/ Ends(c) \/ RemoteClose(c)
  BY Zenon DEF Next
<1>2. CASE Child(c)
  BY <1>2, HandleReadKeeps, ConnectKeeps, WriteSomeKeeps, ReadSomeKeeps, PassEofKeeps DEF Child
<1>3. CASE Ends(c)
  BY <1>3, ClientReadKeeps, RemoteReadKeeps, RemoteWriteKeeps, RemoteCloseKeeps DEF Ends, RemoteEof
<1>4. CASE \E r \in Requests[c] : Request(c, r)
  BY <1>4, RequestKeeps
<1> QED
  BY <1>1, <1>2, <1>3, <1>4, AcceptKeeps, BindAcceptKeeps, ClientConnectKeeps, ClientSendKeeps,
     ClientCloseKeeps, RemoteCloseKeeps

\* The inductive invariant holds: at every place of every session, the replies,
\* the units on the way and what the destination holds fit together.
THEOREM InvHolds == Spec => []Inv
<1>1. Inv /\ UNCHANGED vars => Inv'
  <2> SUFFICES ASSUME Inv, UNCHANGED vars PROVE Inv'
    OBVIOUS
  <2>1. UNCHANGED <<up, armed, pc, req, hdr, remote, link, fin, dir, writing,
                    sent, held, got, arrived, gone, rgone>>
    BY DEF vars, control, streams, relay, ends
  <2>2. TypeOK'
    BY <2>1, Zenon DEF Inv, TypeOK
  <2>3. ASSUME NEW c \in Clients PROVE SessionInv(c)'
    <3>1. Phase(c)' /\ Told(c)'
      BY <2>1, ZenonT(60) DEF Inv, SessionInv, Phase, Told, Owed, ToClient
    <3>2. UpOrder(c)' /\ DownOrder(c)' /\ (Orderly(c)' => EofLast(c)')
      BY <2>1, Zenon DEF Inv, SessionInv, UpOrder, DownOrder, EofLast, Orderly, ToClient, ToRemote,
                         AllUp, AllDown, InWrite, InHand
    <3> QED
      BY <3>1, <3>2 DEF SessionInv
  <2> QED
    BY <2>2, <2>3 DEF Inv
<1>2. Inv /\ [Next]_vars => Inv'
  BY <1>1, NextKeeps
<1> QED
  BY InvInit, <1>2, PTL DEF Spec

\* TypeOK is an invariant of Socks4: also that a client sends no more than its
\* request says, and that only what a client sends is relayed to a destination.
THEOREM TypeCorrect == Spec => []TypeOK
<1>1. Inv => TypeOK
  BY DEF Inv
<1> QED
  BY InvHolds, <1>1, PTL

\* RepliesTell: a client is never told "granted" more often than it is owed: once
\* per CONNECT that has led to a connection, and for BIND once for the port and
\* once for the peer; it has been told all of it as soon as the connection
\* exists; and a rejected session has no other reply (socks4_handler.cpp:34, 85-106).
THEOREM RepliesAreTrue == Spec => []RepliesTell
<1>1. ASSUME Inv, NEW c \in Clients, pc[c] = "accept" PROVE Number(ToClient(c), Granted) = Owed(c)
  <2>1. /\ hdr[c] # None /\ hdr[c].command = "BIND" /\ remote[c] = None
        /\ ToClient(c) = <<Granted>>
    BY <1>1 DEF Inv, SessionInv, Phase, Setup
  <2>2. Number(<<Granted>>, Granted) = 1
    BY OneReply DEF Replies
  <2> QED
    BY <2>1, <2>2 DEF Owed
<1>2. Inv => RepliesTell
  BY <1>1, Zenon DEF Inv, SessionInv, Told, RepliesTell
<1> QED
  BY InvHolds, <1>2, PTL

\* RelayedInOrder: in either direction what arrives is what was sent, in order and
\* with nothing missing in between, and end of file comes last; only a client or a
\* destination that closes its socket can cost what was on the way
\* (socks4_handler.cpp:109-126).
THEOREM RelayKeepsOrder == Spec => []RelayedInOrder
<1>1. ASSUME Inv PROVE RelayedInOrder
  <2> SUFFICES ASSUME NEW c \in Clients, Orderly(c) PROVE InOrder(c) /\ EofLast(c)
    BY DEF RelayedInOrder
  <2>1. TypeOK /\ SessionInv(c)
    BY <1>1 DEF Inv
  <2>2. ToClient(c) \in Seq(Items) /\ ToRemote(c) \in Seq(Items)
    BY <2>1, TypeOfSession DEF SessionType
  <2>3. DOMAIN ToClient(c) = 1 .. Len(ToClient(c)) /\ DOMAIN ToRemote(c) = 1 .. Len(ToRemote(c))
    BY <2>2
  <2>4. Counts(ToRemote(c)) /\ RepliesFirst(ToClient(c), Replied(ToClient(c))) /\ EofLast(c)
    BY <2>1 DEF SessionInv, UpOrder, DownOrder
  <2> QED
    BY <2>3, <2>4, Zenon DEF InOrder, Counts, RepliesFirst, Replied
<1> QED
  BY InvHolds, <1>1, PTL

\* The rules of socks.conf are written as they are meant: for every address that
\* a request can lead to, the regular expression a rule is turned into matches
\* exactly the addresses that the rule covers.  This is true of rules with as
\* many fields as an address has; RegexMatch is a recursive function, and what it
\* computes is checked by TLC.
RulesMean ==
    \A i \in DOMAIN Conf, h \in Headers :
        LET ip == ResolveEndpoint(h.dst)
        IN  ip # None => (RegexMatch(ip, ConvertToRegexPattern(Conf[i].rule)) <=> Covers(Conf[i].rule, ip))

\* FirewallObeyed: the address that is connected to is the one that was asked
\* about, and nobody is rejected whom a rule covers (socks4_handler.cpp:28, 142-152).
THEOREM FirewallIsObeyed ==
    ASSUME RulesMean
    PROVE  Spec => []FirewallObeyed
<1>1. ASSUME NEW h \in Headers, ResolveEndpoint(h.dst) # None
      PROVE  Allowed(h.command, h.dst) <=> Covered(h.command, ResolveEndpoint(h.dst))
  BY <1>1 DEF RulesMean, Allowed, Covered, IsDestinationIPAddressAllowed, MatchFirewallRule
<1>2. ASSUME Inv PROVE FirewallObeyed
  <2> SUFFICES ASSUME NEW c \in Clients
               PROVE  /\ remote[c] \notin {None, Peer} => Covered("CONNECT", remote[c])
                      /\ Number(ToClient(c), Rejected) > 0 =>
                           ~Covered(hdr[c].command, ResolveEndpoint(hdr[c].dst))
    BY DEF FirewallObeyed
  <2>1. Told(c) /\ hdr[c] \in Headers \cup {None}
    BY <1>2 DEF Inv, SessionInv, TypeOK
  <2>2. ASSUME remote[c] \notin {None, Peer} PROVE Covered("CONNECT", remote[c])
    <3>1. PICK h \in Headers : /\ h.command = "CONNECT" /\ remote[c] = ResolveEndpoint(h.dst)
                               /\ Allowed(h.command, h.dst)
      BY <2>1, <2>2 DEF Told
    <3>2. Covered(h.command, ResolveEndpoint(h.dst))
      BY <1>1, <2>2, <3>1
    <3> QED
      BY <3>1, <3>2, Zenon
  <2>3. ASSUME Number(ToClient(c), Rejected) > 0
        PROVE  ~Covered(hdr[c].command, ResolveEndpoint(hdr[c].dst))
    <3>1. /\ hdr[c] # None /\ ResolveEndpoint(hdr[c].dst) # None
          /\ ~Allowed(hdr[c].command, hdr[c].dst)
      BY <2>1, <2>3 DEF Told
    <3> QED
      BY <1>1, <2>1, <3>1
  <2> QED
    BY <2>2, <2>3
<1> QED
  BY InvHolds, <1>2, PTL

=============================================================================
