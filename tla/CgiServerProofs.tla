-------------------------- MODULE CgiServerProofs --------------------------
(***************************************************************************)
(* Theorems about CgiServer, for every number of sessions, all files and   *)
(* outputs, and every size of the buffers.                                 *)
(*                                                                         *)
(* While every per cent sign was a prompt, a session takes turns with its  *)
(* server: one command is sent for one prompt, so what is on the way is    *)
(* always the output of the last command, and its prompt ends it.          *)
(***************************************************************************)
EXTENDS CgiServer, ProofFacts, SequenceTheorems

-----------------------------------------------------------------------------
(* The inductive invariant.                                                *)

\* Every variable has its type, the counters included.
Types == TypeOK /\ sent \in [Sessions -> Nat] /\ ran \in [Sessions -> Nat]

\* Nothing has happened in session s.
Fresh(s) == /\ column[s] = << >> /\ wire[s] = << >> /\ inbox[s] = << >>
            /\ sent[s] = 0 /\ ran[s] = 0 /\ npShellCommand[s] = ""

\* A command that was sent has been executed or waits at the server.
Counted(s) == ran[s] + Len(inbox[s]) = sent[s]

\* w is output of command k or the end of it: only its last token is a prompt.
OutputOf(w, k) ==
    \A i \in DOMAIN w : w[i][2] = k /\ (w[i][1] = "%" => i = Len(w))

\* What c has of the heap stands behind whole buffers.
Framed(c) == \A i \in DOMAIN c : c[i][1] \in Heap => BehindFullBuffer(c, i)

\* The ranks of c ascend, and none is above m.
Ascends(c, m) == /\ \A i \in DOMAIN c : Rank(c[i]) <= m
                 /\ \A i, j \in DOMAIN c : i < j => Rank(c[i]) <= Rank(c[j])

\* On the way is the output of the command executed last, its prompt at the
\* end, and while it is on the way no command waits at the server.
InTurn(s) ==
    /\ Len(inbox[s]) <= 1
    /\ wire[s] # << >> => inbox[s] = << >>
    /\ OutputOf(wire[s], ran[s])

\* What is shown is in order, and belongs to the commands sent so far.
InOrder(s) == Ascends(column[s], 2 * sent[s])

\* After exit nothing comes any more; a session is closed by such a line, by
\* its server, or before it began.
Closing(s) ==
    /\ npShellCommand[s] = "exit" =>
         app[s] # "reading" /\ wire[s] = << >> /\ (inbox[s] = <<"exit">> \/ closed[s])
    /\ app[s] = "closed" => \/ wire[s] = << >> /\ inbox[s] = << >>
                            \/ npShellCommand[s] \in {"exit", "mention"} \/ closed[s]

SessionInv(s) == /\ Counted(s) /\ Framed(column[s]) /\ (app[s] = "connecting" => Fresh(s))
                 /\ ~fake[s] => InTurn(s) /\ InOrder(s) /\ Closing(s)

\* Before the console's page is written there is no session.
Beginning == phase \in {"listening", "accepted", "header", "page"} =>
    \A s \in Sessions : app[s] = "none" /\ Fresh(s)

Inv == Types /\ Beginning /\ \A s \in Sessions : SessionInv(s)

-----------------------------------------------------------------------------
(* What is read and shown.                                                 *)

\* A read takes the first n tokens of what is on the way.
LEMMA Cut ==
    ASSUME NEW w \in Seq(Tokens), NEW n \in Nat, 1 <= n, n <= Len(w)
    PROVE  LET b == SubSeq(w, 1, n)
               r == SubSeq(w, n + 1, Len(w))
           IN  /\ b \in Seq(Tokens) /\ Len(b) = n /\ \A i \in 1 .. n : b[i] = w[i]
               /\ r \in Seq(Tokens) /\ Len(r) = Len(w) - n
               /\ \A i \in 1 .. Len(w) - n : r[i] = w[n + i]
<1> DEFINE b == SubSeq(w, 1, n)
           r == SubSeq(w, n + 1, Len(w))
<1>1. Len(w) \in Nat /\ w \in [1 .. Len(w) -> Tokens]
  OBVIOUS
<1>2. b \in Seq(Tokens) /\ Len(b) = n /\ \A i \in 1 .. n : b[i] = w[i]
  BY <1>1
<1>3. r \in Seq(Tokens) /\ Len(r) = Len(w) - n
  <2>1. n \in 1 .. Len(w) /\ Len(w) \in Nat
    BY <1>1
  <2>2. r \in Seq(Tokens)
    BY <2>1
  <2>3. Len(r) = Len(w) - n
    BY <2>1
  <2> QED
    BY <2>2, <2>3, Zenon
<1>4. ASSUME NEW i \in 1 .. Len(w) - n PROVE r[i] = w[n + i]
  <2>1. r[i] = w[n + 1 + i - 1]
    BY <1>1
  <2>2. n + 1 + i - 1 = n + i
    BY <1>1
  <2> QED
    BY <2>1, <2>2, Zenon
<1> QED
  BY <1>2, <1>3, <1>4, Zenon

\* The rank of a token is a number.
LEMMA RankType == \A t \in Items : Rank(t) \in Int
BY DEF Rank, Items

\* The rank of output is twice the number of its command.
LEMMA RankOfOutput ==
    ASSUME NEW t \in Tokens
    PROVE  Rank(t) = 2 * t[2] /\ t \in Items /\ t[1] \in {"L", "p", "%"}
BY DEF Rank, Tokens, Items

\* Of the output of a command, both parts are such output; a part with the
\* prompt in it is all of it.
LEMMA CutOutput ==
    ASSUME NEW w \in Seq(Tokens), NEW n \in Nat, 1 <= n, n <= Len(w),
           NEW k \in Nat, OutputOf(w, k)
    PROVE  LET b == SubSeq(w, 1, n)
               r == SubSeq(w, n + 1, Len(w))
           IN  /\ \A i \in DOMAIN b : Rank(b[i]) = 2 * k
               /\ OutputOf(r, k)
               /\ Has(b, {"%"}) => r = << >>
<1> DEFINE b == SubSeq(w, 1, n)
           r == SubSeq(w, n + 1, Len(w))
<1>1. /\ b \in Seq(Tokens) /\ Len(b) = n /\ \A i \in 1 .. n : b[i] = w[i]
      /\ r \in Seq(Tokens) /\ Len(r) = Len(w) - n
      /\ \A i \in 1 .. Len(w) - n : r[i] = w[n + i]
  BY Cut, Zenon
<1> HIDE DEF b, r
<1>2. /\ DOMAIN b = 1 .. n /\ DOMAIN r = 1 .. Len(w) - n
      /\ DOMAIN w = 1 .. Len(w) /\ Len(w) \in Nat
  BY <1>1
<1>3. ASSUME NEW i \in DOMAIN b PROVE Rank(b[i]) = 2 * k
  <2>1. b[i] = w[i] /\ i \in DOMAIN w /\ w[i] \in Tokens
    BY <1>1, <1>2
  <2>2. w[i][2] = k
    BY <2>1 DEF OutputOf
  <2> QED
    BY <2>1, <2>2, RankOfOutput
<1>4. ASSUME NEW i \in DOMAIN r
      PROVE  r[i][2] = k /\ (r[i][1] = "%" => i = Len(r))
  <2>1. r[i] = w[n + i] /\ n + i \in DOMAIN w
    BY <1>1, <1>2
  <2>2. w[n + i][2] = k /\ (w[n + i][1] = "%" => n + i = Len(w))
    BY <2>1 DEF OutputOf
  <2> QED
    BY <1>1, <1>2, <2>1, <2>2
<1>5. ASSUME Has(b, {"%"}) PROVE r = << >>
  <2>1. PICK i \in DOMAIN b : b[i][1] = "%"
    BY <1>5 DEF Has
  <2>2. i \in DOMAIN w /\ w[i][1] = "%"
    BY <1>1, <1>2, <2>1
  <2>3. i = Len(w)
    BY <2>2 DEF OutputOf
  <2>4. Len(r) = 0
    BY <1>1, <1>2, <2>1, <2>3
  <2> QED
    BY <1>1, <2>4
<1>6. /\ \A i \in DOMAIN b : Rank(b[i]) = 2 * k
      /\ OutputOf(r, k) /\ (Has(b, {"%"}) => r = << >>)
  BY <1>3, <1>4, <1>5 DEF OutputOf
<1> QED
  BY <1>6, Zenon DEF b, r

\* Tokens of one rank that is not below the others, at the end of a column.
LEMMA AscendsMore ==
    ASSUME NEW c \in Seq(Items), NEW b \in Seq(Items), NEW m \in Int, NEW k \in Int,
           Ascends(c, m), m <= k, \A i \in DOMAIN b : Rank(b[i]) = k
    PROVE  Ascends(c \o b, k)
<1> DEFINE d == c \o b
<1>1. /\ d \in Seq(Items) /\ Len(d) = Len(c) + Len(b) /\ Len(c) \in Nat /\ Len(b) \in Nat
      /\ \A i \in 1 .. Len(d) : \/ i \in 1 .. Len(c) /\ d[i] = c[i]
                                \/ i - Len(c) \in 1 .. Len(b) /\ d[i] = b[i - Len(c)]
  BY ConcatElements, Zenon
<1> HIDE DEF d
<1>2. /\ DOMAIN d = 1 .. Len(d) /\ DOMAIN c = 1 .. Len(c) /\ DOMAIN b = 1 .. Len(b)
      /\ Len(d) \in Nat
  BY <1>1
<1>3. \A i \in DOMAIN c : c[i] \in Items /\ Rank(c[i]) \in Int
  BY RankType
<1>4. ASSUME NEW i \in DOMAIN d
      PROVE  \/ i \in DOMAIN c /\ d[i] = c[i] /\ Rank(d[i]) \in Int /\ Rank(d[i]) <= m
             \/ i \notin DOMAIN c /\ Rank(d[i]) = k
  <2>1. CASE i \in 1 .. Len(c) /\ d[i] = c[i]
    BY <1>2, <1>3, <2>1 DEF Ascends
  <2>2. CASE i - Len(c) \in 1 .. Len(b) /\ d[i] = b[i - Len(c)]
    <3>1. Rank(d[i]) = k
      BY <1>2, <2>2
    <3>2. i \notin DOMAIN c
      BY <1>1, <1>2, <2>2
    <3> QED
      BY <3>1, <3>2
  <2> QED
    BY <1>1, <1>2, <2>1, <2>2
<1>5. \A i \in DOMAIN d : Rank(d[i]) <= k
  BY <1>4
<1>6. ASSUME NEW i \in DOMAIN d, NEW j \in DOMAIN d, i < j
      PROVE  Rank(d[i]) <= Rank(d[j])
  <2>1. CASE j \in DOMAIN c
    <3>1. i \in DOMAIN c
      BY <1>2, <1>6, <2>1
    <3> QED
      BY <1>4, <1>6, <2>1, <3>1 DEF Ascends
  <2>2. CASE j \notin DOMAIN c
    BY <1>4, <1>5, <2>2
  <2> QED
    BY <2>1, <2>2
<1>7. Ascends(d, k)
  BY <1>5, <1>6 DEF Ascends
<1> QED
  BY <1>7 DEF d

\* Texts that are put together one after the other.
LEMMA TextsInTurn ==
    \A x, y, z \in Seq(Items) : (x \o y) \o z = x \o (y \o z)
  BY ConcatAssociative

\* The same for tokens that are written together with others.
LEMMA AscendsTwice ==
    ASSUME NEW c \in Seq(Items), NEW b \in Seq(Items), NEW e \in Seq(Items),
           NEW m \in Int, NEW k \in Int,
           Ascends(c \o b, m), m <= k, \A i \in DOMAIN e : Rank(e[i]) = k
    PROVE  Ascends(c \o (b \o e), k)
<1> DEFINE d == c \o b
<1>1. d \in Seq(Items)
  BY ConcatElements, Zenon
<1>2. d \o e = c \o (b \o e)
  BY TextsInTurn, Zenon
<1>3. Ascends(d, m)
  OBVIOUS
<1> HIDE DEF d
<1>4. Ascends(d \o e, k)
  BY <1>1, <1>3, AscendsMore, Zenon
<1> QED
  BY <1>2, <1>4, Zenon

\* The text of a read: its tokens, and what follows them in the heap.
LEMMA TextOfRead ==
    ASSUME NEW b \in Seq(Tokens), Len(b) >= 1, NEW over \in OverRead(b)
    PROVE  LET text == b \o over
           IN  /\ text \in Seq(Items) /\ Framed(text)
               /\ Has(text, {"%"}) => Has(b, {"%"})
               /\ \A k \in Nat : (\A i \in DOMAIN b : Rank(b[i]) = 2 * k)
                                  => \A i \in DOMAIN text : Rank(text[i]) = 2 * k
<1> DEFINE text == b \o over
           last == b[Len(b)]
<1>1. /\ Len(b) \in Nat /\ last \in Tokens /\ Len(b) \in DOMAIN b /\ DOMAIN b = 1 .. Len(b)
      /\ \A i \in DOMAIN b : b[i] \in Tokens
  OBVIOUS
<1>2. /\ last[2] \in Nat /\ Rank(last) = 2 * last[2]
      /\ \A i \in DOMAIN b : b[i] \in Items /\ b[i][1] \in {"L", "p", "%"}
  BY <1>1, RankOfOutput DEF Tokens
<1>3. \/ over = << >>
      \/ Len(b) = BufferSize /\ \E t \in Heap : over = << <<t, last[2]>> >>
  BY DEF OverRead
<1>4. b \in Seq(Items) /\ over \in Seq(Items)
  <2>1. b \in Seq(Items)
    BY <1>1, <1>2
  <2>2. over \in Seq(Items)
    <3>1. \A t \in Heap : <<t, last[2]>> \in Items
      BY <1>2 DEF Items, Heap
    <3>2. \A x \in Items : <<x>> \in Seq(Items)
      OBVIOUS
    <3>3. << >> \in Seq(Items)
      OBVIOUS
    <3> QED
      BY <1>3, <3>1, <3>2, <3>3, Zenon
  <2> QED
    BY <2>1, <2>2
<1>5. /\ text \in Seq(Items) /\ Len(text) = Len(b) + Len(over)
      /\ \A i \in 1 .. Len(text) : \/ i \in 1 .. Len(b) /\ text[i] = b[i]
                                   \/ i - Len(b) \in 1 .. Len(over) /\ text[i] = over[i - Len(b)]
  BY <1>4, ConcatElements, Zenon
<1>6. ASSUME NEW i \in DOMAIN text
      PROVE  \/ i \in DOMAIN b /\ text[i] = b[i]
             \/ /\ Len(b) = BufferSize /\ i = BufferSize + 1
                /\ text[i][1] \in Heap /\ text[i][2] = last[2]
  <2>1. i \in 1 .. Len(text)
    BY <1>5
  <2>2. CASE i \in 1 .. Len(b) /\ text[i] = b[i]
    BY <1>1, <2>2
  <2>3. CASE i - Len(b) \in 1 .. Len(over) /\ text[i] = over[i - Len(b)]
    <3>1. over # << >>
      BY <2>3
    <3>2. PICK t \in Heap : over = << <<t, last[2]>> >> /\ Len(b) = BufferSize
      BY <1>3, <3>1
    <3>3. Len(over) = 1 /\ over[1] = <<t, last[2]>>
      BY <3>2
    <3>4. i - Len(b) = 1 /\ text[i] = <<t, last[2]>>
      BY <2>3, <3>3
    <3>5. i = BufferSize + 1
      BY <1>1, <2>1, <3>2, <3>4
    <3> QED
      BY <3>2, <3>4, <3>5
  <2> QED
    BY <1>5, <2>1, <2>2, <2>3, Zenon
<1>7. \A i \in DOMAIN b : text[i] = b[i]
  <2>1. \A i \in 1 .. Len(b) : text[i] = b[i]
    BY <1>4, ConcatElements, Zenon
  <2> QED
    BY <1>1, <2>1
<1> HIDE DEF text, last
<1>8. Framed(text)
  <2> SUFFICES ASSUME NEW i \in DOMAIN text, text[i][1] \in Heap PROVE BehindFullBuffer(text, i)
    BY DEF Framed
  <2>1. Len(b) = BufferSize /\ i = BufferSize + 1
    <3>1. ~(i \in DOMAIN b /\ text[i] = b[i])
      BY <1>2 DEF Heap
    <3> QED
      BY <1>6, <3>1
  <2>2. \A j \in i - BufferSize .. i - 1 : j \in DOMAIN b
    BY <1>1, <2>1
  <2>3. i > BufferSize
    BY <1>1, <2>1
  <2> QED
    BY <1>2, <1>7, <2>2, <2>3 DEF BehindFullBuffer
<1>9. ASSUME Has(text, {"%"}) PROVE Has(b, {"%"})
  <2>1. PICK i \in DOMAIN text : text[i][1] = "%"
    BY <1>9 DEF Has
  <2>2. i \in DOMAIN b /\ text[i] = b[i]
    BY <1>6, <2>1 DEF Heap
  <2> QED
    BY <2>1, <2>2 DEF Has
<1>10. ASSUME NEW k \in Nat, \A i \in DOMAIN b : Rank(b[i]) = 2 * k, NEW i \in DOMAIN text
       PROVE  Rank(text[i]) = 2 * k
  <2>1. CASE i \in DOMAIN b /\ text[i] = b[i]
    BY <1>10, <2>1
  <2>2. CASE text[i][1] \in Heap /\ text[i][2] = last[2]
    <3>1. Rank(last) = 2 * k
      BY <1>1, <1>10 DEF last
    <3>2. Rank(text[i]) = 2 * last[2]
      BY <1>2, <2>2 DEF Rank, Heap
    <3> QED
      BY <1>2, <3>1, <3>2
  <2> QED
    BY <1>6, <2>1, <2>2
<1> QED
  BY <1>5, <1>8, <1>9, <1>10 DEF text

\* Behind a column, what a text has of the heap stands where it stood.
LEMMA FramedMore ==
    ASSUME NEW c \in Seq(Items), NEW b \in Seq(Items), Framed(c), Framed(b)
    PROVE  Framed(c \o b)
<1> DEFINE d == c \o b
<1>1. /\ d \in Seq(Items) /\ Len(d) = Len(c) + Len(b) /\ Len(c) \in Nat /\ Len(b) \in Nat
      /\ \A i \in 1 .. Len(c) : d[i] = c[i]
      /\ \A i \in 1 .. Len(b) : d[Len(c) + i] = b[i]
  <2>1. c \o b \in Seq(Items) /\ Len(c \o b) = Len(c) + Len(b) /\ Len(c) \in Nat /\ Len(b) \in Nat
    BY ConcatElements, Zenon
  <2>2. \A i \in 1 .. Len(c) : (c \o b)[i] = c[i]
    BY ConcatElements, Zenon
  <2>3. \A i \in 1 .. Len(b) : (c \o b)[Len(c) + i] = b[i]
    OBVIOUS
  <2> QED
    BY <2>1, <2>2, <2>3
<1> HIDE DEF d
<1>2. /\ DOMAIN d = 1 .. Len(c) + Len(b) /\ DOMAIN c = 1 .. Len(c) /\ DOMAIN b = 1 .. Len(b)
      /\ BufferSize \in Nat
  BY <1>1, SessionsAssumption
<1>3. ASSUME NEW i \in DOMAIN d, d[i][1] \in Heap PROVE BehindFullBuffer(d, i)
  <2>1. CASE i \in DOMAIN c
    <3>1. BehindFullBuffer(c, i)
      BY <1>1, <1>2, <1>3, <2>1 DEF Framed
    <3>2. \A j \in i - BufferSize .. i - 1 : d[j] = c[j]
      BY <1>1, <1>2, <2>1, <3>1 DEF BehindFullBuffer
    <3> QED
      BY <3>1, <3>2 DEF BehindFullBuffer
  <2>2. CASE i \notin DOMAIN c
    <3>1. PICK m \in DOMAIN b : i = Len(c) + m
      <4>1. i - Len(c) \in DOMAIN b /\ i = Len(c) + (i - Len(c))
        BY <1>1, <1>2, <2>2
      <4> QED
        BY <4>1
    <3>2. BehindFullBuffer(b, m)
      BY <1>1, <1>2, <1>3, <3>1 DEF Framed
    <3>3. i > BufferSize
      BY <1>1, <1>2, <3>1, <3>2 DEF BehindFullBuffer
    <3>4. ASSUME NEW j \in i - BufferSize .. i - 1 PROVE d[j][1] \in {"L", "p", "%"}
      <4>1. PICK l \in Int : l = j - Len(c)
        <5>1. i \in Int /\ j \in Int
          BY <1>2
        <5>2. j - Len(c) \in Int
          BY <1>1, <5>1
        <5> QED
          BY <5>2, Zenon
      <4>2. /\ l \in m - BufferSize .. m - 1 /\ l \in DOMAIN b /\ j = Len(c) + l
        BY <1>1, <1>2, <3>1, <3>2, <4>1 DEF BehindFullBuffer
      <4>3. d[j] = b[l]
        BY <1>1, <1>2, <4>2
      <4> QED
        BY <3>2, <4>2, <4>3 DEF BehindFullBuffer
    <3> QED
      BY <3>3, <3>4 DEF BehindFullBuffer
  <2> QED
    BY <2>1, <2>2
<1>4. Framed(d)
  BY <1>3 DEF Framed
<1> QED
  BY <1>4 DEF d

\* What the server sends for a command, behind what is on the way.
LEMMA NewOutput ==
    ASSUME NEW w \in Seq(Tokens), NEW k \in Nat, NEW out \in Seq({"L", "p"})
    PROVE  LET r == w \o [i \in DOMAIN out |-> <<out[i], k>>] \o << <<"%", k>> >>
           IN  r \in Seq(Tokens) /\ (w = << >> => OutputOf(r, k))
<1> DEFINE o == [i \in DOMAIN out |-> <<out[i], k>>]
           p == << <<"%", k>> >>
           v == w \o o
           r == v \o p
<1>1. o \in Seq(Tokens) /\ Len(o) = Len(out) /\ \A i \in 1 .. Len(out) : o[i] = <<out[i], k>>
  <2>1. Len(out) \in Nat /\ DOMAIN out = 1 .. Len(out) /\ \A i \in DOMAIN out : out[i] \in {"L", "p"}
    OBVIOUS
  <2>2. \A i \in DOMAIN out : <<out[i], k>> \in Tokens
    BY <2>1 DEF Tokens
  <2> QED
    BY <2>1, <2>2
<1>2. p \in Seq(Tokens) /\ Len(p) = 1 /\ p[1] = <<"%", k>>
  BY DEF Tokens
<1>3. Len(out) \in Nat /\ \A i \in 1 .. Len(out) : out[i] \in {"L", "p"}
  OBVIOUS
<1> HIDE DEF o, p
<1>4. v \in Seq(Tokens)
  BY <1>1, ConcatElements, Zenon
<1>5. w = << >> => v = o
  BY <1>1, ConcatEmptySeq
<1> HIDE DEF v
<1>6. /\ r \in Seq(Tokens) /\ Len(r) = Len(v) + Len(p)
      /\ \A i \in 1 .. Len(r) : \/ i \in 1 .. Len(v) /\ r[i] = v[i]
                                \/ i - Len(v) \in 1 .. Len(p) /\ r[i] = p[i - Len(v)]
  BY <1>2, <1>4, ConcatElements, Zenon
<1> HIDE DEF r
<1>7. ASSUME w = << >> PROVE OutputOf(r, k)
  <2>1. DOMAIN r = 1 .. Len(out) + 1 /\ Len(r) = Len(out) + 1
    BY <1>1, <1>2, <1>3, <1>5, <1>6, <1>7
  <2>2. ASSUME NEW i \in DOMAIN r
        PROVE  r[i][2] = k /\ (r[i][1] = "%" => i = Len(r))
    <3>1. \/ i \in 1 .. Len(out) /\ r[i] = <<out[i], k>>
          \/ i = Len(out) + 1 /\ r[i] = <<"%", k>>
      <4>1. v = o /\ Len(v) = Len(out) /\ i \in 1 .. Len(r)
        BY <1>1, <1>5, <1>7, <2>1
      <4>2. CASE i \in 1 .. Len(v) /\ r[i] = v[i]
        BY <1>1, <4>1, <4>2
      <4>3. CASE i - Len(v) \in 1 .. Len(p) /\ r[i] = p[i - Len(v)]
        <5>1. i - Len(v) = 1 /\ i = Len(out) + 1
          BY <1>2, <1>3, <2>1, <4>1, <4>3
        <5> QED
          BY <1>2, <4>3, <5>1
      <4> QED
        BY <1>6, <4>1, <4>2, <4>3
    <3> QED
      BY <1>3, <2>1, <3>1
  <2> QED
    BY <2>2 DEF OutputOf
<1>8. r \in Seq(Tokens) /\ (w = << >> => OutputOf(r, k))
  BY <1>6, <1>7
<1> QED
  BY <1>8, Zenon DEF r, v, p, o

\* Of one command, nothing is left when it is taken.
LEMMA OneLeft ==
    ASSUME NEW q \in Seq(Lines), q # << >>, Len(q) <= 1
    PROVE  Len(q) = 1 /\ Tail(q) = << >>
<1>1. Len(q) \in Nat \ {0}
  BY EmptySeq
<1>2. Len(q) = 1
  <2>1. \A m \in Nat \ {0} : m <= 1 => m = 1
    OBVIOUS
  <2> QED
    BY <1>1, <2>1, Zenon
<1>3. Tail(q) \in Seq(Lines) /\ Len(Tail(q)) = 0
  BY <1>2
<1> QED
  BY <1>2, <1>3, EmptySeq

-----------------------------------------------------------------------------
(* The invariant of a session that takes no step, or its first.            *)

\* All that the invariant of session s looks at.
View(s) == <<column[s], app[s], sent[s], npShellCommand[s], wire[s], inbox[s], ran[s],
             closed[s], fake[s]>>

\* A session whose variables a step leaves alone keeps its invariant.
LEMMA Kept ==
    ASSUME NEW s, SessionInv(s), UNCHANGED View(s)
    PROVE  SessionInv(s)'
<1>1. /\ column'[s] = column[s] /\ app'[s] = app[s] /\ sent'[s] = sent[s]
      /\ npShellCommand'[s] = npShellCommand[s] /\ wire'[s] = wire[s]
      /\ inbox'[s] = inbox[s] /\ ran'[s] = ran[s] /\ closed'[s] = closed[s] /\ fake'[s] = fake[s]
  BY DEF View
<1> QED
  BY <1>1, Zenon DEF SessionInv, Counted, Framed, BehindFullBuffer, Fresh, InTurn, InOrder, Closing

\* A session that is given up without a step of its own.
LEMMA KeptButApp ==
    ASSUME NEW s, SessionInv(s), app'[s] = "none",
           UNCHANGED <<column, sent, npShellCommand, wire, inbox, ran, closed, fake>>
    PROVE  SessionInv(s)'
<1>1. "none" # "connecting" /\ "none" # "reading" /\ "none" # "closed"
  OBVIOUS
<1>2. /\ column'[s] = column[s] /\ sent'[s] = sent[s]
      /\ npShellCommand'[s] = npShellCommand[s] /\ wire'[s] = wire[s]
      /\ inbox'[s] = inbox[s] /\ ran'[s] = ran[s] /\ closed'[s] = closed[s] /\ fake'[s] = fake[s]
  OBVIOUS
<1> QED
  BY <1>1, <1>2, Zenon DEF SessionInv, Counted, InTurn, InOrder, Closing

\* The empty sequence has no elements.
LEMMA Nothing == Len(<< >>) = 0 /\ DOMAIN << >> = {}
  OBVIOUS

\* A session in which nothing has happened.
LEMMA FreshInv ==
    ASSUME NEW s, Fresh(s)
    PROVE  SessionInv(s)
<1>1. Counted(s)
  <2>1. ran[s] = 0 /\ sent[s] = 0 /\ Len(inbox[s]) = 0
    BY Nothing, Zenon DEF Fresh
  <2> QED
    BY <2>1 DEF Counted
<1>2. InTurn(s) /\ InOrder(s)
  <2>1. /\ Len(inbox[s]) = 0 /\ wire[s] = << >>
        /\ DOMAIN wire[s] = {} /\ DOMAIN column[s] = {}
    BY Nothing, Zenon DEF Fresh
  <2> QED
    BY <2>1 DEF InTurn, OutputOf, InOrder, Ascends
<1>3. Closing(s)
  BY DEF Fresh, Closing
<1>4. Framed(column[s])
  <2>1. DOMAIN column[s] = {}
    BY Nothing, Zenon DEF Fresh
  <2> QED
    BY <2>1 DEF Framed
<1> QED
  BY <1>1, <1>2, <1>3, <1>4 DEF SessionInv

\* A fresh session that is still fresh after a step.
LEMMA FreshStays ==
    ASSUME NEW s, Fresh(s)'
    PROVE  SessionInv(s)'
<1>1. Counted(s)'
  <2>1. ran'[s] = 0 /\ sent'[s] = 0 /\ Len(inbox'[s]) = 0
    BY Nothing, Zenon DEF Fresh
  <2> QED
    BY <2>1 DEF Counted
<1>2. InTurn(s)' /\ InOrder(s)'
  <2>1. /\ Len(inbox'[s]) = 0 /\ wire'[s] = << >>
        /\ DOMAIN wire'[s] = {} /\ DOMAIN column'[s] = {}
    BY Nothing, Zenon DEF Fresh
  <2> QED
    BY <2>1 DEF InTurn, OutputOf, InOrder, Ascends
<1>3. Closing(s)'
  BY DEF Fresh, Closing
<1>4. Framed(column[s])'
  <2>1. DOMAIN column'[s] = {}
    BY Nothing, Zenon DEF Fresh
  <2> QED
    BY <2>1 DEF Framed
<1> QED
  BY <1>1, <1>2, <1>3, <1>4 DEF SessionInv

\* A step of one session.
Early == {"listening", "accepted", "header", "page"}
LEMMA OneSession ==
    ASSUME Inv, NEW s \in Sessions, Types', SessionInv(s)', UNCHANGED phase, phase \notin Early,
           \A u \in Sessions \ {s} : UNCHANGED View(u)
    PROVE  Inv'
<1>1. ASSUME NEW u \in Sessions PROVE SessionInv(u)'
  <2>1. CASE u = s
    BY <2>1
  <2>2. CASE u # s
    BY <2>2, Kept DEF Inv
  <2> QED
    BY <2>1, <2>2
<1>2. Beginning'
  BY DEF Beginning, Early
<1> QED
  BY <1>1, <1>2 DEF Inv

\* A step that is not about a session.
LEMMA NoSession ==
    ASSUME Inv, Types', UNCHANGED <<console, column, wire, server, history>>,
           phase' \in Early => phase \in Early
    PROVE  Inv'
<1>1. ASSUME NEW s \in Sessions PROVE SessionInv(s)'
  <2>1. UNCHANGED View(s)
    BY DEF console, server, history, View
  <2> QED
    BY <2>1, Kept DEF Inv
<1>2. Beginning'
  BY DEF Inv, Beginning, Early, console, server, Fresh
<1> QED
  BY <1>1, <1>2 DEF Inv

\* What the types say of one session.
LEMMA TypeOfSession ==
    ASSUME Types, NEW s \in Sessions
    PROVE  /\ column[s] \in Seq(Items) /\ wire[s] \in Seq(Tokens) /\ inbox[s] \in Seq(Lines)
           /\ sent[s] \in Nat /\ ran[s] \in Nat /\ sent[s] <= Len(file[s])
           /\ file[s] \in Seq(Lines) /\ Len(file[s]) \in Nat
           /\ Len(wire[s]) \in Nat /\ Len(inbox[s]) \in Nat
<1>1. column[s] \in Seq(Items) /\ wire[s] \in Seq(Tokens) /\ inbox[s] \in Seq(Lines)
  BY DEF Types, TypeOK
<1>2. sent[s] \in Nat /\ ran[s] \in Nat
  BY DEF Types
<1>3. file \in [Sessions -> Seq(Lines)]
  BY SessionsAssumption DEF Types, TypeOK
<1>4. file[s] \in Seq(Lines) /\ Len(file[s]) \in Nat
  BY <1>3
<1>5. sent[s] <= Len(file[s])
  <2>1. sent[s] \in 0 .. Len(file[s])
    BY DEF Types, TypeOK
  <2> QED
    BY <1>2, <1>4, <2>1
<1> QED
  BY <1>1, <1>2, <1>4, <1>5

\* The invariant holds before anything has happened.
LEMMA InvInit == Init => Inv
<1> SUFFICES ASSUME Init PROVE Inv
  OBVIOUS
<1>1. \A s \in Sessions : app[s] = "none" /\ Fresh(s)
  BY DEF Init, All, Fresh
<1>2. Types
  <2>1. file \in [Sessions -> Seq(Lines)]
    BY SessionsAssumption DEF Init
  <2>2. \A s \in Sessions : sent[s] \in 0 .. Len(file[s]) /\ ran[s] \in 0 .. sent[s]
    <3> SUFFICES ASSUME NEW s \in Sessions PROVE sent[s] \in 0 .. Len(file[s]) /\ ran[s] \in 0 .. sent[s]
      OBVIOUS
    <3>1. sent[s] = 0 /\ ran[s] = 0
      BY DEF Init, All
    <3>2. Len(file[s]) \in Nat
      BY <2>1
    <3> QED
      BY <3>1, <3>2
  <2>3. /\ column \in [Sessions -> Seq(Items)] /\ wire \in [Sessions -> Seq(Tokens)]
        /\ inbox \in [Sessions -> Seq(Lines)]
    <3>1. << >> \in Seq(Tokens) /\ << >> \in Seq(Items) /\ << >> \in Seq(Lines)
      OBVIOUS
    <3>2. \A T : << >> \in T => [s \in Sessions |-> << >>] \in [Sessions -> T]
      OBVIOUS
    <3> QED
      BY <3>1, <3>2, Zenon DEF Init, All
  <2>4. /\ sent \in [Sessions -> Nat] /\ ran \in [Sessions -> Nat]
        /\ closed \in [Sessions -> BOOLEAN] /\ fake \in [Sessions -> BOOLEAN]
        /\ garbled \in [Sessions -> BOOLEAN]
    BY DEF Init, All
  <2> QED
    BY <2>2, <2>3, <2>4 DEF Init, All, Types, TypeOK
<1>3. Beginning
  BY <1>1 DEF Beginning
<1> QED
  BY <1>1, <1>2, <1>3, FreshInv DEF Inv

-----------------------------------------------------------------------------
(* The shell servers.                                                      *)

\* A command is executed: its output is all that is on the way.
LEMMA ServerRunsKeeps ==
    ASSUME Inv, NEW s \in Sessions, ServerRuns(s)
    PROVE  Inv'
<1> DEFINE k == ran[s] + 1
<1>0. Types /\ SessionInv(s)
  BY DEF Inv
<1>1. /\ column[s] \in Seq(Items) /\ wire[s] \in Seq(Tokens) /\ inbox[s] \in Seq(Lines)
      /\ sent[s] \in Nat /\ ran[s] \in Nat /\ Len(wire[s]) \in Nat /\ Len(inbox[s]) \in Nat
  BY <1>0, TypeOfSession
<1>2. /\ inbox[s] # << >> /\ ~closed[s]
      /\ inbox' = [inbox EXCEPT ![s] = Tail(@)] /\ ran' = [ran EXCEPT ![s] = k]
      /\ UNCHANGED <<session, browser, console, history>>
  BY DEF ServerRuns, Set
<1>3. /\ Len(inbox[s]) \in Nat /\ Len(inbox[s]) > 0 /\ Head(inbox[s]) \in Lines
      /\ Tail(inbox[s]) \in Seq(Lines) /\ Len(Tail(inbox[s])) = Len(inbox[s]) - 1
  BY <1>1, <1>2
<1>4. k \in Nat /\ k <= sent[s]
  BY <1>0, <1>1, <1>3 DEF SessionInv, Counted
<1>5. \/ Head(inbox[s]) = "exit" /\ closed' = [closed EXCEPT ![s] = TRUE] /\ UNCHANGED wire
      \/ /\ Head(inbox[s]) # "exit" /\ UNCHANGED closed
         /\ \E r \in Seq(Tokens) : /\ wire' = [wire EXCEPT ![s] = r]
                                   /\ wire[s] = << >> => OutputOf(r, k)
  <2>1. CASE Head(inbox[s]) = "exit" /\ closed' = Set(closed, s, TRUE) /\ UNCHANGED wire
    BY <2>1 DEF Set
  <2>2. ASSUME Head(inbox[s]) # "exit", UNCHANGED closed, NEW out \in Outputs[s],
               wire' = [wire EXCEPT ![s] = @ \o [i \in DOMAIN out |-> <<out[i], k>>] \o << <<"%", k>> >>]
        PROVE  \E r \in Seq(Tokens) : /\ wire' = [wire EXCEPT ![s] = r]
                                      /\ wire[s] = << >> => OutputOf(r, k)
    <3> DEFINE r == wire[s] \o [i \in DOMAIN out |-> <<out[i], k>>] \o << <<"%", k>> >>
    <3>1. out \in Seq({"L", "p"})
      BY SessionsAssumption
    <3>2. r \in Seq(Tokens) /\ (wire[s] = << >> => OutputOf(r, k))
      BY <1>1, <1>4, <3>1, NewOutput, Zenon
    <3>3. wire' = [wire EXCEPT ![s] = r]
      BY <2>2
    <3> QED
      BY <3>2, <3>3, Zenon
  <2> QED
    BY <2>1, <2>2 DEF ServerRuns
<1>6. /\ Tail(inbox[s]) = inbox'[s] /\ ran'[s] = k
      /\ UNCHANGED <<column, app, sent, npShellCommand, fake>>
      /\ \A u \in Sessions \ {s} : inbox'[u] = inbox[u] /\ ran'[u] = ran[u]
  BY <1>0, <1>2 DEF Types, TypeOK, browser, console, history
<1>7. Types'
  <2>1. /\ inbox' \in [Sessions -> Seq(Lines)] /\ ran' \in [Sessions -> Nat]
        /\ \A u \in Sessions : ran'[u] \in 0 .. sent'[u]
    <3>1. inbox' \in [Sessions -> Seq(Lines)]
      BY <1>0, <1>2, <1>3 DEF Types, TypeOK
    <3>2. ran' \in [Sessions -> Nat]
      BY <1>0, <1>2, <1>4 DEF Types
    <3>3. ASSUME NEW u \in Sessions PROVE ran'[u] \in 0 .. sent'[u]
      <4>1. CASE u = s
        BY <1>1, <1>4, <1>6, <4>1
      <4>2. CASE u # s
        <5>1. ran[u] \in 0 .. sent[u]
          BY <1>0 DEF Types, TypeOK
        <5> QED
          BY <1>6, <4>2, <5>1
      <4> QED
        BY <4>1, <4>2
    <3> QED
      BY <3>1, <3>2, <3>3
  <2>2. wire' \in [Sessions -> Seq(Tokens)] /\ closed' \in [Sessions -> BOOLEAN]
    <3>1. wire \in [Sessions -> Seq(Tokens)] /\ closed \in [Sessions -> BOOLEAN]
      BY <1>0 DEF Types, TypeOK
    <3>2. CASE closed' = [closed EXCEPT ![s] = TRUE] /\ UNCHANGED wire
      BY <3>1, <3>2
    <3>3. ASSUME UNCHANGED closed, NEW r \in Seq(Tokens), wire' = [wire EXCEPT ![s] = r]
          PROVE  wire' \in [Sessions -> Seq(Tokens)] /\ closed' \in [Sessions -> BOOLEAN]
      BY <3>1, <3>3
    <3> QED
      BY <1>5, <3>2, <3>3
  <2> QED
    BY <1>0, <1>2, <2>1, <2>2 DEF Types, TypeOK, session, browser, console, history
<1>8. \A u \in Sessions \ {s} : UNCHANGED View(u)
  <2>1. \A u \in Sessions \ {s} : wire'[u] = wire[u] /\ closed'[u] = closed[u]
    BY <1>0, <1>5 DEF Types, TypeOK
  <2> QED
    BY <1>6, <2>1 DEF View
<1>9. SessionInv(s)'
  <2>1. Counted(s)'
    <3>1. ran[s] + Len(inbox[s]) = sent[s]
      BY <1>0 DEF SessionInv, Counted
    <3>2. ran'[s] = ran[s] + 1 /\ Len(inbox'[s]) = Len(inbox[s]) - 1 /\ sent'[s] = sent[s]
      BY <1>3, <1>6
    <3>3. PICK m \in Nat : m = Len(inbox[s])
      BY <1>1, Zenon
    <3>4. PICK j \in Nat : j = ran[s]
      BY <1>1, Zenon
    <3>5. ran'[s] + Len(inbox'[s]) = (j + 1) + (m - 1) /\ j + m = sent[s]
      BY <3>1, <3>2, <3>3, <3>4, Zenon
    <3>6. (j + 1) + (m - 1) = j + m
      OBVIOUS
    <3> QED
      BY <3>2, <3>5, <3>6, Zenon DEF Counted
  <2>2. app[s] # "connecting"
    BY <1>0, <1>2 DEF SessionInv, Fresh
  <2>3. ASSUME ~fake'[s] PROVE InTurn(s)' /\ InOrder(s)' /\ Closing(s)'
    <3>1. InTurn(s) /\ InOrder(s) /\ Closing(s)
      BY <1>0, <1>6, <2>3 DEF SessionInv
    <3>2. wire[s] = << >> /\ Len(inbox[s]) = 1 /\ inbox'[s] = << >>
      <4>1. wire[s] = << >> /\ Len(inbox[s]) <= 1
        BY <1>2, <3>1 DEF InTurn
      <4>2. Len(inbox[s]) = 1 /\ Tail(inbox[s]) = << >>
        BY <1>1, <1>2, <4>1, OneLeft, Zenon
      <4> QED
        BY <1>6, <4>1, <4>2, Zenon
    <3>3. InOrder(s)'
      BY <1>6, <3>1 DEF InOrder
    <3>4. InTurn(s)' /\ Closing(s)'
      <4>1. CASE Head(inbox[s]) = "exit" /\ closed' = [closed EXCEPT ![s] = TRUE] /\ UNCHANGED wire
        <5>1. closed'[s] /\ wire'[s] = << >>
          BY <1>0, <3>2, <4>1 DEF Types, TypeOK
        <5>2. InTurn(s)'
          BY <3>2, <5>1 DEF InTurn, OutputOf
        <5>3. Closing(s)'
          BY <1>6, <3>1, <5>1 DEF Closing
        <5> QED
          BY <5>2, <5>3
      <4>2. ASSUME Head(inbox[s]) # "exit", UNCHANGED closed, NEW r \in Seq(Tokens),
                   wire' = [wire EXCEPT ![s] = r], wire[s] = << >> => OutputOf(r, k)
            PROVE  InTurn(s)' /\ Closing(s)'
        <5>1. wire'[s] = r /\ OutputOf(r, k)
          BY <1>0, <3>2, <4>2 DEF Types, TypeOK
        <5>2. InTurn(s)'
          BY <1>6, <3>2, <5>1 DEF InTurn
        <5>3. inbox[s] # <<"exit">>
          BY <4>2
        <5>4. Closing(s)'
          BY <1>2, <1>6, <3>1, <4>2, <5>3 DEF Closing
        <5> QED
          BY <5>2, <5>4
      <4> QED
        BY <1>5, <4>1, <4>2
    <3> QED
      BY <3>3, <3>4
  <2>4. Framed(column[s])'
    BY <1>0, <1>6 DEF SessionInv, Framed, BehindFullBuffer
  <2> QED
    BY <1>6, <2>1, <2>2, <2>3, <2>4 DEF SessionInv
<1>10. phase \notin Early /\ UNCHANGED phase
  BY <1>2 DEF Inv, Beginning, Fresh, Early, session
<1> QED
  BY <1>7, <1>8, <1>9, <1>10, OneSession

\* The server ends by itself.
LEMMA ServerClosesKeeps ==
    ASSUME Inv, NEW s \in Sessions, ServerCloses(s)
    PROVE  Inv'
<1>0. Types /\ SessionInv(s)
  BY DEF Inv
<1>1. /\ app[s] \in {"reading", "writing"} /\ closed' = [closed EXCEPT ![s] = TRUE]
      /\ UNCHANGED <<session, browser, console, wire, inbox, ran, history>>
  BY DEF ServerCloses, Set
<1>2. Types'
  <2>1. closed' \in [Sessions -> BOOLEAN]
    BY <1>0, <1>1 DEF Types, TypeOK
  <2> QED
    BY <1>0, <1>1, <2>1 DEF Types, TypeOK, session, browser, console, history
<1>3. /\ closed'[s] /\ \A u \in Sessions \ {s} : closed'[u] = closed[u]
  BY <1>0, <1>1 DEF Types, TypeOK
<1>4. \A u \in Sessions \ {s} : UNCHANGED View(u)
  BY <1>1, <1>3 DEF View, browser, console, history
<1>5. /\ UNCHANGED <<column, app, sent, npShellCommand, wire, inbox, ran, fake>>
      /\ app[s] # "connecting"
  BY <1>1 DEF browser, console, history
<1>6. SessionInv(s)'
  <2>1. Counted(s)'
    BY <1>0, <1>5 DEF SessionInv, Counted
  <2>2. ASSUME ~fake'[s] PROVE InTurn(s)' /\ InOrder(s)' /\ Closing(s)'
    <3>1. InTurn(s) /\ InOrder(s) /\ Closing(s)
      BY <1>0, <1>5, <2>2 DEF SessionInv
    <3> QED
      BY <1>3, <1>5, <3>1, Zenon DEF InTurn, InOrder, Closing
  <2>3. Framed(column[s])'
    BY <1>0, <1>5 DEF SessionInv, Framed, BehindFullBuffer
  <2> QED
    BY <1>5, <2>1, <2>2, <2>3 DEF SessionInv
<1>7. phase \notin Early /\ UNCHANGED phase
  BY <1>1 DEF Inv, Beginning, Early, session
<1> QED
  BY <1>2, <1>4, <1>6, <1>7, OneSession

-----------------------------------------------------------------------------
(* The sessions.                                                           *)

\* A session connects, ends, or ends the process.
LEMMA StartKeeps ==
    ASSUME Inv, NEW s \in Sessions, Start(s)
    PROVE  Inv'
<1>0. Types /\ SessionInv(s)
  BY DEF Inv
<1>1. /\ app[s] = "connecting"
      /\ UNCHANGED <<path, file, browser, sent, npShellCommand, server, history>>
  BY DEF Start
<1>2. Fresh(s) /\ phase \notin Early
  BY <1>0, <1>1 DEF Inv, SessionInv, Beginning, Early
<1>3. UNCHANGED <<path, file, column, gone, pending, sent, npShellCommand, inbox, ran, closed, fake, garbled>>
  BY <1>1 DEF browser, server, history
<1>4. CASE app' = Set(app, s, "closed") /\ UNCHANGED <<phase, wire>>
  <2>1. app' = [app EXCEPT ![s] = "closed"]
    BY <1>4 DEF Set
  <2>2. Types'
    <3>1. app' \in [Sessions -> {"none", "connecting", "reading", "writing", "closed"}]
      BY <1>0, <2>1 DEF Types, TypeOK
    <3> QED
      BY <1>0, <1>3, <1>4, <3>1 DEF Types, TypeOK
  <2>3. \A u \in Sessions \ {s} : UNCHANGED View(u)
    BY <1>0, <1>3, <1>4, <2>1 DEF View, Types, TypeOK
  <2>4. SessionInv(s)'
    BY <1>2, <1>3, <1>4, FreshStays DEF Fresh
  <2> QED
    BY <1>2, <1>4, <2>2, <2>3, <2>4, OneSession
<1>5. CASE /\ app' = Set(app, s, "reading") /\ UNCHANGED phase
           /\ wire' = Set(wire, s, << <<"L", 0>>, <<"%", 0>> >>)
  <2> DEFINE w == << <<"L", 0>>, <<"%", 0>> >>
  <2>1. w \in Seq(Tokens) /\ OutputOf(w, 0)
    BY DEF Tokens, OutputOf
  <2> HIDE DEF w
  <2>2. app' = [app EXCEPT ![s] = "reading"] /\ wire' = [wire EXCEPT ![s] = w]
    BY <1>5 DEF Set, w
  <2>3. app'[s] = "reading" /\ wire'[s] = w
    BY <1>0, <2>2 DEF Types, TypeOK
  <2>4. Types'
    <3>1. /\ app' \in [Sessions -> {"none", "connecting", "reading", "writing", "closed"}]
          /\ wire' \in [Sessions -> Seq(Tokens)]
      BY <1>0, <2>1, <2>2 DEF Types, TypeOK
    <3> QED
      BY <1>0, <1>3, <1>5, <3>1 DEF Types, TypeOK
  <2>5. \A u \in Sessions \ {s} : UNCHANGED View(u)
    BY <1>0, <1>3, <2>2 DEF View, Types, TypeOK
  <2>6. SessionInv(s)'
    <3>1. /\ ran'[s] = 0 /\ sent'[s] = 0 /\ inbox'[s] = << >> /\ column'[s] = << >>
          /\ npShellCommand'[s] = ""
      BY <1>2, <1>3 DEF Fresh
    <3>2. Counted(s)'
      <4>1. Len(inbox'[s]) = 0
        BY <3>1, Nothing, Zenon
      <4> QED
        <5>1. ran'[s] = 0 /\ sent'[s] = 0
          BY <3>1
        <5> QED
          BY <4>1, <5>1 DEF Counted
    <3>3. InTurn(s)'
      <4>1. Len(inbox'[s]) = 0
        BY <3>1, Nothing, Zenon
      <4>2. Len(inbox'[s]) <= 1
        BY <4>1
      <4> QED
        BY <2>1, <2>3, <3>1, <4>2, Zenon DEF InTurn
    <3>4. InOrder(s)'
      <4>1. DOMAIN column'[s] = {}
        BY <3>1, Nothing, Zenon
      <4> QED
        BY <4>1 DEF InOrder, Ascends
    <3>5. Closing(s)'
      BY <2>3, <3>1 DEF Closing
    <3>6. Framed(column[s])'
      BY <1>0, <1>3 DEF SessionInv, Framed, BehindFullBuffer
    <3> QED
      BY <2>3, <3>2, <3>3, <3>4, <3>5, <3>6 DEF SessionInv
  <2> QED
    BY <1>2, <1>5, <2>4, <2>5, <2>6, OneSession
<1>6. CASE phase' = "crashed" /\ app' = All("none") /\ UNCHANGED wire
  <2>1. \A u \in Sessions : app'[u] = "none"
    BY <1>6 DEF All
  <2>2. Types'
    <3>1. app' \in [Sessions -> {"none", "connecting", "reading", "writing", "closed"}]
      BY <1>6 DEF All
    <3> QED
      BY <1>0, <1>3, <1>6, <3>1 DEF Types, TypeOK
  <2>3. \A u \in Sessions : SessionInv(u)'
    BY <1>3, <1>6, <2>1, KeptButApp DEF Inv
  <2>4. Beginning'
    BY <1>6 DEF Beginning
  <2> QED
    BY <2>2, <2>3, <2>4 DEF Inv
<1> QED
  BY <1>4, <1>5, <1>6 DEF Start

\* A session whose server has closed is over, or its command was written.
LEMMA AppMoves ==
    ASSUME Inv, NEW s \in Sessions, NEW a \in {"reading", "closed"},
           app[s] \in {"reading", "writing"}, app' = [app EXCEPT ![s] = a],
           UNCHANGED <<session, browser, sent, npShellCommand, wire, server, history>>,
           a = "reading" => npShellCommand[s] # "exit",
           a = "closed" => npShellCommand[s] \in {"exit", "mention"} \/ closed[s]
    PROVE  Inv'
<1>0. Types /\ SessionInv(s)
  BY DEF Inv
<1>1. UNCHANGED <<phase, path, file, column, gone, pending, sent, npShellCommand, wire, inbox,
                  ran, closed, fake, garbled>>
  BY DEF session, browser, server, history
<1>2. app'[s] = a /\ \A u \in Sessions \ {s} : app'[u] = app[u]
  BY <1>0 DEF Types, TypeOK
<1>3. Types'
  <2>1. app' \in [Sessions -> {"none", "connecting", "reading", "writing", "closed"}]
    BY <1>0 DEF Types, TypeOK
  <2> QED
    BY <1>0, <1>1, <2>1 DEF Types, TypeOK
<1>4. \A u \in Sessions \ {s} : UNCHANGED View(u)
  BY <1>1, <1>2 DEF View
<1>5. SessionInv(s)'
  <2>1. Counted(s)'
    BY <1>0, <1>1 DEF SessionInv, Counted
  <2>2. ASSUME ~fake'[s] PROVE InTurn(s)' /\ InOrder(s)' /\ Closing(s)'
    <3>1. InTurn(s) /\ InOrder(s) /\ Closing(s)
      BY <1>0, <1>1, <2>2 DEF SessionInv
    <3>2. InTurn(s)' /\ InOrder(s)'
      BY <1>1, <3>1, Zenon DEF InTurn, InOrder
    <3>3. Closing(s)'
      BY <1>1, <1>2, <3>1 DEF Closing
    <3> QED
      BY <3>2, <3>3
  <2>3. Framed(column[s])'
    BY <1>0, <1>1 DEF SessionInv, Framed, BehindFullBuffer
  <2> QED
    BY <1>2, <2>1, <2>2, <2>3 DEF SessionInv
<1>6. phase \notin Early
  BY DEF Inv, Beginning, Early
<1> QED
  BY <1>1, <1>3, <1>4, <1>5, <1>6, OneSession

\* The end of file of a server closes its session.
LEMMA ReadEofKeeps ==
    ASSUME Inv, NEW s \in Sessions, ReadEof(s)
    PROVE  Inv'
BY AppMoves DEF ReadEof, Set

\* A command is written: read on, or close after exit.
LEMMA CommandWrittenKeeps ==
    ASSUME Inv, NEW s \in Sessions, CommandWritten(s)
    PROVE  Inv'
<1>1. /\ app[s] = "writing"
      /\ UNCHANGED <<session, browser, sent, npShellCommand, wire, server, history>>
  BY DEF CommandWritten
<1>2. CASE npShellCommand[s] \in {"exit", "mention"} /\ app' = [app EXCEPT ![s] = "closed"]
  BY <1>1, <1>2, AppMoves
<1>3. CASE npShellCommand[s] \notin {"exit", "mention"} /\ app' = [app EXCEPT ![s] = "reading"]
  BY <1>1, <1>3, AppMoves
<1>4. CASE closed[s] /\ app' = [app EXCEPT ![s] = "closed"]
  BY <1>1, <1>4, AppMoves
<1> QED
  BY <1>2, <1>3, <1>4 DEF CommandWritten, Set

\* A read: what it takes is shown, and answered if there is a per cent sign.
LEMMA DoReadKeeps ==
    ASSUME Inv, NEW s \in Sessions, DoRead(s)
    PROVE  Inv'
<1>0. Types /\ SessionInv(s)
  BY DEF Inv
<1>t. /\ column[s] \in Seq(Items) /\ wire[s] \in Seq(Tokens) /\ inbox[s] \in Seq(Lines)
      /\ sent[s] \in Nat /\ ran[s] \in Nat /\ sent[s] <= Len(file[s])
      /\ file[s] \in Seq(Lines) /\ Len(file[s]) \in Nat
      /\ Len(wire[s]) \in Nat /\ Len(inbox[s]) \in Nat
  BY <1>0, TypeOfSession
<1>1. app[s] = "reading" /\ UNCHANGED <<phase, path, file, gone, ran, closed>>
  BY DEF DoRead, session
<1>2. PICK n \in 1 .. BufferSize :
        /\ n <= Len(wire[s])
        /\ wire' = [wire EXCEPT ![s] = SubSeq(@, n + 1, Len(@))]
        /\ \E over \in OverRead(SubSeq(wire[s], 1, n)) :
             \/ ShowOutput(s, SubSeq(wire[s], 1, n) \o over)
             \/ AnswerPrompt(s, SubSeq(wire[s], 1, n) \o over)
  BY Zenon DEF DoRead
<1> DEFINE q == SubSeq(wire[s], 1, n)
           r == SubSeq(wire[s], n + 1, Len(wire[s]))
<1>3. n \in Nat /\ 1 <= n /\ n <= Len(wire[s])
  BY <1>2, SessionsAssumption
<1>q. /\ q \in Seq(Tokens) /\ Len(q) = n /\ Len(q) >= 1
      /\ r \in Seq(Tokens) /\ Len(r) = Len(wire[s]) - n
  <2>1. /\ q \in Seq(Tokens) /\ Len(q) = n
        /\ r \in Seq(Tokens) /\ Len(r) = Len(wire[s]) - n
    BY <1>t, <1>3, Cut, Zenon
  <2> QED
    BY <1>3, <2>1
<1>o. ASSUME NEW k \in Nat, OutputOf(wire[s], k)
      PROVE  /\ \A i \in DOMAIN q : Rank(q[i]) = 2 * k
             /\ OutputOf(r, k) /\ (Has(q, {"%"}) => r = << >>)
  BY <1>t, <1>3, <1>o, CutOutput, Zenon
<1>6. wire' = [wire EXCEPT ![s] = r]
  BY <1>2
<1>7. wire[s] # << >>
  BY <1>t, <1>3, EmptySeq
<1>v. PICK over \in OverRead(q) : ShowOutput(s, q \o over) \/ AnswerPrompt(s, q \o over)
  BY <1>2
<1> HIDE DEF q, r
<1> DEFINE b == q \o over
<1>4. /\ b \in Seq(Items) /\ Framed(b) /\ (Has(b, {"%"}) => Has(q, {"%"}))
      /\ \A k \in Nat : (\A i \in DOMAIN q : Rank(q[i]) = 2 * k)
                       => \A i \in DOMAIN b : Rank(b[i]) = 2 * k
  BY <1>q, TextOfRead, Zenon
<1>5. ASSUME NEW k \in Nat, OutputOf(wire[s], k)
      PROVE  /\ \A i \in DOMAIN b : Rank(b[i]) = 2 * k
             /\ OutputOf(r, k) /\ (Has(b, {"%"}) => r = << >>)
  BY <1>o, <1>4, <1>5, Zenon
<1>8. ShowOutput(s, b) \/ AnswerPrompt(s, b)
  BY <1>v
<1>s. Framed(column[s])
  BY <1>0 DEF SessionInv
<1> HIDE DEF b
<1>9. wire'[s] = r /\ \A u \in Sessions \ {s} : wire'[u] = wire[u]
  BY <1>0, <1>6 DEF Types, TypeOK
<1>10. wire' \in [Sessions -> Seq(Tokens)]
  BY <1>0, <1>q, <1>6 DEF Types, TypeOK
<1>11. phase \notin Early
  BY <1>1 DEF Inv, Beginning, Early
<1>12. ASSUME NEW m \in Nat, NEW text \in Seq(Items), Framed(text), HandleHttpResp(s, m, text)
       PROVE  /\ column'[s] = column[s] \o text
              /\ \A u \in Sessions \ {s} : column'[u] = column[u]
              /\ column' \in [Sessions -> Seq(Items)] /\ pending' \in Nat
              /\ garbled' \in [Sessions -> BOOLEAN] /\ Framed(column'[s])
  <2>1. column[s] \o text \in Seq(Items) /\ Framed(column[s] \o text)
    <3>1. column[s] \o text \in Seq(Items)
      BY <1>t, ConcatElements, Zenon
    <3>2. Framed(column[s] \o text)
      BY <1>t, <1>s, <1>12, FramedMore, Zenon
    <3> QED
      BY <3>1, <3>2
  <2>2. column' = [column EXCEPT ![s] = column[s] \o text]
    BY <1>12 DEF HandleHttpResp
  <2>3. /\ column'[s] = column[s] \o text
        /\ \A u \in Sessions \ {s} : column'[u] = column[u]
        /\ column' \in [Sessions -> Seq(Items)]
    BY <1>0, <2>1, <2>2 DEF Types, TypeOK
  <2>4. pending' \in Nat
    <3>1. pending \in Nat
      BY <1>0 DEF Types, TypeOK
    <3>2. pending' = 0 \/ pending' = pending + m
      BY <1>12 DEF HandleHttpResp, Writes
    <3> QED
      BY <3>1, <3>2
  <2>5. garbled' \in [Sessions -> BOOLEAN]
    <3>1. garbled \in [Sessions -> BOOLEAN]
      BY <1>0 DEF Types, TypeOK
    <3>2. PICK g \in BOOLEAN : garbled' = [garbled EXCEPT ![s] = g]
      <4>1. (garbled[s] \/ pending' > Room) \in BOOLEAN
        OBVIOUS
      <4>2. garbled' = [garbled EXCEPT ![s] = (garbled[s] \/ pending' > Room)]
        BY <1>12, Zenon DEF HandleHttpResp
      <4> QED
        BY <4>1, <4>2, Zenon
    <3> QED
      BY <3>1, <3>2
  <2> QED
    BY <2>1, <2>3, <2>4, <2>5, Zenon
<1>13. CASE ShowOutput(s, b)
  <2>1. /\ HandleHttpResp(s, 1, b) /\ npShellCommand' = [npShellCommand EXCEPT ![s] = ""]
        /\ UNCHANGED <<app, sent, inbox, fake>>
    BY <1>13 DEF ShowOutput, Set
  <2>2. /\ column'[s] = column[s] \o b
        /\ \A u \in Sessions \ {s} : column'[u] = column[u]
        /\ column' \in [Sessions -> Seq(Items)] /\ pending' \in Nat
        /\ garbled' \in [Sessions -> BOOLEAN] /\ Framed(column'[s])
    BY <1>4, <1>12, <2>1
  <2>3. /\ npShellCommand'[s] = "" /\ \A u \in Sessions \ {s} : npShellCommand'[u] = npShellCommand[u]
        /\ npShellCommand' \in [Sessions -> Lines \cup {""}]
    BY <1>0, <2>1 DEF Types, TypeOK
  <2>4. Types'
    BY <1>0, <1>1, <1>10, <2>1, <2>2, <2>3 DEF Types, TypeOK
  <2>5. \A u \in Sessions \ {s} : UNCHANGED View(u)
    BY <1>1, <1>9, <2>1, <2>2, <2>3 DEF View
  <2>6. SessionInv(s)'
    <3>1. Counted(s)'
      BY <1>0, <1>1, <2>1 DEF SessionInv, Counted
    <3>2. ASSUME ~fake'[s] PROVE InTurn(s)' /\ InOrder(s)' /\ Closing(s)'
      <4>1. InTurn(s) /\ InOrder(s)
        BY <1>0, <2>1, <3>2 DEF SessionInv
      <4>2. Len(inbox[s]) <= 1 /\ inbox[s] = << >> /\ OutputOf(wire[s], ran[s])
        BY <1>7, <4>1 DEF InTurn
      <4>3. ran[s] = sent[s]
        <5>1. ran[s] + 0 = sent[s]
          BY <1>0, <4>2, Nothing, Zenon DEF SessionInv, Counted
        <5> QED
          BY <1>t, <5>1
      <4>4. (\A i \in DOMAIN b : Rank(b[i]) = 2 * sent[s]) /\ OutputOf(r, ran[s])
        BY <1>t, <1>5, <4>2, <4>3
      <4>5. InTurn(s)'
        BY <1>1, <1>9, <2>1, <4>2, <4>4, Zenon DEF InTurn
      <4>6. Ascends(column[s] \o b, 2 * sent[s])
        <5>1. 2 * sent[s] \in Int /\ 2 * sent[s] <= 2 * sent[s]
          BY <1>t
        <5> QED
          BY <1>t, <1>4, <4>1, <4>4, <5>1, AscendsMore, Zenon DEF InOrder
      <4>7. InOrder(s)'
        BY <2>1, <2>2, <4>6 DEF InOrder
      <4>8. Closing(s)'
        BY <1>1, <2>1, <2>3 DEF Closing
      <4> QED
        BY <4>5, <4>7, <4>8
    <3> QED
      BY <1>1, <2>1, <2>2, <3>1, <3>2 DEF SessionInv, Framed, BehindFullBuffer
  <2> QED
    BY <1>1, <1>11, <2>4, <2>5, <2>6, OneSession
<1>14. CASE AnswerPrompt(s, b)
  <2>1. /\ fake' = [fake EXCEPT ![s] = (fake[s] \/ Has(b, {"p"}) \/ ~Has(b, {"%"}))]
        /\ app' = [app EXCEPT ![s] = "writing"]
    BY <1>14, Zenon DEF AnswerPrompt, Set
  <2>2. /\ fake' \in [Sessions -> BOOLEAN] /\ \A u \in Sessions \ {s} : fake'[u] = fake[u]
        /\ ~fake'[s] => ~fake[s] /\ Has(b, {"%"})
    <3>1. fake \in [Sessions -> BOOLEAN]
      BY <1>0 DEF Types, TypeOK
    <3>2. PICK g \in BOOLEAN : g = (fake[s] \/ Has(b, {"p"}) \/ ~Has(b, {"%"}))
      OBVIOUS
    <3>3. fake' = [fake EXCEPT ![s] = g]
      BY <2>1, <3>2, Zenon
    <3>4. /\ fake' \in [Sessions -> BOOLEAN] /\ \A u \in Sessions \ {s} : fake'[u] = fake[u]
          /\ fake'[s] = g
      BY <3>1, <3>3
    <3> QED
      BY <3>2, <3>4, Zenon
  <2>3. /\ app'[s] = "writing" /\ \A u \in Sessions \ {s} : app'[u] = app[u]
        /\ app' \in [Sessions -> {"none", "connecting", "reading", "writing", "closed"}]
    BY <1>0, <2>1 DEF Types, TypeOK
  <2>4. ASSUME ~fake'[s]
        PROVE  /\ InOrder(s) /\ r = << >> /\ inbox[s] = << >>
               /\ Ascends(column[s] \o b, 2 * sent[s])
    <3>1. ~fake[s] /\ Has(b, {"%"})
      BY <2>2, <2>4
    <3>2. InTurn(s) /\ InOrder(s)
      BY <1>0, <3>1 DEF SessionInv
    <3>3. inbox[s] = << >> /\ OutputOf(wire[s], ran[s])
      BY <1>7, <3>2 DEF InTurn
    <3>4. ran[s] = sent[s]
      <4>1. ran[s] + 0 = sent[s]
        BY <1>0, <3>3, Nothing, Zenon DEF SessionInv, Counted
      <4> QED
        BY <1>t, <4>1
    <3>5. (\A i \in DOMAIN b : Rank(b[i]) = 2 * sent[s]) /\ r = << >>
      BY <1>t, <1>5, <3>1, <3>3, <3>4
    <3>6. 2 * sent[s] \in Int /\ 2 * sent[s] <= 2 * sent[s]
      BY <1>t
    <3>7. Ascends(column[s] \o b, 2 * sent[s])
      BY <1>t, <1>4, <3>2, <3>5, <3>6, AscendsMore, Zenon DEF InOrder
    <3> QED
      BY <3>2, <3>3, <3>5, <3>7
  <2>5. CASE /\ CommandLeft(s)
             /\ sent' = [sent EXCEPT ![s] = @ + 1]
             /\ npShellCommand' = Set(npShellCommand, s, file[s][sent'[s]])
             /\ inbox' = [inbox EXCEPT ![s] = Append(@, file[s][sent'[s]])]
             /\ HandleHttpResp(s, 2, ShowBoth(b, << <<"echo", sent'[s]>> >>))
    <3> DEFINE k == sent[s] + 1
               c == file[s][k]
               e == << <<"echo", k>> >>
    <3>1. k \in Nat /\ k <= Len(file[s]) /\ c \in Lines
      BY <1>t, <2>5 DEF CommandLeft
    <3>2. e \in Seq(Items) /\ Len(e) = 1 /\ DOMAIN e = {1} /\ Rank(e[1]) = 2 * k - 1 /\ Framed(e)
      BY <3>1 DEF Items, Rank, Framed, Heap
    <3>3. /\ sent'[s] = k /\ \A u \in Sessions \ {s} : sent'[u] = sent[u]
          /\ sent' \in [Sessions -> Nat]
      BY <1>0, <2>5, <3>1 DEF Types
    <3> HIDE DEF e
    <3>4. /\ npShellCommand' = [npShellCommand EXCEPT ![s] = c]
          /\ inbox' = [inbox EXCEPT ![s] = Append(inbox[s], c)]
          /\ HandleHttpResp(s, 2, b \o e)
      BY <2>5, <3>3 DEF Set, ShowBoth, e
    <3> HIDE DEF c, k
    <3>5. /\ npShellCommand'[s] = c
          /\ \A u \in Sessions \ {s} : npShellCommand'[u] = npShellCommand[u]
          /\ npShellCommand' \in [Sessions -> Lines \cup {""}]
      BY <1>0, <3>1, <3>4 DEF Types, TypeOK
    <3>6. /\ inbox'[s] = Append(inbox[s], c)
          /\ \A u \in Sessions \ {s} : inbox'[u] = inbox[u]
          /\ inbox' \in [Sessions -> Seq(Lines)] /\ Len(inbox'[s]) = Len(inbox[s]) + 1
      <4>1. Append(inbox[s], c) \in Seq(Lines) /\ Len(Append(inbox[s], c)) = Len(inbox[s]) + 1
        BY <1>t, <3>1
      <4> QED
        BY <1>0, <3>4, <4>1 DEF Types, TypeOK
    <3>7. b \o e \in Seq(Items) /\ Framed(b \o e)
      <4>1. b \o e \in Seq(Items)
        BY <1>4, <3>2, ConcatElements, Zenon
      <4>2. Framed(b \o e)
        BY <1>4, <3>2, FramedMore, Zenon
      <4> QED
        BY <4>1, <4>2
    <3>8. /\ column'[s] = column[s] \o (b \o e)
          /\ \A u \in Sessions \ {s} : column'[u] = column[u]
          /\ column' \in [Sessions -> Seq(Items)] /\ pending' \in Nat
          /\ garbled' \in [Sessions -> BOOLEAN] /\ Framed(column'[s])
      BY <1>12, <3>4, <3>7
    <3>9. Types'
      <4>1. \A u \in Sessions : sent'[u] \in 0 .. Len(file[u]) /\ ran[u] \in 0 .. sent'[u]
        <5>1. ASSUME NEW u \in Sessions
              PROVE  sent'[u] \in 0 .. Len(file[u]) /\ ran[u] \in 0 .. sent'[u]
          <6>1. sent[u] \in 0 .. Len(file[u]) /\ ran[u] \in 0 .. sent[u]
            BY <1>0 DEF Types, TypeOK
          <6>2. CASE u = s
            <7>1. sent'[s] \in 0 .. Len(file[s])
              BY <1>t, <3>1, <3>3
            <7>2. ran[s] \in 0 .. sent'[s]
              BY <1>t, <3>3, <6>1, <6>2 DEF k
            <7> QED
              BY <6>2, <7>1, <7>2
          <6>3. CASE u # s
            BY <3>3, <6>1, <6>3
          <6> QED
            BY <6>2, <6>3
        <5> QED
          BY <5>1
      <4>2. \A u \in Sessions : sent'[u] \in 0 .. Len(file'[u]) /\ ran'[u] \in 0 .. sent'[u]
        BY <1>1, <4>1
      <4> QED
        BY <1>0, <1>1, <1>10, <2>2, <2>3, <3>3, <3>5, <3>6, <3>8, <4>2 DEF Types, TypeOK
    <3>10. \A u \in Sessions \ {s} : UNCHANGED View(u)
      BY <1>1, <1>9, <2>2, <2>3, <3>3, <3>5, <3>6, <3>8 DEF View
    <3>11. SessionInv(s)'
      <4>1. Counted(s)'
        <5>1. ran[s] + Len(inbox[s]) = sent[s] /\ ran'[s] = ran[s]
          BY <1>0, <1>1 DEF SessionInv, Counted
        <5>2. \A x, y \in Nat : x + (y + 1) = (x + y) + 1
          OBVIOUS
        <5>3. ran[s] + (Len(inbox[s]) + 1) = (ran[s] + Len(inbox[s])) + 1
          <6>1. ran[s] \in Nat /\ Len(inbox[s]) \in Nat
            BY <1>t, Zenon
          <6> QED
            BY <5>2, <6>1, Zenon
        <5> QED
          BY <3>3, <3>6, <5>1, <5>3, Zenon DEF Counted, k
      <4>2. ASSUME ~fake'[s] PROVE InTurn(s)' /\ InOrder(s)' /\ Closing(s)'
        <5>1. /\ r = << >> /\ inbox[s] = << >> /\ Ascends(column[s] \o b, 2 * sent[s])
          BY <2>4, <4>2
        <5>2. inbox'[s] = <<c>> /\ wire'[s] = << >> /\ Len(inbox'[s]) = 1
          <6>1. Append(<< >>, c) = <<c>> /\ Len(<<c>>) = 1
            OBVIOUS
          <6> QED
            BY <1>9, <3>6, <5>1, <6>1, Zenon
        <5>3. InTurn(s)'
          <6>1. DOMAIN wire'[s] = {}
            BY <5>2, Nothing, Zenon
          <6> QED
            BY <5>2, <6>1 DEF InTurn, OutputOf
        <5>4. InOrder(s)'
          <6>1. column[s] \in Seq(Items) /\ b \in Seq(Items) /\ e \in Seq(Items)
            BY <1>t, <1>4, <3>2, Zenon
          <6>2. \A i \in DOMAIN e : Rank(e[i]) = 2 * k - 1
            BY <3>2
          <6>3. 2 * sent[s] \in Int /\ 2 * k - 1 \in Int /\ 2 * sent[s] <= 2 * k - 1
            BY <1>t DEF k
          <6>4. Ascends(column'[s], 2 * k - 1)
            <7>1. Ascends(column[s] \o b, 2 * sent[s])
              BY <5>1
            <7> DEFINE low == 2 * sent[s]
                       high == 2 * k - 1
            <7>2. low \in Int /\ high \in Int /\ low <= high
              BY <6>3
            <7>3. Ascends(column[s] \o b, low) /\ \A i \in DOMAIN e : Rank(e[i]) = high
              BY <6>2, <7>1
            <7> HIDE DEF low, high
            <7>4. Ascends(column[s] \o (b \o e), high)
              BY <6>1, <7>2, <7>3, AscendsTwice
            <7> QED
              BY <3>8, <7>4, Zenon DEF high
          <6>5. Ascends(column'[s], 2 * k)
            <7>1. \A i \in DOMAIN column'[s] : Rank(column'[s][i]) \in Int
              <8>1. column'[s] \in Seq(Items)
                BY <3>8
              <8>2. \A i \in DOMAIN column'[s] : column'[s][i] \in Items
                BY <8>1
              <8> QED
                BY <8>2, RankType
            <7> QED
              BY <3>1, <6>4, <7>1 DEF Ascends
          <6> QED
            BY <3>3, <6>5 DEF InOrder
        <5>5. Closing(s)'
          BY <2>3, <3>5, <5>2 DEF Closing
        <5> QED
          BY <5>3, <5>4, <5>5
      <4> QED
        BY <2>3, <3>8, <4>1, <4>2 DEF SessionInv, Framed, BehindFullBuffer
    <3> QED
      BY <1>1, <1>11, <3>9, <3>10, <3>11, OneSession
  <2>6. CASE /\ ~CommandLeft(s)
             /\ npShellCommand' = Set(npShellCommand, s, "")
             /\ HandleHttpResp(s, 1, b)
             /\ UNCHANGED <<sent, inbox>>
    <3>1. /\ npShellCommand'[s] = ""
          /\ \A u \in Sessions \ {s} : npShellCommand'[u] = npShellCommand[u]
          /\ npShellCommand' \in [Sessions -> Lines \cup {""}]
      BY <1>0, <2>6 DEF Types, TypeOK, Set
    <3>2. /\ column'[s] = column[s] \o b
          /\ \A u \in Sessions \ {s} : column'[u] = column[u]
          /\ column' \in [Sessions -> Seq(Items)] /\ pending' \in Nat
          /\ garbled' \in [Sessions -> BOOLEAN] /\ Framed(column'[s])
      BY <1>4, <1>12, <2>6
    <3>3. Types'
      BY <1>0, <1>1, <1>10, <2>2, <2>3, <2>6, <3>1, <3>2 DEF Types, TypeOK
    <3>4. \A u \in Sessions \ {s} : UNCHANGED View(u)
      BY <1>1, <1>9, <2>2, <2>3, <2>6, <3>1, <3>2 DEF View
    <3>5. SessionInv(s)'
      <4>1. Counted(s)'
        BY <1>0, <1>1, <2>6 DEF SessionInv, Counted
      <4>2. ASSUME ~fake'[s] PROVE InTurn(s)' /\ InOrder(s)' /\ Closing(s)'
        <5>1. /\ r = << >> /\ inbox[s] = << >> /\ Ascends(column[s] \o b, 2 * sent[s])
          BY <2>4, <4>2
        <5>2. Len(inbox'[s]) = 0 /\ wire'[s] = << >> /\ DOMAIN wire'[s] = {}
          BY <1>9, <2>6, <5>1, Nothing, Zenon
        <5>3. InTurn(s)'
          BY <5>2 DEF InTurn, OutputOf
        <5>4. InOrder(s)'
          BY <2>6, <3>2, <5>1 DEF InOrder
        <5>5. Closing(s)'
          BY <2>3, <3>1 DEF Closing
        <5> QED
          BY <5>3, <5>4, <5>5
      <4> QED
        BY <2>3, <3>2, <4>1, <4>2 DEF SessionInv, Framed, BehindFullBuffer
    <3> QED
      BY <1>1, <1>11, <3>3, <3>4, <3>5, OneSession
  <2> QED
    BY <1>14, <2>5, <2>6, Zenon DEF AnswerPrompt
<1> QED
  BY <1>8, <1>13, <1>14

-----------------------------------------------------------------------------
(* The invariant is inductive.                                             *)

\* The steps of the HTTP side and of the browser.
LEMMA OthersKeep ==
    ASSUME Inv, Deliver \/ Leave \/ DoAccept \/ HandleHttpRequest \/ HeaderWritten \/ Over
    PROVE  Inv'
<1>0. Types
  BY DEF Inv
<1>1. /\ UNCHANGED <<file, console, column, wire, server, history>>
      /\ phase' \in {"listening", "accepted", "header", "page", "console", "over", "crashed"}
      /\ phase' \in Early => phase \in Early
      /\ path' \in Paths /\ gone' \in BOOLEAN
  BY <1>0 DEF Deliver, Leave, DoAccept, HandleHttpRequest, HeaderWritten, Over, session, browser,
     console, server, history, Early, Types, TypeOK, Paths
<1>2. pending' \in Nat
  <2>1. pending \in Nat
    BY <1>0 DEF Types, TypeOK
  <2>2. \/ pending' = pending \/ pending' = 0 \/ pending' = pending + 1
        \/ pending > 0 /\ pending' = pending - 1
    BY DEF Deliver, Leave, DoAccept, HandleHttpRequest, HeaderWritten, Over, Writes, browser
  <2> QED
    BY <2>1, <2>2
<1>3. Types'
  BY <1>0, <1>1, <1>2 DEF Types, TypeOK, console, server, history
<1> QED
  BY <1>1, <1>3, NoSession

\* The page is written and the sessions begin.
LEMMA PageWrittenKeeps ==
    ASSUME Inv, PageWritten
    PROVE  Inv'
<1>0. Types /\ Beginning /\ phase = "page"
  BY DEF Inv, PageWritten
<1>1. /\ UNCHANGED <<path, file, browser, sent, npShellCommand, wire, server, history>>
      /\ phase' \in {"over", "console"}
      /\ UNCHANGED app \/ app' = All("connecting")
  BY DEF PageWritten
<1>2. Types'
  <2>1. app' \in [Sessions -> {"none", "connecting", "reading", "writing", "closed"}]
    BY <1>0, <1>1 DEF All, Types, TypeOK
  <2> QED
    BY <1>0, <1>1, <2>1 DEF Types, TypeOK, browser, server, history
<1>3. ASSUME NEW s \in Sessions PROVE SessionInv(s)'
  <2>1. Fresh(s)'
    BY <1>0, <1>1 DEF Beginning, Fresh, browser, server
  <2> QED
    BY <2>1, FreshStays
<1>4. Beginning'
  BY <1>1 DEF Beginning
<1> QED
  BY <1>2, <1>3, <1>4 DEF Inv

\* One step of the proof for each action.
LEMMA InvNext == Inv /\ [Next]_vars => Inv'
<1> SUFFICES ASSUME Inv, [Next]_vars PROVE Inv'
  OBVIOUS
<1>1. CASE Serve \/ Deliver \/ Leave
  BY <1>1, OthersKeep, PageWrittenKeeps DEF Serve
<1>2. ASSUME NEW s \in Sessions, Console(s) PROVE Inv'
  BY <1>2, StartKeeps, DoReadKeeps, ReadEofKeeps, CommandWrittenKeeps DEF Console
<1>3. ASSUME NEW s \in Sessions, ServerRuns(s) \/ ServerCloses(s) PROVE Inv'
  BY <1>3, ServerRunsKeeps, ServerClosesKeeps
<1>4. CASE UNCHANGED vars
  <2>1. Types'
    BY <1>4 DEF Inv, Types, TypeOK, vars, session, browser, console, server, history
  <2> QED
    BY <1>4, <2>1, NoSession DEF vars, session, browser
<1> QED
  BY <1>1, <1>2, <1>3, <1>4 DEF Next

\* The inductive invariant holds.
THEOREM InvHolds == Spec => []Inv
  BY InvInit, InvNext, PTL DEF Spec

\* Type correctness: a session never reads more lines than its file has, and a
\* server never executes more commands than were sent.
THEOREM TypeCorrect == Spec => []TypeOK
<1>1. Inv => TypeOK
  BY DEF Inv, Types
<1> QED
  BY <1>1, InvHolds, PTL

\* However the network cuts what the servers send, and however the sessions take
\* turns on the browser's connection, each column reads like a terminal, and a
\* session that ends has shown all of it, while the browser is there, every per
\* cent sign was a prompt and every write had room; the end has two exceptions
\* more, a line that only mentions exit and a server that closes by itself.  Of
\* the heap, bytes stand only behind a full buffer (cgi_server.cpp:55-74, 81, 94).
THEOREM ColumnsAreTerminals == Spec => []ColumnsReadLikeTerminals
<1>1. ASSUME Inv PROVE ColumnsReadLikeTerminals
  <2> SUFFICES ASSUME NEW s \in Sessions
               PROVE  /\ Framed(column[s])
                      /\ ~fake[s] =>
                           /\ \A i, j \in DOMAIN column[s] :
                                i < j => Rank(column[s][i]) <= Rank(column[s][j])
                           /\ app[s] = "closed" =>
                                wire[s] = << >> \/ npShellCommand[s] = "mention" \/ closed[s]
    BY DEF ColumnsReadLikeTerminals, Framed
  <2>1. Framed(column[s]) /\ (~fake[s] => InOrder(s) /\ Closing(s))
    BY <1>1 DEF Inv, SessionInv
  <2> QED
    BY <2>1 DEF InOrder, Ascends, Closing
<1> QED
  BY <1>1, InvHolds, PTL
=============================================================================
