-------------------------- MODULE WebConsoleProofs --------------------------
(***************************************************************************)
(* Theorems about WebConsole, for every number of sessions, every file of  *)
(* commands, every output of the servers and every way in which the        *)
(* network cuts what they send.                                            *)
(***************************************************************************)
EXTENDS WebConsole, ProofFacts, SequenceTheorems

Tokens == {"L", "%", "blank"}

-----------------------------------------------------------------------------
(* How often the prompt occurs in a text.                                  *)

PromptsAt(b) == {i \in 1 .. Len(b) - 1 : b[i] = "%" /\ b[i + 1] = "blank"}

\* One, when the prompt is made by putting b behind a.
Join(a, b) == IF a # << >> /\ b # << >> /\ a[Len(a)] = "%" /\ b[1] = "blank" THEN 1 ELSE 0

LEMMA PromptsFinite ==
    ASSUME NEW b \in Seq(Tokens)
    PROVE  IsFiniteSet(PromptsAt(b)) /\ Prompts(b) = Cardinality(PromptsAt(b)) /\ Prompts(b) \in Nat
<1>1. IsFiniteSet(1 .. Len(b) - 1)
  BY FS_Interval
<1>2. PromptsAt(b) \subseteq 1 .. Len(b) - 1
  BY DEF PromptsAt
<1> QED
  BY <1>1, <1>2, SubsetSize DEF Prompts, PromptsAt

\* The prompts of two texts that are put together: those of the two, and
\* perhaps one where they meet.
LEMMA PromptsConcat ==
    ASSUME NEW a \in Seq(Tokens), NEW b \in Seq(Tokens)
    PROVE  Prompts(a \o b) = Prompts(a) + Prompts(b) + Join(a, b)
<1> DEFINE c == a \o b
           n == Len(a)
           B == {i \in PromptsAt(c) : i > n}
           J == {i \in PromptsAt(c) : i = n}
<1>1. /\ c \in Seq(Tokens) /\ n \in Nat /\ Len(b) \in Nat /\ Len(c) = n + Len(b)
      /\ \A i \in 1 .. n : c[i] = a[i]
      /\ \A i \in 1 .. Len(b) : c[n + i] = b[i]
  OBVIOUS
<1> HIDE DEF c, n
<1>a. \A i : i \in PromptsAt(a) <=> i \in 1 .. n - 1 /\ a[i] = "%" /\ a[i + 1] = "blank"
  BY DEF PromptsAt, n
<1>b. \A i : i \in PromptsAt(b) <=> i \in 1 .. Len(b) - 1 /\ b[i] = "%" /\ b[i + 1] = "blank"
  BY DEF PromptsAt
<1>c. \A i : i \in PromptsAt(c) <=> i \in 1 .. n + Len(b) - 1 /\ c[i] = "%" /\ c[i + 1] = "blank"
  BY <1>1 DEF PromptsAt
<1>2. PromptsAt(c) = (PromptsAt(a) \cup J) \cup B
  <2>1. ASSUME NEW i \in PromptsAt(c), i < n PROVE i \in PromptsAt(a)
    <3>1. i \in 1 .. n - 1 /\ i + 1 \in 1 .. n /\ c[i] = "%" /\ c[i + 1] = "blank"
      BY <1>1, <1>c, <2>1
    <3>2. c[i] = a[i] /\ c[i + 1] = a[i + 1]
      BY <1>1, <3>1
    <3> QED
      BY <1>a, <3>1, <3>2
  <2>2. ASSUME NEW i \in PromptsAt(a) PROVE i \in PromptsAt(c)
    <3>1. i \in 1 .. n - 1 /\ i + 1 \in 1 .. n /\ a[i] = "%" /\ a[i + 1] = "blank"
      BY <1>1, <1>a, <2>2
    <3>2. c[i] = a[i] /\ c[i + 1] = a[i + 1] /\ i \in 1 .. n + Len(b) - 1
      BY <1>1, <3>1
    <3> QED
      BY <1>c, <3>1, <3>2
  <2>3. \A i \in PromptsAt(c) : i \in Int
    BY <1>1, <1>c
  <2> QED
    BY <1>1, <2>1, <2>2, <2>3
<1>3. PromptsAt(a) \cap J = {} /\ (PromptsAt(a) \cup J) \cap B = {}
  BY <1>1, <1>a
<1>4. IsFiniteSet(J) /\ Cardinality(J) = Join(a, b)
  <2>1. n \in PromptsAt(c) <=> a # << >> /\ b # << >> /\ a[n] = "%" /\ b[1] = "blank"
    <3>1. n \in 1 .. Len(c) - 1 <=> n # 0 /\ Len(b) # 0
      BY <1>1
    <3>2. (n = 0 <=> a = << >>) /\ (Len(b) = 0 <=> b = << >>)
      BY DEF n
    <3>3. n # 0 /\ Len(b) # 0 => c[n] = a[n] /\ c[n + 1] = b[1]
      BY <1>1
    <3> QED
      BY <3>1, <3>2, <3>3 DEF PromptsAt
  <2>2. CASE n \in PromptsAt(c)
    <3>1. J = {n}
      BY <2>2
    <3> QED
      BY <2>1, <2>2, <3>1, FS_Singleton DEF Join, n
  <2>3. CASE n \notin PromptsAt(c)
    <3>1. J = {}
      BY <2>3
    <3> QED
      BY <2>1, <2>3, <3>1, FS_EmptySet DEF Join, n
  <2> QED
    BY <2>2, <2>3
<1>5. IsFiniteSet(B) /\ Cardinality(B) = Prompts(b)
  <2> DEFINE g == [i \in PromptsAt(b) |-> n + i]
  <2>1. \A i \in PromptsAt(b) : i \in Int
    BY <1>1, <1>b
  <2>2. ASSUME NEW i \in PromptsAt(b) PROVE n + i \in B
    <3>1. i \in 1 .. Len(b) - 1 /\ b[i] = "%" /\ b[i + 1] = "blank"
      BY <1>b
    <3>2. c[n + i] = "%" /\ c[n + (i + 1)] = "blank" /\ n + (i + 1) = (n + i) + 1
      BY <1>1, <3>1
    <3>3. n + i \in 1 .. n + Len(b) - 1 /\ n + i > n
      BY <1>1, <3>1
    <3>4. n + i \in PromptsAt(c)
      BY <1>c, <3>2, <3>3
    <3> QED
      BY <3>3, <3>4
  <2>3. ASSUME NEW j \in B PROVE \E i \in PromptsAt(b) : j = n + i
    <3>1. j \in n + 1 .. n + Len(b) - 1 /\ c[j] = "%" /\ c[j + 1] = "blank"
      BY <1>1, <1>c
    <3>2. j - n \in 1 .. Len(b) - 1 /\ j = n + (j - n) /\ j + 1 = n + (j - n + 1)
      BY <1>1, <3>1
    <3>3. b[j - n] = "%" /\ b[j - n + 1] = "blank"
      <4>1. j - n \in 1 .. Len(b) /\ j - n + 1 \in 1 .. Len(b)
        BY <1>1, <3>2
      <4>2. c[n + (j - n)] = b[j - n] /\ c[n + (j - n + 1)] = b[j - n + 1]
        BY <1>1, <4>1
      <4> QED
        BY <3>1, <3>2, <4>2
    <3> QED
      BY <1>b, <3>2, <3>3
  <2>4. g \in Bijection(PromptsAt(b), B)
    <3>1. g \in [PromptsAt(b) -> B]
      BY <2>2
    <3>2. \A i, j \in PromptsAt(b) : g[i] = g[j] => i = j
      BY <1>1, <2>1
    <3>3. \A j \in B : \E i \in PromptsAt(b) : g[i] = j
      BY <2>3
    <3> HIDE DEF g, B
    <3>4. g \in Injection(PromptsAt(b), B)
      BY <3>1, <3>2, Zenon DEF Injection, IsInjective
    <3>5. g \in Surjection(PromptsAt(b), B)
      BY <3>1, <3>3, Zenon DEF Surjection
    <3> QED
      BY <3>4, <3>5 DEF Bijection
  <2>5. ExistsBijection(PromptsAt(b), B)
    BY <2>4, Zenon DEF ExistsBijection
  <2> HIDE DEF B
  <2> QED
    BY <2>5, PromptsFinite, FS_Bijection
<1> HIDE DEF B, J
<1>6. /\ IsFiniteSet(PromptsAt(a) \cup J)
      /\ Cardinality(PromptsAt(a) \cup J) = Prompts(a) + Join(a, b)
  <2>1. Cardinality(PromptsAt(a) \cap J) = 0
    BY <1>3, FS_EmptySet
  <2>2. Join(a, b) \in Nat
    BY DEF Join
  <2>3. IsFiniteSet(PromptsAt(a)) /\ Cardinality(PromptsAt(a)) = Prompts(a) /\ Prompts(a) \in Nat
    BY PromptsFinite
  <2>4. /\ IsFiniteSet(PromptsAt(a) \cup J)
        /\ Cardinality(PromptsAt(a) \cup J)
             = Cardinality(PromptsAt(a)) + Cardinality(J) - Cardinality(PromptsAt(a) \cap J)
    BY <1>4, <2>3, FS_Union
  <2> QED
    BY <1>4, <2>1, <2>2, <2>3, <2>4
<1>7. Cardinality(PromptsAt(c)) = Prompts(a) + Join(a, b) + Prompts(b)
  <2>1. Cardinality((PromptsAt(a) \cup J) \cap B) = 0
    BY <1>3, FS_EmptySet
  <2>2. Join(a, b) \in Nat
    BY DEF Join
  <2>3. Prompts(a) \in Nat /\ Prompts(b) \in Nat
    BY PromptsFinite
  <2>4. Cardinality((PromptsAt(a) \cup J) \cup B)
          = Cardinality(PromptsAt(a) \cup J) + Cardinality(B) - Cardinality((PromptsAt(a) \cup J) \cap B)
    BY <1>5, <1>6, FS_Union
  <2> QED
    BY <1>2, <1>5, <1>6, <2>1, <2>2, <2>3, <2>4
<1>8. Prompts(c) = Cardinality(PromptsAt(c)) /\ Prompts(a) \in Nat /\ Prompts(b) \in Nat
  BY <1>1, PromptsFinite
<1>9. Join(a, b) \in Nat
  BY DEF Join
<1> QED
  BY <1>7, <1>8, <1>9 DEF c

\* A text that ends with a prompt, or is the second half of one.
Ending(b) == b # << >> => /\ b[Len(b)] = "blank"
                          /\ Len(b) >= 2 => b[Len(b) - 1] = "%"

\* What follows a part of such a text is such a text, and the text goes on to be
\* one when a server sends more.
LEMMA EndingKept ==
    ASSUME NEW a \in Seq(Tokens), NEW b \in Seq(Tokens)
    PROVE  /\ Ending(a \o b) => Ending(b)
           /\ Ending(a \o (b \o PromptTokens))
           /\ Ending(a) => Prompts(a \o b) = Prompts(a) + Prompts(b)
           /\ Prompts(b \o PromptTokens) = Prompts(b) + 1
           /\ b \o PromptTokens \in Seq(Tokens) /\ Len(b \o PromptTokens) = Len(b) + 2
<1>0. PromptTokens \in Seq(Tokens) /\ Len(PromptTokens) = 2
      /\ PromptTokens[1] = "%" /\ PromptTokens[2] = "blank"
  BY DEF PromptTokens, Tokens
<1> HIDE DEF Tokens
<1>1. ASSUME Ending(a \o b) PROVE Ending(b)
  <2> SUFFICES ASSUME b # << >>
               PROVE  b[Len(b)] = "blank" /\ (Len(b) >= 2 => b[Len(b) - 1] = "%")
    BY DEF Ending
  <2>1. a \o b # << >> /\ Len(a \o b) = Len(a) + Len(b) /\ Len(b) >= 1
    OBVIOUS
  <2>2. (a \o b)[Len(a) + Len(b)] = b[Len(b)]
    BY <2>1
  <2>3. Len(b) >= 2 => (a \o b)[Len(a) + Len(b) - 1] = b[Len(b) - 1]
    BY <2>1
  <2>4. Len(b) >= 2 => Len(a \o b) >= 2
    BY <2>1
  <2> QED
    BY <1>1, <2>1, <2>2, <2>3, <2>4 DEF Ending
<1>2. Ending(a \o (b \o PromptTokens))
  <2> DEFINE p == b \o PromptTokens
  <2>1. p \in Seq(Tokens) /\ Len(p) = Len(b) + 2 /\ p[Len(b) + 1] = "%" /\ p[Len(b) + 2] = "blank"
    <3>1. p \in Seq(Tokens) /\ Len(p) = Len(b) + Len(PromptTokens) /\ Len(b) \in Nat
      BY <1>0, ConcatElements, ZenonT(60)
    <3>2. \A i \in 1 .. Len(PromptTokens) : p[Len(b) + i] = PromptTokens[i]
      <4>1. \A x, y \in Seq(Tokens) : \A i \in 1 .. Len(y) : (x \o y)[Len(x) + i] = y[i]
        OBVIOUS
      <4> QED
        BY <1>0, <4>1, Zenon
    <3> HIDE DEF p
    <3> QED
      BY <1>0, <3>1, <3>2
  <2> HIDE DEF p
  <2>2. Len(a \o p) = Len(a) + Len(b) + 2
    BY <2>1
  <2>3. /\ (a \o p)[Len(a) + Len(b) + 1] = "%"
        /\ (a \o p)[Len(a) + Len(b) + 2] = "blank"
    <3>1. \A i \in 1 .. Len(b) + 2 : (a \o p)[Len(a) + i] = p[i]
      BY <2>1, ConcatElements
    <3>2. Len(b) + 1 \in 1 .. Len(b) + 2 /\ Len(b) + 2 \in 1 .. Len(b) + 2
      OBVIOUS
    <3>3. Len(a) + (Len(b) + 1) = Len(a) + Len(b) + 1 /\ Len(a) + (Len(b) + 2) = Len(a) + Len(b) + 2
      OBVIOUS
    <3> QED
      BY <2>1, <3>1, <3>2, <3>3
  <2>4. Ending(a \o p)
    BY <2>2, <2>3 DEF Ending
  <2> QED
    BY <2>4 DEF p
<1>3. ASSUME Ending(a) PROVE Prompts(a \o b) = Prompts(a) + Prompts(b)
  <2>1. Join(a, b) = 0
    BY <1>3 DEF Join, Ending
  <2> QED
    BY <2>1, PromptsConcat, PromptsFinite
<1>4. Prompts(b \o PromptTokens) = Prompts(b) + 1
  <2>1. Join(b, PromptTokens) = 0
    BY <1>0 DEF Join
  <2>2. Prompts(PromptTokens) = 1
    <3>1. PromptsAt(PromptTokens) = {1}
      BY <1>0 DEF PromptsAt
    <3> QED
      BY <1>0, <3>1, PromptsFinite, FS_Singleton
  <2> QED
    BY <1>0, <2>1, <2>2, PromptsConcat, PromptsFinite
<1>5. b \o PromptTokens \in Seq(Tokens) /\ Len(b \o PromptTokens) = Len(b) + 2
  <2>1. b \o PromptTokens \in Seq(Tokens) /\ Len(b \o PromptTokens) = Len(b) + Len(PromptTokens)
    BY <1>0, ConcatElements, ZenonT(60)
  <2> QED
    BY <1>0, <2>1, Zenon
<1> QED
  BY <1>1, <1>2, <1>3, <1>4, <1>5

\* Texts that are put together one after the other.
LEMMA TextsInTurn ==
    \A x, y, z \in Seq(Tokens) : (x \o y) \o z = x \o (y \o z)
  BY ConcatAssociative

\* A read takes the first n tokens of what is on the way.
LEMMA Cut ==
    ASSUME NEW o \in Seq(Tokens), NEW w \in Seq(Tokens), NEW n \in DOMAIN w
    PROVE  LET b == o \o SubSeq(w, 1, n)
               r == SubSeq(w, n + 1, Len(w))
           IN  /\ b \in Seq(Tokens) /\ r \in Seq(Tokens) /\ o \o w = b \o r
               /\ Len(b) = Len(o) + n /\ Len(r) = Len(w) - n
<1> DEFINE p == SubSeq(w, 1, n)
           r == SubSeq(w, n + 1, Len(w))
<1>1. n \in 1 .. Len(w) /\ Len(w) \in Nat /\ Len(o) \in Nat
  BY LenProperties, Zenon
<1>2. p \in Seq(Tokens) /\ Len(p) = n
  BY <1>1
<1>3. r \in Seq(Tokens) /\ Len(r) = Len(w) - n
  BY <1>1
<1>4. p \o r = w
  <2>1. 1 \in 1 .. Len(w) + 1 /\ n \in 1 - 1 .. Len(w) /\ Len(w) \in n .. Len(w)
    BY <1>1
  <2>2. p \o r = SubSeq(w, 1, Len(w))
    BY <2>1, ConcatAdjacentSubSeq, Zenon
  <2> QED
    BY <2>2, SubSeqFull, Zenon
<1> HIDE DEF p, r
<1>5. (o \o p) \o r = o \o (p \o r)
  BY <1>2, <1>3, TextsInTurn, ZenonT(60)
<1>6. o \o p \in Seq(Tokens) /\ Len(o \o p) = Len(o) + Len(p)
  BY <1>2, ConcatElements, Zenon
<1>7. /\ o \o p \in Seq(Tokens) /\ r \in Seq(Tokens) /\ o \o w = (o \o p) \o r
      /\ Len(o \o p) = Len(o) + n /\ Len(r) = Len(w) - n
  BY <1>2, <1>3, <1>4, <1>5, <1>6, Zenon
<1> QED
  BY <1>7, Zenon DEF p, r

\* The empty text.
LEMMA EmptyText ==
    /\ << >> \in Seq(Tokens) /\ Len(<< >>) = 0 /\ Prompts(<< >>) = 0 /\ Ending(<< >>)
    /\ \A b \in Seq(Tokens) : << >> \o b = b /\ b \o << >> = b
<1>1. PromptsAt(<< >>) = {}
  BY DEF PromptsAt
<1>2. << >> \in Seq(Tokens)
  OBVIOUS
<1>3. Prompts(<< >>) = 0
  BY <1>1, <1>2, PromptsFinite, FS_EmptySet
<1>4. \A b \in Seq(Tokens) : << >> \o b = b /\ b \o << >> = b
  BY ConcatEmptySeq
<1> QED
  BY <1>2, <1>3, <1>4 DEF Ending

\* What a server sends, with its prompt, behind a text that ends with a prompt.
LEMMA SendStep ==
    ASSUME NEW o \in Seq(Tokens), NEW w \in Seq(Tokens), NEW out \in Seq(Tokens), Ending(o \o w)
    PROVE  LET new == out \o PromptTokens
           IN  /\ w \o new \in Seq(Tokens) /\ Len(new) \in Nat /\ Len(w \o new) = Len(w) + Len(new)
               /\ Ending(o \o (w \o new))
               /\ Prompts(o \o (w \o new)) = Prompts(o \o w) + Prompts(out) + 1
<1> DEFINE new == out \o PromptTokens
<1>1. new \in Seq(Tokens) /\ Prompts(new) = Prompts(out) + 1
  BY EndingKept, Zenon
<1>2. o \o w \in Seq(Tokens)
  BY ConcatElements, Zenon
<1>3. Ending((o \o w) \o new)
  BY <1>2, EndingKept, Zenon
<1> HIDE DEF new
<1>4. Prompts((o \o w) \o new) = Prompts(o \o w) + Prompts(new)
  BY <1>1, <1>2, EndingKept, Zenon
<1>5. w \o new \in Seq(Tokens) /\ Len(new) \in Nat /\ Len(w \o new) = Len(w) + Len(new)
  BY <1>1, ConcatElements, Zenon
<1>6. (o \o w) \o new = o \o (w \o new)
  BY <1>1, TextsInTurn, ZenonT(60)
<1>7. Prompts(o \o w) \in Nat /\ Prompts(out) \in Nat
  BY <1>2, PromptsFinite, Zenon
<1>8. Prompts(o \o w) + Prompts(new) = Prompts(o \o w) + Prompts(out) + 1
  BY <1>1, <1>7
<1>9. /\ w \o new \in Seq(Tokens) /\ Len(new) \in Nat /\ Len(w \o new) = Len(w) + Len(new)
      /\ Ending(o \o (w \o new))
      /\ Prompts(o \o (w \o new)) = Prompts(o \o w) + Prompts(out) + 1
  BY <1>3, <1>4, <1>5, <1>6, <1>8, Zenon
<1> QED
  BY <1>9, Zenon DEF new

\* A text with one prompt, at its end, has nothing behind a part with a prompt.
LEMMA LastPrompt ==
    ASSUME NEW b \in Seq(Tokens), NEW r \in Seq(Tokens), Ending(b \o r),
           Prompts(b) > 0, Prompts(b \o r) = 1
    PROVE  r = << >>
<1>1. Prompts(r) = 0 /\ Join(b, r) = 0
  <2>1. Prompts(b) \in Nat /\ Prompts(r) \in Nat /\ Join(b, r) \in Nat
    BY PromptsFinite DEF Join
  <2> QED
    BY <2>1, PromptsConcat
<1>2. b # << >>
  BY EmptyText
<1> SUFFICES ASSUME r # << >> PROVE FALSE
  OBVIOUS
<1>3. Ending(r)
  BY EndingKept
<1>4. Len(r) \in Nat /\ Len(r) >= 1 /\ Len(b) \in Nat /\ Len(b) >= 1
  BY <1>2
<1>5. CASE Len(r) >= 2
  <2>1. Len(r) - 1 \in PromptsAt(r)
    BY <1>3, <1>4, <1>5 DEF Ending, PromptsAt
  <2>2. PromptsAt(r) = {}
    BY <1>1, PromptsFinite, FS_EmptySet
  <2> QED
    BY <2>1, <2>2
<1>6. CASE Len(r) = 1
  <2>1. r[1] = "blank"
    BY <1>3, <1>6 DEF Ending
  <2>2. Len(b \o r) = Len(b) + 1 /\ (b \o r)[Len(b)] = b[Len(b)] /\ b \o r # << >>
    <3>1. Len(b \o r) = Len(b) + Len(r) /\ \A i \in 1 .. Len(b) : (b \o r)[i] = b[i]
      BY ConcatElements, ZenonT(60)
    <3>2. Len(b) \in 1 .. Len(b)
      BY <1>4
    <3>3. b \o r # << >>
      <4>1. Len(b) + 1 # 0
        BY <1>4
      <4> QED
        BY <1>6, <3>1, <4>1, EmptyText, Zenon
    <3> QED
      BY <1>6, <3>1, <3>2, <3>3, Zenon
  <2> DEFINE c == b \o r
  <2>3. Len(c) = Len(b) + 1 /\ c[Len(b)] = b[Len(b)] /\ Ending(c) /\ c # << >>
    BY <2>2
  <2> HIDE DEF c
  <2>4. b[Len(b)] = "%"
    BY <1>4, <2>3 DEF Ending
  <2> QED
    BY <1>1, <1>2, <2>1, <2>4 DEF Join
<1>7. Len(r) = 1 \/ Len(r) >= 2
  <2>1. \A k \in Nat : k >= 1 => k = 1 \/ k >= 2
    OBVIOUS
  <2> QED
    BY <1>4, <2>1, Zenon
<1> QED
  BY <1>5, <1>6, <1>7, Zenon

-----------------------------------------------------------------------------
(* The inductive invariant, session by session.                            *)

\* What the server has sent and the console has not shown.
Stream(s) == shellOutput[s] \o wire[s]

\* A session that has not begun, or never will.
Unused(s) == /\ sent[s] = 0 /\ shown[s] = 0 /\ produced[s] = 0 /\ prompts[s] = 0 /\ fake[s] = 0
             /\ inbox[s] = << >> /\ wire[s] = << >> /\ shellOutput[s] = << >> /\ ~closed[s]

\* The server has prompted once for its greeting and once for every command it
\* has executed, except exit; the commands that are still to come are answers to
\* prompts that were shown.
SessionInv(s) ==
    /\ st[s] \in {"new", "failed"} => Unused(s)
    /\ st[s] \in {"open", "done"} =>
         prompts[s] = 1 + (sent[s] - Len(inbox[s])) - (IF closed[s] THEN 1 ELSE 0)
    /\ Ending(Stream(s))
    /\ sent[s] + Prompts(Stream(s)) <= prompts[s] + fake[s]
    /\ st[s] = "open" => shown[s] + Len(shellOutput[s]) + Len(wire[s]) = produced[s]
    /\ st[s] = "done" /\ fake[s] = 0 =>
         /\ inbox[s] = << >> \/ closed[s]
         /\ shown[s] + Len(shellOutput[s]) = produced[s]

Inv == TypeOK /\ \A s \in Sessions : SessionInv(s)

-----------------------------------------------------------------------------
(* The invariant is inductive.                                             *)

\* A step of one session leaves the others as they are.
OthersKept(s) ==
    \A r \in Sessions \ {s} :
        /\ st'[r] = st[r] /\ shellOutput'[r] = shellOutput[r] /\ sent'[r] = sent[r]
        /\ shown'[r] = shown[r] /\ wire'[r] = wire[r] /\ inbox'[r] = inbox[r]
        /\ closed'[r] = closed[r] /\ produced'[r] = produced[r]
        /\ prompts'[r] = prompts[r] /\ fake'[r] = fake[r]

LEMMA OneSession ==
    ASSUME NEW s \in Sessions, \A r \in Sessions : SessionInv(r), TypeOK',
           OthersKept(s), SessionInv(s)'
    PROVE  Inv'
<1>1. ASSUME NEW r \in Sessions \ {s} PROVE SessionInv(r)'
  <2>1. Stream(r)' = Stream(r) /\ Unused(r)' = Unused(r)
    BY DEF OthersKept, Stream, Unused
  <2>2. SessionInv(r)
    OBVIOUS
  <2> QED
    BY <2>1, <2>2, Zenon DEF OthersKept, SessionInv
<1>2. ASSUME NEW r \in Sessions PROVE SessionInv(r)'
  <2>1. CASE r = s
    BY <2>1
  <2>2. CASE r # s
    BY <1>1, <2>2
  <2> QED
    BY <2>1, <2>2
<1> QED
  BY <1>2 DEF Inv

LEMMA InvInit == Init => Inv
<1> SUFFICES ASSUME Init PROVE Inv
  OBVIOUS
<1>1. TypeOK
  <2>1. \A s \in Sessions : Len(File[s]) \in Nat
    BY SessionsAssumption
  <2> QED
    BY <2>1 DEF Init, TypeOK
<1>2. ASSUME NEW s \in Sessions PROVE SessionInv(s)
  <2>1. st[s] = "new" /\ Unused(s) /\ shellOutput[s] = << >> /\ wire[s] = << >>
    BY DEF Init, Unused
  <2>2. Stream(s) = << >>
    BY <2>1, EmptyText DEF Stream
  <2> QED
    BY <2>1, <2>2, EmptyText DEF SessionInv, Unused
<1> QED
  BY <1>1, <1>2 DEF Inv

\* What TypeOK says of one session.
SessionType(s) ==
    /\ st[s] \in {"new", "open", "done", "failed"}
    /\ shellOutput[s] \in Seq(Tokens) /\ wire[s] \in Seq(Tokens)
    /\ Len(shellOutput[s]) \in Nat /\ Len(wire[s]) \in Nat
    /\ sent[s] \in Nat /\ sent[s] <= Len(File[s]) /\ Len(File[s]) \in Nat
    /\ inbox[s] \in Seq({"run", "exit"}) /\ Len(inbox[s]) \in Nat
    /\ closed[s] \in BOOLEAN
    /\ shown[s] \in Nat /\ produced[s] \in Nat /\ prompts[s] \in Nat /\ fake[s] \in Nat
    /\ Stream(s) \in Seq(Tokens) /\ Prompts(Stream(s)) \in Nat

LEMMA TypeOfSession ==
    ASSUME TypeOK, NEW s \in Sessions
    PROVE  SessionType(s)
<1>1. /\ shellOutput[s] \in Seq(Tokens) /\ wire[s] \in Seq(Tokens)
      /\ inbox[s] \in Seq({"run", "exit"}) /\ File[s] \in Seq({"run", "exit"})
  BY SessionsAssumption DEF TypeOK, Tokens
<1>2. Stream(s) \in Seq(Tokens)
  BY <1>1, ConcatElements, Zenon DEF Stream
<1>3. Prompts(Stream(s)) \in Nat
  BY <1>2, PromptsFinite
<1>4. /\ Len(shellOutput[s]) \in Nat /\ Len(wire[s]) \in Nat
      /\ Len(inbox[s]) \in Nat /\ Len(File[s]) \in Nat
  BY <1>1, LenProperties, Zenon
<1>5. /\ st[s] \in {"new", "open", "done", "failed"} /\ sent[s] \in Nat
      /\ sent[s] <= Len(File[s]) /\ closed[s] \in BOOLEAN
      /\ shown[s] \in Nat /\ produced[s] \in Nat /\ prompts[s] \in Nat /\ fake[s] \in Nat
  BY DEF TypeOK
<1> QED
  BY <1>1, <1>2, <1>3, <1>4, <1>5 DEF SessionType

\* A server that sends a line of output and its prompt.
LEMMA SendsPrompt ==
    ASSUME TypeOK, NEW s \in Sessions, Ending(Stream(s)), NEW out \in Seq(Tokens), Sends(s, out, FALSE)
    PROVE  LET x == shellOutput[s] \o wire'[s]
           IN  /\ wire' \in [Sessions -> Seq(Tokens)] /\ Ending(x)
               /\ Prompts(x) = Prompts(Stream(s)) + Prompts(out) + 1
               /\ produced' \in [Sessions -> Nat] /\ prompts' \in [Sessions -> Nat]
               /\ fake' \in [Sessions -> Nat] /\ closed' \in [Sessions -> BOOLEAN]
               /\ ~closed'[s] /\ prompts'[s] = prompts[s] + 1
               /\ fake'[s] = fake[s] + Prompts(out) /\ Prompts(out) \in Nat
               /\ produced'[s] - Len(wire'[s]) = produced[s] - Len(wire[s])
<1> DEFINE new == out \o PromptTokens
<1>1. SessionType(s)
  BY TypeOfSession
<1>2. /\ wire[s] \o new \in Seq(Tokens) /\ Len(new) \in Nat
      /\ Len(wire[s] \o new) = Len(wire[s]) + Len(new)
      /\ Ending(shellOutput[s] \o (wire[s] \o new))
      /\ Prompts(shellOutput[s] \o (wire[s] \o new)) = Prompts(Stream(s)) + Prompts(out) + 1
  BY <1>1, SendStep, ZenonT(60) DEF SessionType, Stream
<1>3. Prompts(out) \in Nat
  BY PromptsFinite
<1>4. /\ wire' = [wire EXCEPT ![s] = wire[s] \o new]
      /\ produced' = [produced EXCEPT ![s] = produced[s] + Len(new)]
      /\ prompts' = [prompts EXCEPT ![s] = prompts[s] + 1]
      /\ fake' = [fake EXCEPT ![s] = fake[s] + Prompts(out)]
      /\ closed' = [closed EXCEPT ![s] = FALSE]
  BY Zenon DEF Sends, Set
<1> HIDE DEF new
<1>5. /\ wire \in [Sessions -> Seq(Tokens)] /\ produced \in [Sessions -> Nat]
      /\ prompts \in [Sessions -> Nat] /\ fake \in [Sessions -> Nat]
      /\ closed \in [Sessions -> BOOLEAN]
  BY DEF TypeOK, Tokens
<1> HIDE DEF Tokens
<1>6. wire'[s] = wire[s] \o new /\ wire' \in [Sessions -> Seq(Tokens)]
  BY <1>2, <1>4, <1>5, Zenon
<1>7. /\ produced' \in [Sessions -> Nat] /\ prompts' \in [Sessions -> Nat]
      /\ fake' \in [Sessions -> Nat] /\ produced'[s] = produced[s] + Len(new)
      /\ prompts'[s] = prompts[s] + 1 /\ fake'[s] = fake[s] + Prompts(out)
  BY <1>2, <1>3, <1>4, <1>5, SMTT(30)
<1>8. closed' \in [Sessions -> BOOLEAN] /\ closed'[s] = FALSE
  BY <1>4, <1>5
<1>9. produced'[s] - Len(wire'[s]) = produced[s] - Len(wire[s])
  <2>1. Len(wire'[s]) = Len(wire[s]) + Len(new)
    BY <1>2, <1>6, Zenon
  <2>2. produced[s] \in Nat /\ Len(wire[s]) \in Nat
    BY <1>1 DEF SessionType
  <2> QED
    BY <1>2, <1>7, <2>1, <2>2
<1> QED
  BY <1>2, <1>3, <1>6, <1>7, <1>8, <1>9, Zenon

\* A session that is opened, and greeted by its server.
LEMMA OpenedKeeps ==
    ASSUME Inv, NEW s \in Sessions, st[s] = "new", st' = Set(st, s, "open"), Greets(s),
           proxied' \in BOOLEAN, alive' \in BOOLEAN,
           UNCHANGED <<shellOutput, sent, shown, torn>>
    PROVE  Inv'
<1>1. TypeOK /\ (\A r \in Sessions : SessionInv(r)) /\ Unused(s) /\ SessionType(s)
  BY TypeOfSession, Zenon DEF Inv, SessionInv
<1>2. Stream(s) = << >> /\ Ending(Stream(s)) /\ Prompts(Stream(s)) = 0
  <2>1. shellOutput[s] = << >> /\ wire[s] = << >>
    BY <1>1 DEF Unused
  <2> QED
    BY <2>1, EmptyText DEF Stream
<1>3. <<"L">> \in Seq(Tokens) /\ Prompts(<<"L">>) = 0
  <2>1. <<"L">> \in Seq(Tokens) /\ PromptsAt(<<"L">>) = {}
    BY DEF Tokens, PromptsAt
  <2> QED
    BY <2>1, PromptsFinite, FS_EmptySet
<1>4. Sends(s, <<"L">>, FALSE) /\ inbox' = inbox
  BY DEF Greets, Newline
<1> DEFINE x == shellOutput[s] \o wire'[s]
<1>5. /\ wire' \in [Sessions -> Seq(Tokens)] /\ Ending(x)
      /\ Prompts(x) = Prompts(Stream(s)) + Prompts(<<"L">>) + 1
      /\ produced' \in [Sessions -> Nat] /\ prompts' \in [Sessions -> Nat]
      /\ fake' \in [Sessions -> Nat] /\ closed' \in [Sessions -> BOOLEAN]
      /\ ~closed'[s] /\ prompts'[s] = prompts[s] + 1
      /\ fake'[s] = fake[s] + Prompts(<<"L">>)
      /\ produced'[s] - Len(wire'[s]) = produced[s] - Len(wire[s])
  BY <1>1, <1>2, <1>3, <1>4, SendsPrompt, Zenon
<1>6. Stream(s)' = x
  BY DEF Stream
<1> HIDE DEF x
<1>7. st' \in [Sessions -> {"new", "open", "done", "failed"}] /\ st'[s] = "open"
  BY <1>1 DEF TypeOK, Set
<1>8. TypeOK'
  BY <1>1, <1>4, <1>5, <1>7 DEF TypeOK, Tokens
<1>9. OthersKept(s)
  BY <1>1, <1>4, Zenon DEF OthersKept, Sends, Set, TypeOK
<1>10. SessionInv(s)'
  <2>1. SessionType(s)'
    BY <1>8, TypeOfSession, PTL
  <2>2. /\ sent'[s] = 0 /\ shown'[s] = 0 /\ produced[s] = 0 /\ prompts[s] = 0 /\ fake[s] = 0
        /\ inbox'[s] = << >> /\ wire[s] = << >> /\ shellOutput'[s] = << >>
    BY <1>1, <1>4 DEF Unused
  <2>3. prompts'[s] = 1 /\ fake'[s] = 0 /\ Prompts(x) = 1
    BY <1>2, <1>3, <1>5, <2>2
  <2>4. prompts'[s] = 1 + (sent'[s] - Len(inbox'[s])) - (IF closed'[s] THEN 1 ELSE 0)
    BY <1>5, <2>2, <2>3
  <2>5. sent'[s] + Prompts(x) <= prompts'[s] + fake'[s]
    BY <2>2, <2>3
  <2>6. shown'[s] + Len(shellOutput'[s]) + Len(wire'[s]) = produced'[s]
    BY <1>5, <2>1, <2>2 DEF SessionType
  <2> QED
    BY <1>5, <1>6, <1>7, <2>4, <2>5, <2>6, Zenon DEF SessionInv
<1> QED
  BY <1>1, <1>8, <1>9, <1>10, OneSession, Zenon

\* A session that cannot be opened.
LEMMA FailedKeeps ==
    ASSUME Inv, NEW s \in Sessions, st[s] = "new", st' = Set(st, s, "failed"),
           proxied' \in BOOLEAN, alive' \in BOOLEAN,
           UNCHANGED <<server, shellOutput, sent, shown, torn>>
    PROVE  Inv'
<1>1. TypeOK /\ (\A r \in Sessions : SessionInv(r)) /\ SessionInv(s) /\ Unused(s)
  BY Zenon DEF Inv, SessionInv
<1>2. st' \in [Sessions -> {"new", "open", "done", "failed"}] /\ st'[s] = "failed"
  BY <1>1 DEF TypeOK, Set
<1>3. TypeOK'
  BY <1>1, <1>2 DEF TypeOK, server
<1>4. OthersKept(s)
  BY <1>1, Zenon DEF OthersKept, server, Set, TypeOK
<1>5. SessionInv(s)'
  <2>1. Unused(s)' /\ Stream(s)' = Stream(s) /\ Ending(Stream(s)) /\ sent' = sent
        /\ sent[s] + Prompts(Stream(s)) <= prompts[s] + fake[s] /\ prompts' = prompts /\ fake' = fake
    BY <1>1 DEF Unused, Stream, server, SessionInv
  <2> QED
    BY <1>2, <2>1, Zenon DEF SessionInv
<1> QED
  BY <1>1, <1>3, <1>4, <1>5, OneSession, Zenon

\* The server executes a command.
LEMMA ServerKeeps ==
    ASSUME Inv, NEW s \in Sessions, ServerRuns(s)
    PROVE  Inv'
<1>1. TypeOK /\ (\A r \in Sessions : SessionInv(r)) /\ SessionInv(s) /\ SessionType(s)
  BY TypeOfSession, Zenon DEF Inv
<1>2. /\ inbox[s] # << >> /\ closed[s] = FALSE /\ inbox' = [inbox EXCEPT ![s] = Tail(inbox[s])]
      /\ proxied' = proxied /\ alive' = alive /\ st' = st /\ shellOutput' = shellOutput
      /\ sent' = sent /\ shown' = shown /\ torn' = torn
  BY <1>1 DEF ServerRuns, console, SessionType
<1>3. /\ inbox' \in [Sessions -> Seq({"run", "exit"})] /\ Len(inbox'[s]) = Len(inbox[s]) - 1
  <2>1. Tail(inbox[s]) \in Seq({"run", "exit"}) /\ Len(Tail(inbox[s])) = Len(inbox[s]) - 1
    BY <1>1, <1>2, HeadTailProperties, Zenon DEF SessionType
  <2>2. inbox \in [Sessions -> Seq({"run", "exit"})]
    BY <1>1 DEF TypeOK
  <2> QED
    BY <1>2, <2>1, <2>2, Zenon
<1>4. st[s] \in {"open", "done"} /\ (st[s] = "done" => fake[s] # 0)
  BY <1>1, <1>2 DEF SessionInv, Unused, SessionType
<1>5. /\ prompts[s] = 1 + (sent[s] - Len(inbox[s])) /\ Ending(Stream(s))
      /\ sent[s] + Prompts(Stream(s)) <= prompts[s] + fake[s]
      /\ st[s] = "open" => shown[s] + Len(shellOutput[s]) + Len(wire[s]) = produced[s]
  <2>1. prompts[s] = 1 + (sent[s] - Len(inbox[s])) - (IF closed[s] THEN 1 ELSE 0)
    BY <1>1, <1>4, Zenon DEF SessionInv
  <2>2. prompts[s] = 1 + (sent[s] - Len(inbox[s]))
    BY <1>1, <1>2, <2>1 DEF SessionType
  <2> QED
    BY <1>1, <2>2, Zenon DEF SessionInv
<1>6. CASE Head(inbox[s]) = "exit" /\ Sends(s, << >>, TRUE)
  <2>1. /\ wire' = wire /\ produced' = produced /\ prompts' = prompts /\ fake' = fake
        /\ closed' = [closed EXCEPT ![s] = TRUE]
    <3>1. /\ wire' = [wire EXCEPT ![s] = wire[s] \o << >>]
          /\ produced' = [produced EXCEPT ![s] = produced[s] + Len(<< >>)]
          /\ prompts' = [prompts EXCEPT ![s] = prompts[s]]
          /\ fake' = [fake EXCEPT ![s] = fake[s] + Prompts(<< >>)]
          /\ closed' = [closed EXCEPT ![s] = TRUE]
      BY <1>6, Zenon DEF Sends, Set
    <3>2. /\ wire[s] \o << >> = wire[s] /\ produced[s] + Len(<< >>) = produced[s]
          /\ fake[s] + Prompts(<< >>) = fake[s]
      <4>1. wire[s] \o << >> = wire[s] /\ Prompts(<< >>) = 0 /\ Len(<< >>) = 0
        BY <1>1, EmptyText, Zenon DEF SessionType
      <4> QED
        BY <1>1, <4>1 DEF SessionType
    <3> QED
      BY <1>1, <3>1, <3>2 DEF TypeOK
  <2>2. TypeOK'
    BY <1>1, <1>2, <1>3, <2>1 DEF TypeOK
  <2>3. OthersKept(s)
    BY <1>1, <1>2, <2>1 DEF OthersKept, TypeOK
  <2>4. SessionInv(s)'
    <3>1. closed'[s] = TRUE /\ Stream(s)' = Stream(s)
      BY <1>1, <1>2, <2>1 DEF TypeOK, Stream
    <3>2. prompts'[s] = 1 + (sent'[s] - Len(inbox'[s])) - (IF closed'[s] THEN 1 ELSE 0)
      BY <1>1, <1>2, <1>3, <1>5, <2>1, <3>1 DEF SessionType
    <3> QED
      BY <1>2, <1>4, <1>5, <2>1, <3>1, <3>2, Zenon DEF SessionInv
  <2> QED
    BY <1>1, <2>2, <2>3, <2>4, OneSession, Zenon
<1>7. ASSUME NEW out \in Outputs[s], Sends(s, out, FALSE) PROVE Inv'
  <2>0. out \in Seq(Tokens)
    BY <1>7, SessionsAssumption DEF Tokens
  <2> DEFINE x == shellOutput[s] \o wire'[s]
  <2>1. /\ wire' \in [Sessions -> Seq(Tokens)] /\ Ending(x)
        /\ Prompts(x) = Prompts(Stream(s)) + Prompts(out) + 1
        /\ produced' \in [Sessions -> Nat] /\ prompts' \in [Sessions -> Nat]
        /\ fake' \in [Sessions -> Nat] /\ closed' \in [Sessions -> BOOLEAN]
        /\ ~closed'[s] /\ prompts'[s] = prompts[s] + 1
        /\ fake'[s] = fake[s] + Prompts(out) /\ Prompts(out) \in Nat
        /\ produced'[s] - Len(wire'[s]) = produced[s] - Len(wire[s])
    BY <1>1, <1>5, <1>7, <2>0, SendsPrompt, Zenon
  <2>2. Stream(s)' = x
    BY <1>2 DEF Stream
  <2> HIDE DEF x
  <2>3. TypeOK'
    BY <1>1, <1>2, <1>3, <2>1 DEF TypeOK, Tokens
  <2>4. OthersKept(s)
    BY <1>1, <1>2, <1>7, Zenon DEF OthersKept, TypeOK, Sends, Set
  <2>5. SessionInv(s)'
    <3>1. SessionType(s)'
      BY <2>3, TypeOfSession, PTL
    <3>n. /\ sent[s] \in Nat /\ Len(inbox[s]) \in Nat /\ prompts[s] \in Nat /\ fake[s] \in Nat
          /\ Prompts(Stream(s)) \in Nat /\ shown[s] \in Nat /\ produced[s] \in Nat
          /\ Len(shellOutput[s]) \in Nat /\ Len(wire[s]) \in Nat
      BY <1>1, Zenon DEF SessionType
    <3>m. /\ Prompts(x) = Prompts(Stream(s)) + Prompts(out) + 1 /\ closed'[s] = FALSE
          /\ prompts'[s] = prompts[s] + 1 /\ fake'[s] = fake[s] + Prompts(out) /\ Prompts(out) \in Nat
      BY <2>1, <3>1, Zenon DEF SessionType
    <3>k. /\ sent'[s] = sent[s] /\ shown'[s] = shown[s] /\ st'[s] = st[s]
          /\ Len(shellOutput'[s]) = Len(shellOutput[s]) /\ Len(inbox'[s]) = Len(inbox[s]) - 1
      BY <1>2, <1>3, Zenon
    <3>i. /\ prompts[s] = 1 + (sent[s] - Len(inbox[s]))
          /\ sent[s] + Prompts(Stream(s)) <= prompts[s] + fake[s]
          /\ st[s] = "open" => shown[s] + Len(shellOutput[s]) + Len(wire[s]) = produced[s]
      BY <1>5, Zenon
    <3>2. prompts'[s] = 1 + (sent'[s] - Len(inbox'[s])) - (IF closed'[s] THEN 1 ELSE 0)
      <4>1. \A p, k, l \in Nat : p = 1 + (k - l) => p + 1 = 1 + (k - (l - 1)) - 0
        OBVIOUS
      <4>2. (IF closed'[s] THEN 1 ELSE 0) = 0
        BY <3>m, Zenon
      <4>3. prompts[s] + 1 = 1 + (sent[s] - (Len(inbox[s]) - 1)) - 0
        <5>1. prompts[s] \in Nat /\ sent[s] \in Nat /\ Len(inbox[s]) \in Nat
          BY <3>n
        <5> QED
          BY <3>i, <4>1, <5>1, Zenon
      <4> QED
        BY <3>m, <3>k, <4>2, <4>3, Zenon
    <3>3. sent'[s] + Prompts(x) <= prompts'[s] + fake'[s]
      BY <3>n, <3>m, <3>k, <3>i, SMTT(30)
    <3>4. st'[s] = "open" => shown'[s] + Len(shellOutput'[s]) + Len(wire'[s]) = produced'[s]
      <4>1. produced'[s] - Len(wire'[s]) = produced[s] - Len(wire[s])
        BY <2>1, Zenon
      <4>2. Len(wire'[s]) \in Nat /\ produced'[s] \in Nat
        BY <3>1 DEF SessionType
      <4> QED
        <5>1. \A h, o, w \in Nat : h + o \in Nat /\ (h + o + w) - w = h + o
          OBVIOUS
        <5>a. \A q, v, k \in Nat : q - v = k => k + v = q
          OBVIOUS
        <5>2. /\ shown[s] \in Nat /\ Len(shellOutput[s]) \in Nat /\ Len(wire[s]) \in Nat
              /\ produced[s] \in Nat
          BY <3>n
        <5>3. shown[s] + Len(shellOutput[s]) + Len(wire[s]) = produced[s]
                => shown[s] + Len(shellOutput[s]) + Len(wire'[s]) = produced'[s]
          <6> SUFFICES ASSUME shown[s] + Len(shellOutput[s]) + Len(wire[s]) = produced[s]
                       PROVE  shown[s] + Len(shellOutput[s]) + Len(wire'[s]) = produced'[s]
            OBVIOUS
          <6>1. /\ shown[s] + Len(shellOutput[s]) \in Nat
                /\ (shown[s] + Len(shellOutput[s]) + Len(wire[s])) - Len(wire[s])
                     = shown[s] + Len(shellOutput[s])
            BY <5>1, <5>2, Zenon
          <6>2. produced'[s] - Len(wire'[s]) = shown[s] + Len(shellOutput[s])
            BY <4>1, <6>1, Zenon
          <6> QED
            BY <4>2, <5>a, <6>1, <6>2, Zenon
        <5> QED
          BY <3>k, <3>i, <5>3, Zenon
    <3>5. st'[s] = "done" => fake'[s] # 0
      BY <1>1, <1>2, <1>4, <2>1, SMTT(30) DEF SessionType
    <3> QED
      BY <1>2, <1>4, <2>1, <2>2, <3>2, <3>3, <3>4, <3>5, Zenon DEF SessionInv
  <2> QED
    BY <1>1, <2>3, <2>4, <2>5, OneSession, Zenon
<1> QED
  BY <1>6, <1>7, Zenon DEF ServerRuns

\* The prompts of what is read and of what is left.
LEMMA ReadStep ==
    ASSUME NEW b \in Seq(Tokens), NEW r \in Seq(Tokens), Ending(b \o r)
    PROVE  /\ Ending(r) /\ Prompts(b) \in Nat /\ Prompts(r) \in Nat /\ Prompts(b \o r) \in Nat
           /\ Prompts(b) + Prompts(r) <= Prompts(b \o r)
           /\ Prompts(b) > 0 /\ Prompts(b \o r) = 1 => r = << >>
<1>1. Ending(r)
  BY EndingKept, Zenon
<1>2. Prompts(b \o r) = Prompts(b) + Prompts(r) + Join(b, r)
  BY PromptsConcat, Zenon
<1>3. b \o r \in Seq(Tokens)
  BY ConcatElements, Zenon
<1>4. Prompts(b) \in Nat /\ Prompts(r) \in Nat /\ Prompts(b \o r) \in Nat
  BY <1>3, PromptsFinite, Zenon
<1>5. Join(b, r) \in Nat
  BY DEF Join
<1>6. Prompts(b) + Prompts(r) <= Prompts(b \o r)
  <2>1. \A x, y, z \in Nat : x + y <= x + y + z
    OBVIOUS
  <2> QED
    BY <1>2, <1>4, <1>5, <2>1, Zenon
<1>7. Prompts(b) > 0 /\ Prompts(b \o r) = 1 => r = << >>
  BY LastPrompt, Zenon
<1> QED
  BY <1>1, <1>4, <1>6, <1>7, Zenon

\* The session reads.
LEMMA ReceiveKeeps ==
    ASSUME Inv, NEW s \in Sessions, Receive(s)
    PROVE  Inv'
<1>1. TypeOK /\ (\A r \in Sessions : SessionInv(r)) /\ SessionInv(s) /\ SessionType(s)
  BY TypeOfSession, Zenon DEF Inv
<1>2. st[s] = "open"
  BY DEF Receive
<1>3. PICK n, b, r :
        /\ n \in DOMAIN wire[s]
        /\ b = shellOutput[s] \o SubSeq(wire[s], 1, n) /\ r = SubSeq(wire[s], n + 1, Len(wire[s]))
        /\ wire' = [wire EXCEPT ![s] = r]
        /\ ReadMore(s, b) \/ ShowOutput(s, b) \/ AnswerPrompt(s, b)
  BY Zenon DEF Receive
<1>4. /\ proxied' = proxied /\ alive' = alive /\ closed' = closed /\ produced' = produced
      /\ prompts' = prompts /\ fake' = fake
  BY DEF Receive
<1>5. /\ prompts[s] = 1 + (sent[s] - Len(inbox[s])) - (IF closed[s] THEN 1 ELSE 0)
      /\ Ending(Stream(s)) /\ sent[s] + Prompts(Stream(s)) <= prompts[s] + fake[s]
      /\ shown[s] + Len(shellOutput[s]) + Len(wire[s]) = produced[s]
  BY <1>1, <1>2, Zenon DEF SessionInv
<1>6. /\ b \in Seq(Tokens) /\ r \in Seq(Tokens) /\ Stream(s) = b \o r /\ Ending(r)
      /\ Len(b) \in Nat /\ Len(r) \in Nat
      /\ Len(b) + Len(r) = Len(shellOutput[s]) + Len(wire[s])
      /\ Prompts(b) \in Nat /\ Prompts(r) \in Nat /\ Prompts(Stream(s)) \in Nat
      /\ Prompts(b) + Prompts(r) <= Prompts(Stream(s))
      /\ Prompts(b) > 0 /\ Prompts(Stream(s)) = 1 => r = << >>
  <2>1. PICK o \in Seq(Tokens), w \in Seq(Tokens) : o = shellOutput[s] /\ w = wire[s]
    BY <1>1, Zenon DEF SessionType
  <2>2. /\ n \in DOMAIN w /\ b = o \o SubSeq(w, 1, n) /\ r = SubSeq(w, n + 1, Len(w))
        /\ Stream(s) = o \o w /\ Ending(o \o w)
    BY <1>3, <1>5, <2>1, Zenon DEF Stream
  <2>3. /\ b \in Seq(Tokens) /\ r \in Seq(Tokens) /\ o \o w = b \o r
        /\ Len(b) = Len(o) + n /\ Len(r) = Len(w) - n
    BY <2>2, Cut, Zenon
  <2>4. Ending(b \o r)
    BY <2>2, <2>3, Zenon
  <2>5. Len(b) \in Nat /\ Len(r) \in Nat /\ Len(b) + Len(r) = Len(o) + Len(w)
    <3>1. n \in 1 .. Len(w) /\ Len(o) \in Nat /\ Len(w) \in Nat /\ Len(b) \in Nat /\ Len(r) \in Nat
      BY <2>2, <2>3, LenProperties, Zenon
    <3>2. PICK x \in Nat, y \in Nat : x = Len(o) /\ y = Len(w)
      BY <3>1, Zenon
    <3>3. (x + n) + (y - n) = x + y
      BY <3>1
    <3> QED
      BY <2>3, <3>1, <3>2, <3>3, Zenon
  <2>6. /\ Ending(r) /\ Prompts(b) \in Nat /\ Prompts(r) \in Nat /\ Prompts(b \o r) \in Nat
        /\ Prompts(b) + Prompts(r) <= Prompts(b \o r)
        /\ Prompts(b) > 0 /\ Prompts(b \o r) = 1 => r = << >>
    BY <2>3, <2>4, ReadStep, Zenon
  <2> QED
    BY <2>1, <2>2, <2>3, <2>5, <2>6, Zenon
<1>7. wire'[s] = r /\ wire' \in [Sessions -> Seq(Tokens)]
  <2>1. wire \in [Sessions -> Seq(Tokens)]
    BY <1>1 DEF TypeOK, Tokens
  <2> QED
    BY <1>3, <1>6, <2>1, Zenon
\* The numbers, named.
<1>8. PICK lb \in Nat, lr \in Nat, ps \in Nat, pb \in Nat, pr \in Nat :
        lb = Len(b) /\ lr = Len(r) /\ ps = Prompts(Stream(s)) /\ pb = Prompts(b) /\ pr = Prompts(r)
  BY <1>6, Zenon
<1>9. PICK k \in Nat, l \in Nat, f \in Nat, p \in Nat, h \in Nat, q \in Nat, c \in {0, 1} :
        /\ k = sent[s] /\ l = Len(inbox[s]) /\ f = fake[s] /\ p = prompts[s] /\ h = shown[s]
        /\ q = produced[s] /\ c = IF closed[s] THEN 1 ELSE 0
  <2>1. (IF closed[s] THEN 1 ELSE 0) \in {0, 1}
    OBVIOUS
  <2> QED
    BY <1>1, <2>1, Zenon DEF SessionType
<1>10. pb + pr <= ps /\ p = 1 + (k - l) - c /\ k + ps <= p + f
  BY <1>5, <1>6, <1>8, <1>9, Zenon
<1>11. h + (lb + lr) = q
  <2>1. PICK x \in Nat, y \in Nat : x = Len(shellOutput[s]) /\ y = Len(wire[s])
    BY <1>1, Zenon DEF SessionType
  <2>2. h + x + y = q /\ lb + lr = x + y
    BY <1>5, <1>6, <1>8, <1>9, <2>1, Zenon
  <2> QED
    BY <2>2
<1>12. \A x \in Seq(Tokens) : x = b => x \o r = Stream(s)
  BY <1>6, Zenon
<1>13. << >> \o r = r /\ << >> \in Seq(Tokens) /\ Len(<< >>) = 0
  BY <1>6, EmptyText, Zenon
<1>14. shellOutput \in [Sessions -> Seq(Tokens)]
  BY <1>1 DEF TypeOK, Tokens
<1>15. CASE ReadMore(s, b)
  <2>1. /\ shellOutput' = [shellOutput EXCEPT ![s] = b] /\ st' = st /\ sent' = sent
        /\ inbox' = inbox /\ shown' = shown /\ torn' = torn
    BY <1>15, Zenon DEF ReadMore, Set
  <2>2. shellOutput'[s] = b /\ shellOutput' \in [Sessions -> Seq(Tokens)]
    BY <1>6, <1>14, <2>1, Zenon
  <2>3. TypeOK'
    BY <1>1, <1>4, <1>7, <2>1, <2>2 DEF TypeOK, Tokens
  <2>4. OthersKept(s)
    BY <1>1, <1>3, <1>4, <2>1, Zenon DEF OthersKept, TypeOK
  <2>5. SessionInv(s)'
    <3>1. Stream(s)' = Stream(s)
      BY <1>6, <1>7, <2>2, Zenon DEF Stream
    <3>2. shown'[s] + Len(shellOutput'[s]) + Len(wire'[s]) = produced'[s]
      <4>1. h + lb + lr = q
        BY <1>11
      <4> QED
        BY <1>4, <1>7, <1>8, <1>9, <2>1, <2>2, <4>1, Zenon
    <3>3. st'[s] = "open"
      BY <1>2, <2>1, Zenon
    <3>4. /\ prompts'[s] = 1 + (sent'[s] - Len(inbox'[s])) - (IF closed'[s] THEN 1 ELSE 0)
          /\ Ending(Stream(s)') /\ sent'[s] + Prompts(Stream(s)') <= prompts'[s] + fake'[s]
      BY <1>4, <1>5, <2>1, <3>1, Zenon
    <3> QED
      BY <3>2, <3>3, <3>4, Zenon DEF SessionInv
  <2> QED
    BY <1>1, <2>3, <2>4, <2>5, OneSession, Zenon
\* What the three ways to show the output have in common.
<1>16. ASSUME shellOutput' = [shellOutput EXCEPT ![s] = << >>],
              shown' = [shown EXCEPT ![s] = shown[s] + Len(b)]
       PROVE  /\ shellOutput' \in [Sessions -> Seq(Tokens)] /\ shown' \in [Sessions -> Nat]
              /\ Stream(s)' = r /\ shown'[s] = h + lb /\ Len(shellOutput'[s]) = 0
              /\ shown'[s] + Len(shellOutput'[s]) + Len(wire'[s]) = produced'[s]
              /\ shown'[s] + Len(shellOutput'[s]) = h + lb
  <2>1. shellOutput' \in [Sessions -> Seq(Tokens)] /\ shellOutput'[s] = << >>
    BY <1>13, <1>14, <1>16, Zenon
  <2>2. Stream(s)' = r
    BY <1>7, <1>13, <2>1, Zenon DEF Stream
  <2>3. h + lb \in Nat /\ h + lb + 0 + lr = q /\ h + lb + 0 = h + lb
    BY <1>11
  <2>4. shown' \in [Sessions -> Nat] /\ shown'[s] = h + lb
    <3>1. shown \in [Sessions -> Nat]
      BY <1>1 DEF TypeOK
    <3> QED
      BY <1>8, <1>9, <1>16, <2>3, <3>1, Zenon
  <2> QED
    BY <1>4, <1>7, <1>8, <1>9, <1>13, <2>1, <2>2, <2>3, <2>4, Zenon
<1>17. CASE ShowOutput(s, b)
  <2>1. /\ shellOutput' = [shellOutput EXCEPT ![s] = << >>] /\ st' = st /\ sent' = sent
        /\ inbox' = inbox /\ shown' = [shown EXCEPT ![s] = shown[s] + Len(b)]
    BY <1>17, Zenon DEF ShowOutput, Set, Shown, Cleared
  <2>2. torn' \in [Sessions -> BOOLEAN]
    BY <1>1, <1>17 DEF ShowOutput, TypeOK
  <2>3. /\ shellOutput' \in [Sessions -> Seq(Tokens)] /\ shown' \in [Sessions -> Nat]
        /\ Stream(s)' = r /\ shown'[s] + Len(shellOutput'[s]) + Len(wire'[s]) = produced'[s]
    BY <1>16, <2>1, Zenon
  <2>4. TypeOK'
    BY <1>1, <1>4, <1>7, <2>1, <2>2, <2>3 DEF TypeOK, Tokens
  <2>5. OthersKept(s)
    BY <1>1, <1>3, <1>4, <2>1, Zenon DEF OthersKept, TypeOK
  <2>6. SessionInv(s)'
    <3>1. st'[s] = "open" /\ prompts'[s] = p /\ sent'[s] = k /\ fake'[s] = f
      BY <1>2, <1>4, <1>9, <2>1, Zenon
    <3>2. prompts'[s] = 1 + (sent'[s] - Len(inbox'[s])) - (IF closed'[s] THEN 1 ELSE 0)
      BY <1>4, <1>5, <2>1, Zenon
    <3>3. k + pr <= p + f
      BY <1>10
    <3> QED
      BY <1>6, <1>8, <2>3, <3>1, <3>2, <3>3, Zenon DEF SessionInv
  <2> QED
    BY <1>1, <2>4, <2>5, <2>6, OneSession, Zenon
<1>18. CASE /\ AnswerPrompt(s, b) /\ CommandLeft(s)
  <2>1. /\ shellOutput' = [shellOutput EXCEPT ![s] = << >>] /\ st' = st
        /\ sent' = [sent EXCEPT ![s] = sent[s] + 1]
        /\ inbox' = [inbox EXCEPT ![s] = Append(inbox[s], File[s][sent'[s]])]
        /\ shown' = [shown EXCEPT ![s] = shown[s] + Len(b)] /\ Prompts(b) > 0
    BY <1>18, Zenon DEF AnswerPrompt, Set, Shown, Cleared
  <2>2. torn' \in [Sessions -> BOOLEAN]
    BY <1>1, <1>18 DEF AnswerPrompt, TypeOK
  <2>3. /\ shellOutput' \in [Sessions -> Seq(Tokens)] /\ shown' \in [Sessions -> Nat]
        /\ Stream(s)' = r /\ shown'[s] + Len(shellOutput'[s]) + Len(wire'[s]) = produced'[s]
    BY <1>16, <2>1, Zenon
  <2>4. /\ sent' \in [Sessions -> Nat] /\ sent'[s] = k + 1
        /\ \A x \in Sessions : sent'[x] <= Len(File[x])
    <3>1. sent \in [Sessions -> Nat] /\ \A x \in Sessions : sent[x] <= Len(File[x])
      BY <1>1 DEF TypeOK
    <3>2. k + 1 \in Nat /\ k + 1 <= Len(File[s])
      BY <1>1, <1>9, <1>18, SMTT(30) DEF CommandLeft, SessionType
    <3> QED
      BY <1>9, <2>1, <3>1, <3>2, Zenon
  <2>5. inbox' \in [Sessions -> Seq({"run", "exit"})] /\ Len(inbox'[s]) = l + 1
    <3>1. sent'[s] \in 1 .. Len(File[s])
      BY <1>9, <2>4
    <3>2. File[s][sent'[s]] \in {"run", "exit"}
      BY <3>1, SessionsAssumption
    <3>3. inbox \in [Sessions -> Seq({"run", "exit"})]
      BY <1>1 DEF TypeOK
    <3>4. inbox[s] \in Seq({"run", "exit"})
      BY <3>3
    <3>5. /\ Append(inbox[s], File[s][sent'[s]]) \in Seq({"run", "exit"})
          /\ Len(Append(inbox[s], File[s][sent'[s]])) = Len(inbox[s]) + 1
      BY <3>2, <3>4, AppendProperties, ZenonT(60)
    <3> QED
      BY <1>9, <2>1, <3>3, <3>5, Zenon
  <2>6. TypeOK'
    BY <1>1, <1>4, <1>7, <2>1, <2>2, <2>3, <2>4, <2>5 DEF TypeOK, Tokens
  <2>7. OthersKept(s)
    BY <1>1, <1>3, <1>4, <2>1, Zenon DEF OthersKept, TypeOK
  <2>8. SessionInv(s)'
    <3>1. st'[s] = "open" /\ prompts'[s] = p /\ fake'[s] = f /\ (IF closed'[s] THEN 1 ELSE 0) = c
      BY <1>2, <1>4, <1>9, <2>1, Zenon
    <3>2. p = 1 + ((k + 1) - (l + 1)) - c /\ (k + 1) + pr <= p + f
      <4>1. pb > 0
        BY <1>8, <2>1, Zenon
      <4> QED
        BY <1>10, <4>1
    <3> QED
      BY <1>6, <1>8, <2>3, <2>4, <2>5, <3>1, <3>2, Zenon DEF SessionInv
  <2> QED
    BY <1>1, <2>6, <2>7, <2>8, OneSession, Zenon
<1>19. CASE /\ AnswerPrompt(s, b) /\ ~CommandLeft(s)
  <2>1. /\ shellOutput' = [shellOutput EXCEPT ![s] = << >>] /\ st' = [st EXCEPT ![s] = "done"]
        /\ sent' = sent /\ inbox' = inbox /\ torn' = torn
        /\ shown' = [shown EXCEPT ![s] = shown[s] + Len(b)] /\ Prompts(b) > 0
    BY <1>19, Zenon DEF AnswerPrompt, Set, Shown
  <2>2. /\ shellOutput' \in [Sessions -> Seq(Tokens)] /\ shown' \in [Sessions -> Nat]
        /\ Stream(s)' = r /\ shown'[s] + Len(shellOutput'[s]) = h + lb
    BY <1>16, <2>1, Zenon
  <2>3. st' \in [Sessions -> {"new", "open", "done", "failed"}] /\ st'[s] = "done"
    BY <1>1, <2>1 DEF TypeOK
  <2>4. TypeOK'
    BY <1>1, <1>4, <1>7, <2>1, <2>2, <2>3 DEF TypeOK, Tokens
  <2>5. OthersKept(s)
    BY <1>1, <1>3, <1>4, <2>1, Zenon DEF OthersKept, TypeOK
  <2>6. SessionInv(s)'
    <3>1. prompts'[s] = p /\ sent'[s] = k /\ fake'[s] = f /\ produced'[s] = q
      BY <1>4, <1>9, <2>1, Zenon
    <3>2. prompts'[s] = 1 + (sent'[s] - Len(inbox'[s])) - (IF closed'[s] THEN 1 ELSE 0)
      BY <1>4, <1>5, <2>1, Zenon
    <3>3. pb > 0
      BY <1>8, <2>1, Zenon
    <3>4. k + pr <= p + f
      BY <1>10
    \* Without output that looks like a prompt this was the last prompt.
    <3>5. ASSUME f = 0 PROVE l = 0 /\ ps = 1
      BY <1>10, <3>3, <3>5
    <3>6. ASSUME f = 0 PROVE inbox'[s] = << >> /\ h + lb = q
      <4>1. inbox[s] = << >>
        <5>1. Len(inbox[s]) = 0 /\ inbox[s] \in Seq({"run", "exit"})
          BY <1>1, <1>9, <3>5, <3>6, Zenon DEF SessionType
        <5> QED
          BY <5>1
      <4>2. r = << >>
        BY <1>6, <1>8, <2>1, <3>5, <3>6, Zenon
      <4>3. lr = 0
        BY <1>8, <1>13, <4>2, Zenon
      <4> QED
        BY <1>11, <2>1, <4>1, <4>3
    <3> QED
      BY <1>6, <1>8, <2>2, <2>3, <3>1, <3>2, <3>4, <3>6, Zenon DEF SessionInv
  <2> QED
    BY <1>1, <2>4, <2>5, <2>6, OneSession, Zenon
<1> QED
  BY <1>3, <1>15, <1>17, <1>18, <1>19, Zenon

\* The server has closed the connection, and all it sent was read.
LEMMA EofKeeps ==
    ASSUME Inv, NEW s \in Sessions, ReceiveEof(s)
    PROVE  Inv'
<1>1. TypeOK /\ (\A r \in Sessions : SessionInv(r)) /\ SessionInv(s) /\ SessionType(s)
  BY TypeOfSession, Zenon DEF Inv
<1>2. /\ st[s] = "open" /\ wire[s] = << >> /\ closed[s] /\ st' = [st EXCEPT ![s] = "done"]
      /\ proxied' = proxied /\ alive' = alive /\ wire' = wire /\ inbox' = inbox
      /\ closed' = closed /\ produced' = produced /\ prompts' = prompts /\ fake' = fake
      /\ shellOutput' = shellOutput /\ sent' = sent /\ shown' = shown /\ torn' = torn
  BY DEF ReceiveEof, server, Set
<1>3. TypeOK' /\ st'[s] = "done"
  BY <1>1, <1>2 DEF TypeOK
<1>4. OthersKept(s)
  BY <1>1, <1>2 DEF OthersKept, TypeOK
<1>5. SessionInv(s)'
  <2>1. Stream(s)' = Stream(s)
    BY <1>2 DEF Stream
  <2>2. shown'[s] + Len(shellOutput'[s]) = produced'[s]
    <3>1. shown[s] + Len(shellOutput[s]) + Len(wire[s]) = produced[s] /\ Len(wire[s]) = 0
      BY <1>1, <1>2, EmptyText, Zenon DEF SessionInv
    <3>2. shown[s] \in Nat /\ Len(shellOutput[s]) \in Nat
      BY <1>1 DEF SessionType
    <3>3. shown[s] + Len(shellOutput[s]) = produced[s]
      BY <3>1, <3>2
    <3> QED
      BY <1>2, <3>3, Zenon
  <2>3. /\ prompts'[s] = 1 + (sent'[s] - Len(inbox'[s])) - (IF closed'[s] THEN 1 ELSE 0)
        /\ Ending(Stream(s)) /\ sent'[s] + Prompts(Stream(s)) <= prompts'[s] + fake'[s]
    BY <1>1, <1>2, Zenon DEF SessionInv
  <2> QED
    BY <1>2, <1>3, <2>1, <2>2, <2>3, Zenon DEF SessionInv
<1> QED
  BY <1>1, <1>3, <1>4, <1>5, OneSession, Zenon

LEMMA InvNext == Inv /\ [Next]_vars => Inv'
<1> SUFFICES ASSUME Inv, [Next]_vars PROVE Inv'
  OBVIOUS
<1>0. ASSUME UNCHANGED <<st, server, shellOutput, sent, shown, torn>>,
             proxied' \in BOOLEAN, alive' \in BOOLEAN
      PROVE  Inv'
  <2>1. TypeOK'
    BY <1>0 DEF Inv, TypeOK, server
  <2>2. ASSUME NEW s \in Sessions PROVE SessionInv(s)'
    <3>1. Stream(s)' = Stream(s) /\ Unused(s)' = Unused(s) /\ SessionInv(s)
      BY <1>0 DEF Inv, Stream, Unused, server
    <3> QED
      BY <1>0, <3>1, Zenon DEF SessionInv, server
  <2> QED
    BY <2>1, <2>2 DEF Inv
<1>1. proxied \in BOOLEAN /\ alive \in BOOLEAN
  BY DEF Inv, TypeOK
<1>2. ASSUME NEW s \in Sessions, Run(s) PROVE Inv'
  <2>1. /\ st[s] = "new" /\ proxied' = proxied /\ alive' = alive
        /\ UNCHANGED <<shellOutput, sent, shown, torn>>
    BY <1>2 DEF Run
  <2>2. CASE st' = Set(st, s, "open") /\ Greets(s)
    BY <1>1, <2>1, <2>2, OpenedKeeps, Zenon
  <2>3. CASE st' = Set(st, s, "failed") /\ UNCHANGED server
    BY <1>1, <2>1, <2>3, FailedKeeps
  <2> QED
    BY <1>2, <2>2, <2>3, Zenon DEF Run
<1>3. ASSUME NEW s \in Sessions, ConnectProxy(s) PROVE Inv'
  <2>1. st[s] = "new" /\ proxied' = proxied /\ UNCHANGED <<shellOutput, sent, shown, torn>>
    BY <1>3 DEF ConnectProxy
  <2>2. CASE st' = Set(st, s, "open") /\ Greets(s) /\ alive' = alive
    BY <1>1, <2>1, <2>2, OpenedKeeps, Zenon
  <2>3. CASE st' = Set(st, s, "failed") /\ UNCHANGED <<alive, server>>
    BY <1>1, <2>1, <2>3, FailedKeeps
  <2>4. CASE alive' = FALSE /\ UNCHANGED <<st, server>>
    BY <1>0, <1>1, <2>1, <2>4
  <2> QED
    BY <1>3, <2>2, <2>3, <2>4, Zenon DEF ConnectProxy
<1>4. CASE UNCHANGED vars
  <2>1. UNCHANGED <<st, server, shellOutput, sent, shown, torn>> /\ proxied' = proxied /\ alive' = alive
    BY <1>4 DEF vars, console
  <2> QED
    BY <1>0, <1>1, <2>1
<1> QED
  BY <1>2, <1>3, <1>4, ReceiveKeeps, EofKeeps, ServerKeeps, Zenon DEF Next, Console

\* The inductive invariant holds.
THEOREM InvHolds == Spec => []Inv
  BY InvInit, InvNext, PTL DEF Spec

\* Type correctness: the buffers hold what the servers may send, and a session
\* never reads more lines than its file has.
THEOREM TypeCorrect == Spec => []TypeOK
<1>1. Inv => TypeOK
  BY DEF Inv
<1> QED
  BY <1>1, InvHolds, PTL

\* However the network cuts what the servers send, all of it is shown, in the
\* buffer or on the way while a session is open; and a session that has ended
\* left nothing unread, unless output looked like a prompt
\* (cgi_application.cpp:42-62).
THEOREM NothingIsLost == Spec => []NothingLost
<1>1. Inv => NothingLost
  BY DEF Inv, SessionInv, NothingLost
<1> QED
  BY <1>1, InvHolds, PTL

\* Every command that a session sends answers a prompt of its own that has
\* arrived, unless output looked like a prompt (cgi_application.cpp:42-57).
THEOREM OneCommandAPrompt == Spec => []OneCommandPerPrompt
<1>1. ASSUME Inv PROVE OneCommandPerPrompt
  <2> SUFFICES ASSUME NEW s \in Sessions
               PROVE  sent[s] + Prompts(wire[s]) <= prompts[s] + fake[s]
    BY DEF OneCommandPerPrompt
  <2>1. SessionInv(s) /\ SessionType(s)
    BY <1>1, TypeOfSession, Zenon DEF Inv
  <2>2. PICK o \in Seq(Tokens), w \in Seq(Tokens) : o = shellOutput[s] /\ w = wire[s]
    BY <2>1, Zenon DEF SessionType
  <2>3. Prompts(o \o w) = Prompts(o) + Prompts(w) + Join(o, w)
    BY PromptsConcat, Zenon
  <2>4. Prompts(o) \in Nat /\ Prompts(w) \in Nat /\ Join(o, w) \in Nat
    BY PromptsFinite DEF Join
  <2>5. sent[s] + Prompts(o \o w) <= prompts[s] + fake[s]
    BY <2>1, <2>2, Zenon DEF SessionInv, Stream
  <2>6. PICK k \in Nat, p \in Nat, f \in Nat, a \in Nat, b \in Nat, j \in Nat :
          /\ k = sent[s] /\ p = prompts[s] /\ f = fake[s]
          /\ a = Prompts(o) /\ b = Prompts(w) /\ j = Join(o, w)
    BY <2>1, <2>4, Zenon DEF SessionType
  <2>7. k + (a + b + j) <= p + f
    BY <2>3, <2>5, <2>6, Zenon
  <2>8. k + b <= p + f
    BY <2>7
  <2> QED
    BY <2>2, <2>6, <2>8, Zenon
<1> QED
  BY <1>1, InvHolds, PTL

=============================================================================
