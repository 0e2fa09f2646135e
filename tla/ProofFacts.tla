----------------------------- MODULE ProofFacts -----------------------------
(***************************************************************************)
(* Facts about sets of numbers and sequences that the proofs of several    *)
(* components use.                                                         *)
(***************************************************************************)
EXTENDS Integers, Sequences, FiniteSets, FiniteSetTheorems, TLAPS

\* A set of natural numbers that is not empty has a smallest element.
LEMMA LeastElement ==
    ASSUME NEW S, S \subseteq Nat, S # {}
    PROVE  \E n \in S : \A k \in S : n <= k
<1> DEFINE R == {ss \in Nat \X Nat : ss[1] < ss[2]}
<1>1. IsWellFoundedOn(R, Nat)
  BY NatLessThanWellFounded, Zenon DEF OpToRel
<1> HIDE DEF R
<1>2. PICK n \in S : \A k \in S : ~ (<<k, n>> \in R)
  BY <1>1, WFMin
<1>3. ASSUME NEW k \in S PROVE n <= k
  <2>1. k \in Nat /\ n \in Nat
    OBVIOUS
  <2>2. ~ (<<k, n>> \in R)
    BY <1>2
  <2>3. k < n => <<k, n>> \in R
    BY <2>1 DEF R
  <2> QED
    BY <2>1, <2>2, <2>3
<1> QED
  BY <1>3

\* A subset of a finite set is finite and no larger.
LEMMA SubsetSize ==
    ASSUME NEW S, IsFiniteSet(S), NEW T, T \subseteq S
    PROVE  /\ IsFiniteSet(T) /\ Cardinality(T) \in Nat /\ Cardinality(S) \in Nat
           /\ Cardinality(T) <= Cardinality(S)
<1>1. T \in SUBSET S
  OBVIOUS
<1>2. IsFiniteSet(T) /\ Cardinality(T) <= Cardinality(S)
  BY <1>1, FS_Subset
<1> QED
  BY <1>2, FS_CardinalityType

\* Replacing an element of a sequence keeps its type and its length.
LEMMA SeqExcept ==
    ASSUME NEW S, NEW s \in Seq(S), NEW i, NEW v, i \in 1 .. Len(s) => v \in S
    PROVE  /\ [s EXCEPT ![i] = v] \in Seq(S)
           /\ Len([s EXCEPT ![i] = v]) = Len(s)
           /\ DOMAIN [s EXCEPT ![i] = v] = DOMAIN s
<1> DEFINE t == [s EXCEPT ![i] = v]
<1>1. s \in [1 .. Len(s) -> S] /\ Len(s) \in Nat
  OBVIOUS
<1>2. t \in [1 .. Len(s) -> S]
  BY <1>1
<1>3. t \in Seq(S)
  BY <1>1, <1>2
<1>4. DOMAIN t = 1 .. Len(s)
  BY <1>2
<1>5. Len(t) = Len(s)
  BY <1>1, <1>3, <1>4
<1> QED
  BY <1>1, <1>3, <1>4, <1>5

\* Appending an element leaves the others where they are.
LEMMA AppendElements ==
    ASSUME NEW S, NEW s \in Seq(S), NEW v
    PROVE  /\ Len(Append(s, v)) = Len(s) + 1
           /\ DOMAIN Append(s, v) = 1 .. Len(s) + 1 /\ DOMAIN s = 1 .. Len(s)
           /\ \A d \in DOMAIN Append(s, v) : \/ d = Len(s) + 1 /\ Append(s, v)[d] = v
                                             \/ d \in DOMAIN s /\ Append(s, v)[d] = s[d]
<1>1. s \in Seq(S \cup {v})
  OBVIOUS
<1> QED
  BY <1>1

\* The elements of a sequence that is put behind another one.
LEMMA ConcatElements ==
    ASSUME NEW S, NEW a \in Seq(S), NEW b \in Seq(S)
    PROVE  /\ a \o b \in Seq(S) /\ Len(a \o b) = Len(a) + Len(b)
           /\ Len(a) \in Nat /\ Len(b) \in Nat
           /\ \A i \in 1 .. Len(a) : (a \o b)[i] = a[i]
           /\ \A i \in 1 .. Len(b) : (a \o b)[Len(a) + i] = b[i]
           /\ \A i \in 1 .. Len(a \o b) : \/ i \in 1 .. Len(a) /\ (a \o b)[i] = a[i]
                                          \/ /\ i - Len(a) \in 1 .. Len(b)
                                             /\ (a \o b)[i] = b[i - Len(a)]
  OBVIOUS

\* A second element behind a sequence of one.
LEMMA AppendPair ==
    ASSUME NEW a, NEW b
    PROVE  Append(<<a>>, b) = <<a, b>>
<1> DEFINE S == {a, b}
           s == <<a>>
           r == Append(s, b)
           t == <<a, b>>
<1>1. s \in Seq(S) /\ Len(s) = 1 /\ s[1] = a
  OBVIOUS
<1>2. t \in [1 .. 2 -> S] /\ t[1] = a /\ t[2] = b
  OBVIOUS
<1>3. r \in [1 .. 2 -> S] /\ r[1] = a /\ r[2] = b
  <2> HIDE DEF s, S
  <2>0. s \in Seq(S) /\ b \in S
    BY <1>1 DEF S
  <2>1. /\ DOMAIN r = 1 .. Len(s) + 1 /\ DOMAIN s = 1 .. Len(s)
        /\ \A d \in DOMAIN r : \/ d = Len(s) + 1 /\ r[d] = b
                               \/ d \in DOMAIN s /\ r[d] = s[d]
    BY <2>0, AppendElements, Zenon
  <2>2. r \in Seq(S) /\ Len(r) = Len(s) + 1
    BY <2>0
  <2> HIDE DEF r
  <2>3. DOMAIN r = 1 .. 2 /\ DOMAIN s = 1 .. 1
    BY <1>1, <2>1
  <2>4. r[1] = a /\ r[2] = b
    BY <1>1, <2>1, <2>3
  <2>5. r \in [1 .. Len(r) -> S]
    BY <2>2
  <2> QED
    BY <1>1, <2>2, <2>4, <2>5
<1>4. r = t
  <2> HIDE DEF r, t, S
  <2> QED
    BY <1>2, <1>3
<1> QED
  BY <1>4
=============================================================================
