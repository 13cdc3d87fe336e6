----------------------------- MODULE ChainLemmas -----------------------------
(***************************************************************************)
(* Facts about chains, the sequences of command records that the portfolio *)
(* head names, used by the proofs about the modules that extend one.       *)
(***************************************************************************)
EXTENDS Naturals, Sequences, SequenceTheorems, TLAPS

\* Chain a is the beginning of chain b: b was published on top of a.
Begins(a, b) == Len(a) <= Len(b) /\ \A i \in 1..Len(a) : a[i] = b[i]

\* A published record leaves the records before it where they were.
LEMMA AppendExtends ==
    ASSUME NEW S, NEW c \in Seq(S), NEW e \in S
    PROVE  /\ Append(c, e) \in Seq(S)
           /\ Len(Append(c, e)) = Len(c) + 1
           /\ Append(c, e)[Len(c) + 1] = e
           /\ \A i \in 1..Len(c) : Append(c, e)[i] = c[i]
           /\ Begins(c, Append(c, e))
  BY DEF Begins

\* A beginning of a chain stays one when the chain grows.
LEMMA BeginsExtended ==
    ASSUME NEW S, NEW a \in Seq(S), NEW b \in Seq(S), NEW e \in S, Begins(a, b)
    PROVE  Begins(a, Append(b, e))
  <1>1. /\ Len(Append(b, e)) = Len(b) + 1
        /\ \A i \in 1..Len(b) : Append(b, e)[i] = b[i]
    BY AppendExtends
  <1>2. Len(a) \in Nat /\ Len(b) \in Nat
    OBVIOUS
  <1> QED
    BY <1>1, <1>2 DEF Begins

\* What begins the beginning of a chain begins the chain.
LEMMA BeginsThrough ==
    ASSUME NEW S, NEW a \in Seq(S), NEW b \in Seq(S), NEW c \in Seq(S),
           Begins(a, b), Begins(b, c)
    PROVE  Begins(a, c)
  <1>1. Len(a) \in Nat /\ Len(b) \in Nat /\ Len(c) \in Nat
    OBVIOUS
  <1> QED
    BY <1>1 DEF Begins

\* A beginning that is not the chain itself is shorter: something overtook it.
LEMMA OvertakenIsShorter ==
    ASSUME NEW S, NEW a \in Seq(S), NEW b \in Seq(S), Begins(a, b), a # b
    PROVE  Len(a) < Len(b)
  <1>1. Len(a) \in Nat /\ Len(b) \in Nat
    OBVIOUS
  <1>2. ASSUME Len(a) = Len(b)
        PROVE  FALSE
    BY <1>2, SeqEqual DEF Begins
  <1> QED
    BY <1>1, <1>2 DEF Begins

\* A beginning, by its length.
LEMMA BeginningIs ==
    ASSUME NEW S, NEW c \in Seq(S), NEW n \in 0..Len(c)
    PROVE  /\ SubSeq(c, 1, n) \in Seq(S) /\ Len(SubSeq(c, 1, n)) = n
           /\ \A i \in 1..n : SubSeq(c, 1, n)[i] = c[i]
  <1>1. Len(c) \in Nat /\ n \in Int /\ 1 \in Int /\ 1 <= n + 1 /\ n - 1 + 1 = n /\ n <= Len(c)
    OBVIOUS
  <1>2. \A i \in 1..n : c[i] \in S /\ i = 1 + i - 1
    BY <1>1, ElementOfSeq
  <1> QED
    BY <1>1, <1>2, SubSeqProperties

\* A cut of a chain is one of its beginnings.
LEMMA BeginningBegins ==
    ASSUME NEW S, NEW c \in Seq(S), NEW n \in 0..Len(c)
    PROVE  SubSeq(c, 1, n) \in Seq(S) /\ Begins(SubSeq(c, 1, n), c)
  BY BeginningIs DEF Begins

\* Whether a chain is a beginning shows by cutting the longer one.
LEMMA BeginsIsSubSeq ==
    ASSUME NEW S, NEW a \in Seq(S), NEW c \in Seq(S)
    PROVE  Begins(a, c) <=> Len(a) <= Len(c) /\ SubSeq(c, 1, Len(a)) = a
  <1>1. Len(a) \in Nat /\ Len(c) \in Nat
    OBVIOUS
  <1>2. ASSUME Len(a) <= Len(c)
        PROVE  Begins(a, c) <=> SubSeq(c, 1, Len(a)) = a
    <2>1. Len(a) \in 0..Len(c)
      BY <1>1, <1>2
    <2>2. /\ SubSeq(c, 1, Len(a)) \in Seq(S) /\ Len(SubSeq(c, 1, Len(a))) = Len(a)
          /\ \A i \in 1..Len(a) : SubSeq(c, 1, Len(a))[i] = c[i]
      BY <2>1, BeginningIs
    <2>3. ASSUME Begins(a, c)
          PROVE  SubSeq(c, 1, Len(a)) = a
      BY <2>2, <2>3, SeqEqual DEF Begins
    <2> QED
      BY <1>2, <2>2, <2>3 DEF Begins
  <1> QED
    BY <1>2 DEF Begins

\* The chain behind an earlier record is the same before and after growth.
LEMMA BehindIsKept ==
    ASSUME NEW S, NEW c \in Seq(S), NEW e \in S
    PROVE  /\ \A n \in 1..Len(c) : SubSeq(Append(c, e), 1, n) = SubSeq(c, 1, n)
           /\ SubSeq(Append(c, e), 1, Len(c) + 1) = Append(c, e)
  <1> DEFINE d == Append(c, e)
  <1>1. /\ d \in Seq(S)
        /\ Len(d) = Len(c) + 1
        /\ \A i \in 1..Len(c) : d[i] = c[i]
    BY AppendExtends
  <1>2. Len(c) \in Nat
    OBVIOUS
  <1>3. ASSUME NEW n \in 1..Len(c)
        PROVE  SubSeq(d, 1, n) = SubSeq(c, 1, n)
    <2>1. n \in Int /\ 1 \in Int /\ 1 <= n /\ n - 1 + 1 = n
      BY <1>2
    <2>2. \A i \in 1..n : c[i] \in S /\ d[i] \in S
      BY <1>1, <1>2, ElementOfSeq
    <2>3. /\ SubSeq(c, 1, n) \in Seq(S)
          /\ Len(SubSeq(c, 1, n)) = n
          /\ \A i \in 1..n : SubSeq(c, 1, n)[i] = c[i]
      <3> HIDE DEF d
      <3>1. \A i \in 1..n : i = 1 + i - 1
        BY <2>1
      <3> QED
        BY <2>1, <2>2, <3>1, SubSeqProperties
    <2>4. /\ SubSeq(d, 1, n) \in Seq(S)
          /\ Len(SubSeq(d, 1, n)) = n
          /\ \A i \in 1..n : SubSeq(d, 1, n)[i] = d[i]
      <3> HIDE DEF d
      <3>1. \A i \in 1..n : i = 1 + i - 1
        BY <2>1
      <3> QED
        BY <2>1, <2>2, <3>1, SubSeqProperties
    <2>5. \A i \in 1..n : SubSeq(d, 1, n)[i] = SubSeq(c, 1, n)[i]
      BY <2>3, <2>4, <1>1, <1>2
    <2> HIDE DEF d
    <2> QED
      BY <2>3, <2>4, <2>5, SeqEqual
  <1>4. SubSeq(d, 1, Len(c) + 1) = d
    <2> HIDE DEF d
    <2> QED
      BY <1>1, SubSeqFull
  <1> QED
    BY <1>3, <1>4
=============================================================================
