----------------------------- MODULE SequenceFacts -----------------------------
(***************************************************************************)
(* Facts about numbers, loops and sequences that the other proofs rest on.  *)
(* A loop of the code is a recursive function of its round; Rounds is what  *)
(* such a function must be, and SetInduction, with the property given as a  *)
(* set of numbers, is how what it computes is proved.                       *)
(***************************************************************************)
EXTENDS Integers, Sequences, WellFoundedInduction, TLAPS

\* A non-empty set of naturals has a least element.
LEMMA LeastElement ==
    ASSUME NEW T \in SUBSET Nat, T # {}
    PROVE  \E n \in T : \A m \in T : n <= m
<1> DEFINE R == OpToRel(<, Nat)
<1>1. IsWellFoundedOn(R, Nat)
  BY Zenon, NatLessThanWellFounded
<1>2. \A x, y \in Nat : x < y => <<x, y>> \in R
  BY DEF OpToRel
<1> HIDE DEF R
<1>3. PICK x \in T : \A y \in T : ~ (<<y, x>> \in R)
  BY Zenon, <1>1, WFMin
<1>4. \A y \in T : ~ (y < x)
  BY Zenon, <1>2, <1>3
<1> QED
  BY <1>4

\* Induction on the naturals, for a property given as the set of its numbers.
LEMMA SetInduction ==
    ASSUME NEW G, 0 \in G, NEW n \in Nat,
           \A i \in 0..(n - 1) : i \in G => i + 1 \in G
    PROVE  \A i \in 0..n : i \in G
<1> DEFINE T == {i \in 0..n : i \notin G}
<1>1. SUFFICES ASSUME T # {} PROVE FALSE
  OBVIOUS
<1>2. PICK i \in T : \A j \in T : i <= j
  <2>1. T \in SUBSET Nat
    OBVIOUS
  <2> HIDE DEF T
  <2> QED BY Zenon, <1>1, <2>1, LeastElement
<1>3. i - 1 \in 0..(n - 1) /\ i - 1 \notin T
  BY <1>2
<1> QED
  BY <1>2, <1>3

\* The values that a loop over 1..n has after its rounds, when it starts from b
\* and its i-th round computes step[i].
Rounds(X, b, n, step) ==
    {g \in [0..n -> X] : g[0] = b /\ \A i \in 1..n : g[i] = step[i][g[i - 1]]}

\* Such a loop has a value after every round.
LEMMA LoopHasRounds ==
    ASSUME NEW X, NEW b \in X, NEW n \in Nat, NEW step \in [1..n -> [X -> X]]
    PROVE  Rounds(X, b, n, step) # {}
<1> DEFINE Run(k) == Rounds(X, b, k, step)
           G == {k \in 0..n : Run(k) # {}}
<1>1. 0 \in G
  <2>1. [i \in 0..0 |-> b] \in Run(0)
    BY DEF Rounds
  <2> QED
    BY <2>1
<1>2. ASSUME NEW k \in 0..(n - 1), k \in G PROVE k + 1 \in G
  <2>1. PICK g \in Run(k) : TRUE
    BY <1>2
  <2> DEFINE h == [i \in 0..(k + 1) |->
                      IF i = k + 1 THEN step[k + 1][g[k]] ELSE g[i]]
  <2>2. /\ k \in Nat /\ k + 1 \in 1..n
        /\ step[k + 1] \in [X -> X] /\ g[k] \in X
    BY <2>1 DEF Rounds
  <2>3. h \in [0..(k + 1) -> X]
    BY <2>1, <2>2 DEF Rounds
  <2>4. h[0] = b /\ \A i \in 1..(k + 1) : h[i] = step[i][h[i - 1]]
    BY <2>1, <2>2 DEF Rounds
  <2>5. h \in Run(k + 1)
    <3> HIDE DEF h
    <3> QED BY <2>3, <2>4 DEF Rounds
  <2> HIDE DEF h, Run
  <2> QED
    BY <2>2, <2>5
<1>3. n \in G
  <2>1. \A i \in 0..(n - 1) : i \in G => i + 1 \in G
    BY <1>2
  <2>2. \A i \in 0..n : i \in G
    <3> HIDE DEF G
    <3> QED BY SMTT(20), <1>1, <2>1, SetInduction
  <2> QED
    BY <2>2
<1> QED
  BY <1>3

\* Where the elements of a concatenation come from.
Joins(u, s, t) ==
    /\ Len(u) = Len(s) + Len(t)
    /\ \A i \in 1..Len(s) : u[i] = s[i]
    /\ \A i \in 1..Len(t) : u[Len(s) + i] = t[i]

\* A concatenation joins its parts.
LEMMA ConcatFacts ==
    ASSUME NEW S, NEW s \in Seq(S), NEW t \in Seq(S)
    PROVE  s \o t \in Seq(S) /\ Joins(s \o t, s, t)
BY DEF Joins

\* A function on 1..n is a sequence.
LEMMA FunctionIsSequence ==
    ASSUME NEW S, NEW n \in Nat, NEW f \in [1..n -> S]
    PROVE  f \in Seq(S) /\ Len(f) = n
OBVIOUS

\* The elements of a part of a sequence.
LEMMA SubSeqFacts ==
    ASSUME NEW S, NEW s \in Seq(S),
           NEW m \in 1..(Len(s) + 1), NEW n \in (m - 1)..Len(s)
    PROVE  /\ SubSeq(s, m, n) \in Seq(S)
           /\ Len(SubSeq(s, m, n)) = n - m + 1
           /\ \A i \in 1..(n - m + 1) : SubSeq(s, m, n)[i] = s[m + i - 1]
OBVIOUS

\* Two sequences with the same elements are the same.
LEMMA SameSequence ==
    ASSUME NEW S, NEW s \in Seq(S), NEW t \in Seq(S), Len(s) = Len(t),
           \A i \in 1..Len(s) : s[i] = t[i]
    PROVE  s = t
OBVIOUS

\* Taking the first of the elements after a prefix away, or into the prefix.
LEMMA MoveOne ==
    ASSUME NEW S, NEW a \in Seq(S), NEW ms \in Seq(S), NEW n \in 0..(Len(ms) - 1)
    PROVE  /\ LET s == a \o SubSeq(ms, n + 1, Len(ms))
              IN SubSeq(s, 1, Len(a)) \o SubSeq(s, Len(a) + 2, Len(s))
                     = a \o SubSeq(ms, n + 2, Len(ms))
           /\ Append(a, ms[n + 1]) \o SubSeq(ms, n + 2, Len(ms))
                  = a \o SubSeq(ms, n + 1, Len(ms))
<1> DEFINE L == Len(ms)
           b == SubSeq(ms, n + 1, L)
           c == SubSeq(ms, n + 2, L)
           s == a \o b
<1>1. L \in Nat /\ Len(a) \in Nat /\ n \in Nat /\ n + 1 \in 1..L /\ ms[n + 1] \in S
  OBVIOUS
<1>2. /\ b \in Seq(S) /\ Len(b) = L - n
      /\ \A i \in 1..(L - n) : b[i] = ms[n + i]
  BY SMTT(20), <1>1, SubSeqFacts
<1>3. /\ c \in Seq(S) /\ Len(c) = L - n - 1
      /\ \A i \in 1..(L - n - 1) : c[i] = ms[n + 1 + i]
  BY SMTT(20), <1>1, SubSeqFacts
<1> HIDE DEF b, c
<1>4. /\ s \in Seq(S) /\ Len(s) = Len(a) + L - n
      /\ \A i \in 1..Len(a) : s[i] = a[i]
      /\ \A i \in 1..(L - n) : s[Len(a) + i] = ms[n + i]
  <2>1. a \o b \in Seq(S) /\ Joins(a \o b, a, b)
    BY Zenon, <1>2, ConcatFacts
  <2> QED
    BY SMTT(20), <1>1, <1>2, <2>1 DEF Joins
<1>5. /\ a \o c \in Seq(S) /\ Len(a \o c) = Len(a) + L - n - 1
      /\ \A i \in 1..Len(a) : (a \o c)[i] = a[i]
      /\ \A i \in 1..(L - n - 1) : (a \o c)[Len(a) + i] = ms[n + 1 + i]
  <2>1. a \o c \in Seq(S) /\ Joins(a \o c, a, c)
    BY Zenon, <1>3, ConcatFacts
  <2> QED
    BY SMTT(20), <1>1, <1>3, <2>1 DEF Joins
<1> HIDE DEF s, L
<1>6. SubSeq(s, 1, Len(a)) \o SubSeq(s, Len(a) + 2, Len(s)) = a \o c
  <2> DEFINE d == SubSeq(s, Len(a) + 2, Len(s))
  <2>1. SubSeq(s, 1, Len(a)) = a
    <3>1. /\ SubSeq(s, 1, Len(a)) \in Seq(S) /\ Len(SubSeq(s, 1, Len(a))) = Len(a)
          /\ \A i \in 1..Len(a) : SubSeq(s, 1, Len(a))[i] = s[i]
      BY SMTT(20), <1>1, <1>4, SubSeqFacts
    <3> QED
      BY SMTT(20), <1>4, <3>1, SameSequence
  <2>2. d = c
    <3>1. /\ d \in Seq(S) /\ Len(d) = L - n - 1
          /\ \A i \in 1..(L - n - 1) : d[i] = s[Len(a) + 1 + i]
      BY SMTT(20), <1>1, <1>4, SubSeqFacts
    <3>2. ASSUME NEW i \in 1..(L - n - 1) PROVE d[i] = c[i]
      <4>1. s[Len(a) + (i + 1)] = ms[n + (i + 1)]
        <5>1. i + 1 \in 1..(L - n)
          BY <1>1
        <5> QED
          BY Zenon, <1>4, <5>1
      <4>2. Len(a) + (i + 1) = Len(a) + 1 + i /\ n + (i + 1) = n + 1 + i
        BY <1>1
      <4> QED
        BY SMTT(20), <1>3, <3>1, <4>1, <4>2
    <3> HIDE DEF d
    <3> QED
      BY SMTT(20), <1>3, <3>1, <3>2, SameSequence
  <2> QED
    BY Zenon, <2>1, <2>2
<1>7. Append(a, ms[n + 1]) \o c = s
  <2> DEFINE e == Append(a, ms[n + 1])
             t == e \o c
  <2>1. /\ e \in Seq(S) /\ Len(e) = Len(a) + 1 /\ e[Len(a) + 1] = ms[n + 1]
        /\ \A i \in 1..Len(a) : e[i] = a[i]
    BY <1>1
  <2> HIDE DEF e
  <2>2. /\ t \in Seq(S) /\ Len(t) = Len(a) + L - n
        /\ \A i \in 1..Len(e) : t[i] = e[i]
        /\ \A i \in 1..(L - n - 1) : t[Len(e) + i] = ms[n + 1 + i]
    <3>1. t \in Seq(S) /\ Joins(t, e, c)
      BY Zenon, <1>3, <2>1, ConcatFacts
    <3> HIDE DEF t
    <3>2. Len(t) = Len(a) + L - n
      <4>1. Len(t) = Len(e) + Len(c)
        BY Zenon, <3>1 DEF Joins
      <4> QED
        BY <1>1, <1>3, <2>1, <4>1
    <3>3. \A i \in 1..(L - n - 1) : t[Len(e) + i] = ms[n + 1 + i]
      BY Zenon, <1>3, <3>1 DEF Joins
    <3> QED
      BY Zenon, <3>1, <3>2, <3>3 DEF Joins
  <2> HIDE DEF t
  <2>3. ASSUME NEW i \in 1..Len(t) PROVE t[i] = s[i]
    <3>1. CASE i \in 1..Len(a)
      BY SMTT(20), <1>1, <1>4, <2>1, <2>2, <3>1
    <3>2. CASE i = Len(a) + 1
      <4>1. s[Len(a) + 1] = ms[n + 1]
        BY SMTT(20), <1>1, <1>4
      <4> QED
        BY SMTT(20), <1>1, <2>1, <2>2, <3>2, <4>1
    <3>3. CASE i \in (Len(a) + 2)..Len(t)
      <4> DEFINE j == i - Len(a) - 1
      <4>1. j \in 1..(L - n - 1) /\ i = Len(e) + j /\ i = Len(a) + (j + 1)
        BY SMTT(20), <1>1, <2>1, <2>2, <3>3
      <4>2. t[i] = ms[n + 1 + j] /\ s[i] = ms[n + (j + 1)]
        <5>1. j + 1 \in 1..(L - n)
          BY <1>1, <4>1
        <5> HIDE DEF j
        <5> QED BY Zenon, <1>4, <2>2, <4>1, <5>1
      <4>3. n + 1 + j = n + (j + 1)
        BY <1>1
      <4> QED
        BY Zenon, <4>2, <4>3
    <3> QED
      BY SMTT(20), <1>1, <2>1, <2>2, <3>1, <3>2, <3>3
  <2> QED
    BY SMTT(20), <1>4, <2>2, <2>3, SameSequence DEF t, e
<1> QED
  BY Zenon, <1>6, <1>7 DEF s, b, c, L
================================================================================
