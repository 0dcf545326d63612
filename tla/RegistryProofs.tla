---------------------------- MODULE RegistryProofs ----------------------------
(***************************************************************************)
(* Proofs about Registry, for any finite set of names and any dependencies *)
(* among them: Kahn's invariant, that a result lists each extension after  *)
(* those it depends on, and that Resolve implements LoadOrder.             *)
(***************************************************************************)
EXTENDS Registry, FiniteSetTheorems, TLAPS

USE RegistryAssumption

-----------------------------------------------------------------------------
(* Sequences and the sets they list *)

LEMMA AppendLists ==
    ASSUME NEW S, NEW s \in Seq(S), NEW e \in S
    PROVE  /\ Append(s, e) \in Seq(S) /\ Range(Append(s, e)) = Range(s) \cup {e}
           /\ IsInjective(s) /\ e \notin Range(s) => IsInjective(Append(s, e))
  BY DEF Range, IsInjective

LEMMA ConcatLists ==
    ASSUME NEW S, NEW s \in Seq(S), NEW t \in Seq(S)
    PROVE  /\ s \o t \in Seq(S) /\ Range(s \o t) = Range(s) \cup Range(t)
           /\ IsInjective(s) /\ IsInjective(t) /\ Range(s) \cap Range(t) = {}
                  => IsInjective(s \o t)
<1>1. s \o t \in Seq(S) /\ Len(s \o t) = Len(s) + Len(t)
  OBVIOUS
<1>2. \A i \in DOMAIN s : (s \o t)[i] = s[i]
  OBVIOUS
<1>3. \A i \in DOMAIN t : (s \o t)[Len(s) + i] = t[i] /\ Len(s) + i \in DOMAIN (s \o t)
  OBVIOUS
<1>4. \A i \in DOMAIN (s \o t) : i \in DOMAIN s \/ i - Len(s) \in DOMAIN t
  BY <1>1
<1>5. \A i \in DOMAIN (s \o t) : i \notin DOMAIN s => (s \o t)[i] = t[i - Len(s)]
  BY <1>1
<1>6. DOMAIN s \subseteq DOMAIN (s \o t)
  BY <1>1
<1>7. Range(s \o t) = Range(s) \cup Range(t)
  <2>1. Range(s \o t) \subseteq Range(s) \cup Range(t)
    BY <1>2, <1>4, <1>5 DEF Range
  <2>2. Range(s) \subseteq Range(s \o t)
    BY <1>2, <1>6 DEF Range
  <2>3. Range(t) \subseteq Range(s \o t)
    BY Zenon, <1>3 DEF Range
  <2>. QED  BY <2>1, <2>2, <2>3
<1>8. ASSUME IsInjective(s), IsInjective(t), Range(s) \cap Range(t) = {}
      PROVE  IsInjective(s \o t)
  <2> SUFFICES ASSUME NEW i \in DOMAIN (s \o t), NEW j \in DOMAIN (s \o t),
                      (s \o t)[i] = (s \o t)[j]
               PROVE  i = j
    BY DEF IsInjective
  <2>1. CASE i \in DOMAIN s /\ j \in DOMAIN s
    BY <2>1, <1>2, <1>8 DEF IsInjective
  <2>a. /\ \A k \in DOMAIN s : (s \o t)[k] \in Range(s)
        /\ \A k \in DOMAIN (s \o t) : k \notin DOMAIN s => (s \o t)[k] \in Range(t)
    BY <1>2, <1>4, <1>5 DEF Range
  <2>2. CASE i \in DOMAIN s /\ j \notin DOMAIN s
    BY <2>2, <2>a, <1>8
  <2>3. CASE i \notin DOMAIN s /\ j \in DOMAIN s
    BY <2>3, <2>a, <1>8
  <2>4. CASE i \notin DOMAIN s /\ j \notin DOMAIN s
    <3>1. i - Len(s) = j - Len(s)
      BY <2>4, <1>4, <1>5, <1>8 DEF IsInjective
    <3>. QED  BY <3>1, <1>1
  <2>. QED  BY <2>1, <2>2, <2>3, <2>4
<1>. QED  BY <1>1, <1>7, <1>8

LEMMA HeadTailLists ==
    ASSUME NEW S, NEW s \in Seq(S), s # <<>>
    PROVE  /\ Head(s) \in S /\ Tail(s) \in Seq(S)
           /\ Range(s) = {Head(s)} \cup Range(Tail(s))
           /\ IsInjective(s) => IsInjective(Tail(s)) /\ Head(s) \notin Range(Tail(s))
<1>1. /\ Head(s) \in S /\ Tail(s) \in Seq(S) /\ Len(Tail(s)) = Len(s) - 1
      /\ Head(s) = s[1] /\ 1 \in DOMAIN s /\ DOMAIN s = 1..Len(s)
  OBVIOUS
<1>a. DOMAIN Tail(s) = 1..(Len(s) - 1) /\ Len(s) \in Nat
  BY <1>1
<1>b. \A i \in 1..(Len(s) - 1) : Tail(s)[i] = s[i + 1]
  OBVIOUS
<1>c. \A i \in 1..(Len(s) - 1) : i + 1 \in 1..Len(s) /\ i + 1 # 1
  BY <1>a
<1>d. \A i \in 1..Len(s) : i # 1 => i - 1 \in 1..(Len(s) - 1) /\ (i - 1) + 1 = i
  BY <1>a
<1>2. \A i \in DOMAIN Tail(s) : Tail(s)[i] = s[i + 1] /\ i + 1 \in DOMAIN s /\ i + 1 # 1
  <2> SUFFICES ASSUME NEW i \in 1..(Len(s) - 1)
               PROVE  Tail(s)[i] = s[i + 1] /\ i + 1 \in 1..Len(s) /\ i + 1 # 1
    BY <1>1, <1>a, Zenon
  <2>. QED  BY <1>b, <1>c
<1>3. \A i \in DOMAIN s : i # 1 => i - 1 \in DOMAIN Tail(s) /\ Tail(s)[i - 1] = s[i]
  <2> SUFFICES ASSUME NEW i \in 1..Len(s), i # 1
               PROVE  i - 1 \in 1..(Len(s) - 1) /\ Tail(s)[i - 1] = s[i]
    BY <1>1, <1>a, Zenon
  <2>1. i - 1 \in 1..(Len(s) - 1) /\ (i - 1) + 1 = i
    BY <1>d
  <2>2. Tail(s)[i - 1] = s[(i - 1) + 1]
    BY <2>1, <1>b
  <2>. QED  BY <2>1, <2>2
<1>4. Range(s) = {Head(s)} \cup Range(Tail(s))
  <2>1. Head(s) \in Range(s)
    BY <1>1 DEF Range
  <2>2. Range(Tail(s)) \subseteq Range(s)
    BY <1>2 DEF Range
  <2>3. \A i \in DOMAIN s : s[i] \in {Head(s)} \cup Range(Tail(s))
    <3> SUFFICES ASSUME NEW i \in DOMAIN s, i # 1 PROVE s[i] \in Range(Tail(s))
      BY <1>1
    <3>. QED  BY <1>3 DEF Range
  <2>4. Range(s) \subseteq {Head(s)} \cup Range(Tail(s))
    BY <2>3 DEF Range
  <2>. QED  BY <2>1, <2>2, <2>4
<1>5. ASSUME IsInjective(s) PROVE IsInjective(Tail(s)) /\ Head(s) \notin Range(Tail(s))
  <2>1. \A i, j \in DOMAIN Tail(s) : Tail(s)[i] = Tail(s)[j] => i + 1 = j + 1
    BY <1>2, <1>5 DEF IsInjective
  <2>2. \A i, j \in DOMAIN Tail(s) : i + 1 = j + 1 => i = j
    BY <1>1
  <2>3. Head(s) \notin Range(Tail(s))
    BY <1>1, <1>2, <1>5 DEF IsInjective, Range
  <2>. QED  BY <2>1, <2>2, <2>3 DEF IsInjective
<1>. QED  BY <1>1, <1>4, <1>5

\* What becomes ready joins the queue, all of it and each once: the pigeonholes.
LEMMA OrdersLists ==
    ASSUME NEW S, IsFiniteSet(S), NEW s \in Orders(S)
    PROVE  s \in Seq(S) /\ Range(s) = S /\ IsInjective(s)
<1> DEFINE D == 1..Cardinality(S)
<1>1. Cardinality(S) \in Nat
  BY FS_CardinalityType
<1>2. s \in Injection(D, S)
  BY DEF Orders
<1>3. s \in [D -> S] /\ IsInjective(s)
  BY <1>2 DEF Injection
<1>4. Cardinality(D) = Cardinality(S)
  BY <1>1, FS_Interval
<1>5. s \in Surjection(D, S)
  BY <1>2, <1>4, FS_Injection
<1>6. \A e \in S : \E i \in D : s[i] = e
  BY <1>5 DEF Surjection
<1>7. Range(s) = S
  BY <1>3, <1>6 DEF Range
<1>. QED  BY <1>1, <1>3, <1>7

\* The element at one place is taken out, and no other.
LEMMA RemoveAtLists ==
    ASSUME NEW S, NEW s \in Seq(S), NEW i \in DOMAIN s, IsInjective(s)
    PROVE  /\ RemoveAt(s, i) \in Seq(S) /\ IsInjective(RemoveAt(s, i))
           /\ Range(RemoveAt(s, i)) = Range(s) \ {s[i]}
<1> DEFINE r == RemoveAt(s, i)
<1> DEFINE was(k) == IF k < i THEN k ELSE k + 1
<1>1. i \in 1..Len(s) /\ Len(s) \in Nat /\ DOMAIN s = 1..Len(s)
  OBVIOUS
<1>2. /\ SubSeq(s, 1, i - 1) \in Seq(S) /\ Len(SubSeq(s, 1, i - 1)) = i - 1
      /\ \A k \in 1..(i - 1) : SubSeq(s, 1, i - 1)[k] = s[k]
  BY <1>1
<1>3. /\ SubSeq(s, i + 1, Len(s)) \in Seq(S) /\ Len(SubSeq(s, i + 1, Len(s))) = Len(s) - i
      /\ \A k \in 1..(Len(s) - i) : SubSeq(s, i + 1, Len(s))[k] = s[i + k]
  BY SMTT(20), <1>1
<1>4. r \in Seq(S) /\ Len(r) = Len(s) - 1 /\ DOMAIN r = 1..(Len(s) - 1)
  BY <1>1, <1>2, <1>3 DEF RemoveAt
<1>5. \A k \in 1..(Len(s) - 1) : r[k] = s[was(k)] /\ was(k) \in 1..Len(s) /\ was(k) # i
  <2> SUFFICES ASSUME NEW k \in 1..(Len(s) - 1)
               PROVE  r[k] = s[was(k)] /\ was(k) \in 1..Len(s) /\ was(k) # i
    OBVIOUS
  <2>1. CASE k < i
    BY <2>1, <1>1, <1>2, <1>3 DEF RemoveAt
  <2>2. CASE ~(k < i)
    <3>1. k - (i - 1) \in 1..(Len(s) - i) /\ i + (k - (i - 1)) = k + 1
      BY <2>2, <1>1
    <3>2. r[k] = SubSeq(s, i + 1, Len(s))[k - (i - 1)]
      <4> DEFINE a == SubSeq(s, 1, i - 1)  b == SubSeq(s, i + 1, Len(s))
      <4>1. a \in Seq(S) /\ b \in Seq(S) /\ Len(a) = i - 1 /\ Len(b) = Len(s) - i
        BY <1>2, <1>3
      <4>2. k \in 1..(Len(a) + Len(b)) /\ ~(k <= Len(a)) /\ r = a \o b
        BY <2>2, <4>1, <1>1 DEF RemoveAt
      <4> HIDE DEF a, b, r
      <4>3. r[k] = b[k - Len(a)]
        BY SMTT(20), <4>1, <4>2
      <4>. QED  BY <4>1, <4>3 DEF b
    <3>3. SubSeq(s, i + 1, Len(s))[k - (i - 1)] = s[i + (k - (i - 1))]
      BY SMTT(20), <3>1, <1>3
    <3>4. r[k] = s[k + 1]
      BY <3>1, <3>2, <3>3
    <3>. QED  BY <2>2, <3>4, <1>1
  <2>. QED  BY <2>1, <2>2
<1>6. \A j \in 1..Len(s) : j # i => \E k \in 1..(Len(s) - 1) : was(k) = j
  <2> SUFFICES ASSUME NEW j \in 1..Len(s), j # i
               PROVE  \E k \in 1..(Len(s) - 1) : was(k) = j
    OBVIOUS
  <2>1. CASE j < i
    BY <2>1, <1>1
  <2>2. CASE j > i
    <3>1. j - 1 \in 1..(Len(s) - 1) /\ was(j - 1) = j
      BY <2>2, <1>1
    <3>. QED  BY <3>1
  <2>. QED  BY <2>1, <2>2, <1>1
<1>7. \A k, m \in 1..(Len(s) - 1) : was(k) = was(m) => k = m
  BY <1>1
<1> HIDE DEF r, was
<1>8. IsInjective(r)
  BY SMTT(20), <1>1, <1>4, <1>5, <1>7 DEF IsInjective
<1>9. Range(r) = Range(s) \ {s[i]}
  <2>1. \A k \in 1..(Len(s) - 1) : r[k] \in Range(s) \ {s[i]}
    BY <1>1, <1>5 DEF Range, IsInjective
  <2>2. \A j \in 1..Len(s) : s[j] # s[i] => s[j] \in Range(r)
    BY Zenon, <1>4, <1>5, <1>6 DEF Range
  <2>3. Range(r) \subseteq Range(s) \ {s[i]}
    BY <2>1, <1>4 DEF Range
  <2>4. Range(s) \ {s[i]} \subseteq Range(r)
    <3> SUFFICES ASSUME NEW e \in Range(s), e # s[i] PROVE e \in Range(r)
      OBVIOUS
    <3>1. PICK j \in 1..Len(s) : e = s[j]
      BY <1>1 DEF Range
    <3>. QED  BY <3>1, <2>2
  <2>. QED  BY <2>3, <2>4
<1>. QED  BY <1>4, <1>8, <1>9 DEF r

-----------------------------------------------------------------------------
(* The inductive invariant *)

\* An order that may be incomplete.
Ordered(s) ==
    IsInjective(s) /\ \A i \in DOMAIN s : deps[s[i]] \subseteq Range(SubSeq(s, 1, i - 1))

\* What holds in Resolve's loop besides Kahn's invariant.
Sorting ==
    resolving =>
        /\ result = "none" /\ ~Missing
        /\ Range(sorted) \subseteq extensions /\ Ordered(sorted)
        /\ Len(sorted) = Cardinality(Range(sorted))

Returned == result = "sorted" => Range(sorted) = extensions /\ Ordered(sorted)

IInv == TypeOK /\ OrderLists /\ CountsWhatIsLeft /\ Sorting /\ Returned

LEMMA InitIInv == Init => IInv
<1> SUFFICES ASSUME Init PROVE IInv
  OBVIOUS
<1>a. deps \in [Names -> SUBSET Names]
  BY DEF Init
<1>b. <<>> \in Seq(Names)
  OBVIOUS
<1>1. TypeOK
  BY Zenon, <1>a, <1>b DEF Init, TypeOK
<1>2. OrderLists
  BY DEF Init, OrderLists, Range, IsInjective
<1>. QED  BY <1>1, <1>2 DEF Init, IInv, CountsWhatIsLeft, Sorting, Returned

\* The dependencies of an extension, and what is left of them, are finite.
LEMMA Finite ==
    ASSUME TypeOK
    PROVE  /\ \A n \in Names : IsFiniteSet(deps[n])
           /\ \A S \in SUBSET extensions : IsFiniteSet(S)
<1>1. ASSUME NEW S \in SUBSET Names PROVE IsFiniteSet(S)
  BY FS_Subset
<1>. QED  BY <1>1 DEF TypeOK

LEMMA RegisterIInv == ASSUME IInv, NEW n \in Names, Register(n) PROVE IInv'
<1> USE DEF IInv, Register, Forget
<1>1. TypeOK'
  BY DEF TypeOK
<1>2. OrderLists'
  BY AppendLists DEF TypeOK, OrderLists
<1>. QED  BY <1>1, <1>2 DEF CountsWhatIsLeft, Sorting, Returned

LEMMA RemoveIInv == ASSUME IInv, NEW n \in Names, RemoveExt(n) PROVE IInv'
<1> USE DEF IInv, RemoveExt, Forget
<1>1. PICK i \in DOMAIN order : order[i] = n /\ order' = RemoveAt(order, i)
  OBVIOUS
<1>2. order \in Seq(Names) /\ IsInjective(order) /\ Range(order) = extensions
  BY DEF TypeOK, OrderLists
<1>3. /\ order' \in Seq(Names) /\ IsInjective(order')
      /\ Range(order') = extensions \ {n}
  BY <1>1, <1>2, RemoveAtLists
<1>4. TypeOK'
  BY <1>3 DEF TypeOK
<1>5. OrderLists'
  BY <1>3 DEF OrderLists
<1>. QED  BY <1>4, <1>5 DEF CountsWhatIsLeft, Sorting, Returned

LEMMA MissingIInv == ASSUME IInv, ResolveMissing PROVE IInv'
<1> USE DEF IInv, ResolveMissing
<1>1. TypeOK'
  BY DEF TypeOK
<1>2. OrderLists'
  BY DEF OrderLists
<1>. QED  BY <1>1, <1>2 DEF CountsWhatIsLeft, Sorting, Returned

LEMMA StartIInv == ASSUME IInv, ResolveStart PROVE IInv'
<1> DEFINE ready == {n \in extensions : inDegree'[n] = 0}
<1>1. /\ ~Missing /\ resolving' = TRUE /\ sorted' = <<>> /\ result' = "none"
      /\ inDegree' = [n \in Names |-> IF n \in extensions THEN Cardinality(deps[n]) ELSE 0]
      /\ queue' \in Orders(ready) /\ UNCHANGED <<deps, extensions, order>>
  BY DEF ResolveStart
<1>2. TypeOK /\ OrderLists
  BY DEF IInv
<1>3. \A n \in Names : IsFiniteSet(deps[n]) /\ Cardinality(deps[n]) \in Nat
  BY <1>2, Finite, FS_CardinalityType
<1>4. \A n \in Names : Cardinality(deps[n]) = 0 <=> deps[n] = {}
  BY <1>3, FS_EmptySet
<1>5. IsFiniteSet(ready) /\ ready \subseteq extensions /\ extensions \subseteq Names
  BY <1>2, Finite DEF TypeOK
<1>6. ready = {n \in extensions : deps[n] = {}}
  BY <1>1, <1>4, <1>5
<1> HIDE DEF ready
<1>7. queue' \in Seq(ready) /\ Range(queue') = ready /\ IsInjective(queue')
  BY <1>1, <1>5, OrdersLists
<1>8. queue' \in Seq(Names)
  BY <1>5, <1>7
<1>9. inDegree' \in [Names -> Nat]
  BY <1>1, <1>3
<1>10. Range(sorted') = {} /\ IsInjective(sorted') /\ DOMAIN sorted' = {} /\ Len(sorted') = 0
  BY <1>1 DEF Range, IsInjective
<1>11. TypeOK'
  BY <1>1, <1>2, <1>8, <1>9 DEF TypeOK
<1>12. OrderLists'
  BY <1>1, <1>2 DEF OrderLists
<1>13. CountsWhatIsLeft'
  <2>1. \A n \in extensions : inDegree'[n] = Cardinality(deps[n] \ {})
    BY <1>1, <1>5
  <2>2. Range(queue') = {n \in extensions \ {} : deps[n] \subseteq {}}
    BY <1>6, <1>7
  <2>. QED  BY Zenon, <2>1, <2>2, <1>1, <1>7, <1>10 DEF CountsWhatIsLeft
<1>14. Sorting'
  BY Zenon, <1>1, <1>10, FS_EmptySet DEF Sorting, Ordered, Missing
<1>15. Returned'
  BY <1>1 DEF Returned
<1>. QED  BY <1>11, <1>12, <1>13, <1>14, <1>15 DEF IInv

\* An order stays one when it is extended by something whose dependencies it has.
LEMMA AppendOrdered ==
    ASSUME TypeOK, NEW n \in Names, Ordered(sorted), n \notin Range(sorted),
           deps[n] \subseteq Range(sorted)
    PROVE  Ordered(Append(sorted, n)) /\ \A m \in Range(sorted) : deps[m] \subseteq Range(sorted)
<1> DEFINE s == Append(sorted, n)
<1>1. sorted \in Seq(Names) /\ Len(sorted) \in Nat /\ DOMAIN sorted = 1..Len(sorted)
  BY DEF TypeOK
<1>2. /\ s \in Seq(Names) /\ DOMAIN s = 1..(Len(sorted) + 1) /\ s[Len(sorted) + 1] = n
      /\ \A i \in 1..Len(sorted) : s[i] = sorted[i]
  BY <1>1
<1>3. IsInjective(s)
  BY <1>1, AppendLists DEF Ordered
<1>4. ASSUME NEW i \in 1..(Len(sorted) + 1)
      PROVE  SubSeq(s, 1, i - 1) = SubSeq(sorted, 1, i - 1)
  BY <1>1, <1>2
<1>5. SubSeq(sorted, 1, Len(sorted)) = sorted
  BY <1>1
<1>6. ASSUME NEW i \in DOMAIN s PROVE deps[s[i]] \subseteq Range(SubSeq(s, 1, i - 1))
  <2>1. CASE i = Len(sorted) + 1
    <3>1. i - 1 = Len(sorted)
      BY <2>1, <1>1
    <3>. QED  BY Zenon, <2>1, <3>1, <1>2, <1>4, <1>5
  <2>2. CASE i # Len(sorted) + 1
    <3>1. i \in DOMAIN sorted /\ i \in 1..Len(sorted)
      BY <2>2, <1>1, <1>2
    <3>2. deps[sorted[i]] \subseteq Range(SubSeq(sorted, 1, i - 1))
      BY <3>1 DEF Ordered
    <3>. QED  BY Zenon, <3>1, <3>2, <1>2, <1>4
  <2>. QED  BY <2>1, <2>2
<1>7. ASSUME NEW m \in Range(sorted) PROVE deps[m] \subseteq Range(sorted)
  <2>1. PICK i \in DOMAIN sorted : m = sorted[i]
    BY DEF Range
  <2>2. deps[m] \subseteq Range(SubSeq(sorted, 1, i - 1))
    BY <2>1 DEF Ordered
  <2>3. \A k \in DOMAIN SubSeq(sorted, 1, i - 1) :
            k \in DOMAIN sorted /\ SubSeq(sorted, 1, i - 1)[k] = sorted[k]
    BY <1>1
  <2>4. Range(SubSeq(sorted, 1, i - 1)) \subseteq Range(sorted)
    BY Zenon, <2>3 DEF Range
  <2>. QED  BY <2>2, <2>4
<1>. QED  BY <1>3, <1>6, <1>7 DEF Ordered

LEMMA PopIInv == ASSUME IInv, ResolvePop PROVE IInv'
<1> DEFINE n == Head(queue)  S == Range(sorted)
           ready == {m \in Waiting(n) : inDegree'[m] = 0}
<1>1. /\ resolving /\ queue # <<>> /\ sorted' = Append(sorted, n)
      /\ inDegree' = [m \in Names |-> IF m \in Waiting(n) THEN inDegree[m] - 1
                                      ELSE inDegree[m]]
      /\ UNCHANGED <<deps, extensions, order, resolving, result>>
  BY DEF ResolvePop
<1>2. PICK more \in Orders(ready) : queue' = Tail(queue) \o more
  BY Zenon DEF ResolvePop
<1>3. TypeOK /\ OrderLists
  BY DEF IInv
<1>4. /\ \A m \in extensions : inDegree[m] = Cardinality(deps[m] \ S)
      /\ Range(queue) = {m \in extensions \ S : deps[m] \subseteq S} /\ IsInjective(queue)
  BY Zenon, <1>1 DEF IInv, CountsWhatIsLeft
<1>5. /\ result = "none" /\ ~Missing /\ S \subseteq extensions /\ Ordered(sorted)
      /\ Len(sorted) = Cardinality(S)
  BY <1>1 DEF IInv, Sorting
<1>6. /\ n \in Names /\ Tail(queue) \in Seq(Names) /\ IsInjective(Tail(queue))
      /\ Range(queue) = {n} \cup Range(Tail(queue)) /\ n \notin Range(Tail(queue))
  BY <1>1, <1>3, <1>4, HeadTailLists DEF TypeOK
<1>7. n \in extensions /\ n \notin S /\ deps[n] \subseteq S
  BY <1>4, <1>6
<1>8. sorted \in Seq(Names) /\ extensions \subseteq Names
  BY <1>3 DEF TypeOK
<1>9. sorted' \in Seq(Names) /\ Range(sorted') = S \cup {n}
  BY <1>1, <1>6, <1>8, AppendLists
<1>10. Ordered(Append(sorted, n)) /\ \A m \in S : deps[m] \subseteq S
  BY <1>3, <1>5, <1>6, <1>7, AppendOrdered
<1>11. \A m \in extensions : m \in Waiting(n) <=> n \in deps[m]
  BY DEF Waiting
<1>12. Waiting(n) \subseteq extensions
  BY DEF Waiting
<1> HIDE DEF n, S
<1>13. ASSUME NEW m \in extensions
       PROVE  /\ inDegree'[m] = Cardinality(deps[m] \ (S \cup {n}))
              /\ inDegree'[m] \in Nat
              /\ inDegree'[m] = 0 <=> deps[m] \subseteq S \cup {n}
  <2> DEFINE left == deps[m] \ S
  <2>1. IsFiniteSet(left)
    <3>1. IsFiniteSet(deps[m])
      BY <1>3, <1>8, Finite
    <3>. QED  BY Zenon, <3>1, FS_Difference
  <2>2. left \ {n} = deps[m] \ (S \cup {n})
    OBVIOUS
  <2>3. /\ IsFiniteSet(left \ {n})
        /\ Cardinality(left \ {n}) = IF n \in left THEN Cardinality(left) - 1
                                       ELSE Cardinality(left)
    BY Zenon, <2>1, FS_RemoveElement
  <2>4. n \in left <=> m \in Waiting(n)
    BY <1>7, <1>11
  <2>5. inDegree[m] = Cardinality(left)
    BY <1>4
  <2>6. inDegree'[m] = IF m \in Waiting(n) THEN inDegree[m] - 1 ELSE inDegree[m]
    BY <1>1, <1>8
  <2> HIDE DEF left
  <2>7. inDegree'[m] = Cardinality(left \ {n})
    BY <2>3, <2>4, <2>5, <2>6
  <2>8. Cardinality(left \ {n}) \in Nat
    BY <2>3, FS_CardinalityType
  <2>9. Cardinality(left \ {n}) = 0 <=> left \ {n} = {}
    BY <2>3, FS_EmptySet
  <2>. QED  BY <2>2, <2>7, <2>8, <2>9
<1>14. ready = {m \in extensions : n \in deps[m] /\ deps[m] \subseteq S \cup {n}}
  BY Zenon, <1>11, <1>12, <1>13
<1>15. IsFiniteSet(ready) /\ ready \subseteq Names
  BY <1>3, <1>8, <1>14, Finite
<1> HIDE DEF ready
<1>16. more \in Seq(ready) /\ Range(more) = ready /\ IsInjective(more)
  BY <1>2, <1>15, OrdersLists
<1>17. more \in Seq(Names)
  BY <1>15, <1>16
<1>18. Range(Tail(queue)) = {m \in extensions \ S : deps[m] \subseteq S} \ {n}
  BY <1>4, <1>6
<1>19. Range(Tail(queue)) \cap Range(more) = {}
  BY <1>7, <1>14, <1>16, <1>18
<1>20. /\ queue' \in Seq(Names) /\ IsInjective(queue')
       /\ Range(queue') = Range(Tail(queue)) \cup ready
  <2> DEFINE left == Tail(queue)
  <2>1. left \in Seq(Names) /\ more \in Seq(Names) /\ IsInjective(left) /\ IsInjective(more)
        /\ Range(left) \cap Range(more) = {} /\ queue' = left \o more
    BY <1>2, <1>6, <1>16, <1>17, <1>19
  <2> HIDE DEF left
  <2>2. left \o more \in Seq(Names) /\ IsInjective(left \o more)
        /\ Range(left \o more) = Range(left) \cup Range(more)
    BY <2>1, ConcatLists
  <2>. QED  BY <2>1, <2>2, <1>16 DEF left
<1>21. Range(queue') = {m \in extensions \ (S \cup {n}) : deps[m] \subseteq S \cup {n}}
  <2>1. \A m \in ready : m \notin S /\ m # n
    BY <1>7, <1>10, <1>14
  <2>. QED  BY <2>1, <1>7, <1>14, <1>18, <1>20
<1>22. inDegree' \in [Names -> Nat]
  <2>1. \A m \in Names : inDegree'[m] \in Nat
    BY Zenon, <1>1, <1>3, <1>12, <1>13 DEF TypeOK
  <2>. QED  BY <2>1, <1>1
<1>23. TypeOK'
  BY <1>1, <1>3, <1>9, <1>20, <1>22 DEF TypeOK
<1>24. OrderLists'
  BY <1>1, <1>3 DEF OrderLists
<1>25. CountsWhatIsLeft'
  BY Zenon, <1>1, <1>9, <1>13, <1>20, <1>21 DEF CountsWhatIsLeft
<1>26. Len(sorted') = Cardinality(Range(sorted'))
  <2>1. IsFiniteSet(S)
    BY <1>3, <1>5, Finite
  <2>2. Cardinality(S \cup {n}) = Cardinality(S) + 1
    BY Zenon, <2>1, <1>7, FS_AddElement
  <2>3. Len(sorted') = Len(sorted) + 1
    BY <1>1, <1>6, <1>8
  <2>. QED  BY <2>2, <2>3, <1>5, <1>9
<1>27. Sorting'
  <2>1. Ordered(sorted)'
    BY <1>1, <1>10 DEF Ordered, n
  <2>2. ~Missing'
    BY <1>1, <1>5 DEF Missing
  <2>. QED  BY <2>1, <2>2, <1>1, <1>5, <1>7, <1>9, <1>26 DEF Sorting
<1>28. Returned'
  BY <1>1, <1>5 DEF Returned
<1>. QED  BY <1>23, <1>24, <1>25, <1>27, <1>28 DEF IInv

\* Counting is enough to know that all are sorted, as none is sorted twice.
LEMMA AllSorted ==
    ASSUME IInv, resolving
    PROVE  Len(sorted) = Cardinality(extensions) <=> Range(sorted) = extensions
<1>1. /\ Range(sorted) \subseteq extensions /\ Len(sorted) = Cardinality(Range(sorted))
  BY DEF IInv, Sorting
<1>2. IsFiniteSet(extensions)
  BY Finite DEF IInv
<1>3. Cardinality(extensions) = Cardinality(Range(sorted)) => extensions = Range(sorted)
  BY <1>1, <1>2, FS_Subset
<1>. QED  BY <1>1, <1>3

LEMMA EndIInv == ASSUME IInv, ResolveEnd PROVE IInv'
<1>1. /\ resolving /\ resolving' = FALSE
      /\ UNCHANGED <<deps, extensions, order, inDegree, queue>>
      /\ \/ Len(sorted) = Cardinality(extensions) /\ result' = "sorted" /\ sorted' = sorted
         \/ result' = "cycle" /\ sorted' = <<>>
  BY DEF ResolveEnd
<1>a. sorted' \in Seq(Names)
  <2>1. sorted \in Seq(Names) /\ <<>> \in Seq(Names)
    BY DEF IInv, TypeOK
  <2>. QED  BY Zenon, <1>1, <2>1
<1>2. TypeOK'
  BY Zenon, <1>1, <1>a DEF IInv, TypeOK
<1>3. OrderLists'
  BY <1>1 DEF IInv, OrderLists
<1>4. Returned'
  <2>1. CASE Len(sorted) = Cardinality(extensions) /\ result' = "sorted" /\ sorted' = sorted
    <3>1. Range(sorted) = extensions /\ Ordered(sorted)
      BY <2>1, <1>1, AllSorted DEF IInv, Sorting
    <3>. QED  BY <2>1, <3>1, <1>1 DEF Returned, Ordered
  <2>2. CASE result' = "cycle"
    BY <2>2 DEF Returned
  <2>. QED  BY <2>1, <2>2, <1>1
<1>. QED  BY <1>1, <1>2, <1>3, <1>4 DEF IInv, CountsWhatIsLeft, Sorting

\* The inductive invariant holds throughout.
THEOREM Inductive == Spec => []IInv
<1>1. Init => IInv
  BY InitIInv
<1>2. IInv /\ [Next]_vars => IInv'
  <2> SUFFICES ASSUME IInv, [Next]_vars PROVE IInv'
    OBVIOUS
  <2>1. CASE \E n \in Names : Register(n)
    BY <2>1, RegisterIInv
  <2>2. CASE \E n \in Names : RemoveExt(n)
    BY <2>2, RemoveIInv
  <2>3. CASE ResolveMissing
    BY <2>3, MissingIInv
  <2>4. CASE ResolveStart
    BY <2>4, StartIInv
  <2>5. CASE ResolvePop
    BY <2>5, PopIInv
  <2>6. CASE ResolveEnd
    BY <2>6, EndIInv
  <2>7. CASE UNCHANGED vars
    BY <2>7 DEF vars, resolveVars, IInv, TypeOK, OrderLists, CountsWhatIsLeft, Sorting,
                Returned, Ordered, Missing
  <2>. QED  BY <2>1, <2>2, <2>3, <2>4, <2>5, <2>6, <2>7 DEF Next
<1>. QED  BY <1>1, <1>2, PTL DEF Spec

\* The variables keep their types; no counter of Resolve goes below 0.
THEOREM TypeCorrect == Spec => []TypeOK
<1>1. IInv => TypeOK
  BY DEF IInv
<1>. QED  BY <1>1, Inductive, PTL

\* All and Names list what Get finds, whatever has been registered and removed.
THEOREM OrderCorrect == Spec => []OrderLists
<1>1. IInv => OrderLists
  BY DEF IInv
<1>. QED  BY <1>1, Inductive, PTL

\* The counters and the queue of Resolve are exact after every iteration.
THEOREM CountsCorrect == Spec => []CountsWhatIsLeft
<1>1. IInv => CountsWhatIsLeft
  BY DEF IInv
<1>. QED  BY <1>1, Inductive, PTL

\* LoadOrder's operators on sequences are Registry's.
LEMMA SameOperators ==
    ASSUME NEW s
    PROVE  (Promise!Range(s) = Range(s)) /\ (Promise!IsInjective(s) <=> IsInjective(s))
  BY DEF Range, IsInjective, Promise!Range, Promise!IsInjective

\* Every order that Resolve returns lists each extension after its dependencies.
THEOREM ResultCorrect == Spec => []ResolvedInOrder
<1>1. IInv => ResolvedInOrder
  BY SameOperators DEF IInv, Returned, Ordered, ResolvedInOrder, Promise!Respects
<1>. QED  BY <1>1, Inductive, PTL

-----------------------------------------------------------------------------
(* The refinement *)

\* Extensions that Resolve cannot sort wait for each other in a cycle.
LEMMA StuckIsImpossible ==
    ASSUME IInv, resolving, queue = <<>>, Len(sorted) # Cardinality(extensions)
    PROVE  Promise!Impossible
<1> DEFINE S == extensions \ Range(sorted)
<1>1. S \in SUBSET extensions /\ S # {}
  BY Zenon, AllSorted DEF IInv, Sorting
<1>2. Range(queue) = {}
  BY DEF Range
<1>3. \A n \in S : deps[n] \subseteq extensions /\ ~(deps[n] \subseteq Range(sorted))
  BY <1>2 DEF IInv, CountsWhatIsLeft, Sorting, Missing
<1>4. \A n \in S : deps[n] \cap (S \cup (Names \ extensions)) # {}
  BY <1>3
<1>. QED  BY Zenon, <1>1, <1>4 DEF Promise!Impossible

\* Each action of Registry is one of LoadOrder's, or changes nothing it sees.
LEMMA StepRefines ==
    ASSUME IInv, IInv', [Next]_vars
    PROVE  [Promise!Next]_(Promise!vars)
<1> USE DEF Outcome
<1>0. TypeOK /\ TypeOK'
  BY DEF IInv
<1>1. CASE \E n \in Names : Register(n) \/ RemoveExt(n)
  <2>1. /\ ~resolving /\ ~resolving' /\ sorted' = <<>> /\ result' = "none"
        /\ deps' = deps /\ extensions' \in SUBSET Names
    BY <1>0, <1>1 DEF Register, RemoveExt, Forget, TypeOK
  <2>2. Outcome # "busy" /\ Outcome' = "none"
    BY <2>1, <1>0 DEF TypeOK
  <2>3. Promise!Change
    BY <2>1, <2>2 DEF Promise!Change
  <2>. QED  BY <2>3 DEF Promise!Next
<1>2. CASE ResolveMissing
  <2>1. PICK n \in extensions : ~(deps[n] \subseteq extensions)
    BY <1>2 DEF ResolveMissing, Missing
  <2>2. deps[n] \subseteq Names
    BY <1>0 DEF TypeOK
  <2>3. {n} \in SUBSET extensions /\ {n} # {}
        /\ \A m \in {n} : deps[m] \cap ({n} \cup (Names \ extensions)) # {}
    BY <2>1, <2>2
  <2>4. Promise!Impossible
    BY Zenon, <2>3 DEF Promise!Impossible
  <2>5. Promise!Refuse
    BY <2>4, <1>2 DEF Promise!Refuse, ResolveMissing
  <2>. QED  BY <2>5 DEF Promise!Next
<1>3. CASE ResolveStart
  <2>1. Promise!Start
    BY <1>0, <1>3 DEF Promise!Start, ResolveStart, TypeOK
  <2>. QED  BY <2>1 DEF Promise!Next
<1>4. CASE ResolvePop
  <2> DEFINE n == Head(queue)
  <2>1. /\ resolving /\ resolving' /\ queue # <<>> /\ sorted' = Append(sorted, n)
        /\ deps' = deps /\ extensions' = extensions
    BY <1>4 DEF ResolvePop
  <2>2. n \in Names /\ n \in Range(queue)
    BY <2>1, <1>0, HeadTailLists DEF TypeOK
  <2>3. n \in extensions \ Range(sorted) /\ deps[n] \subseteq Range(sorted)
    BY <2>1, <2>2 DEF IInv, CountsWhatIsLeft
  <2> HIDE DEF n
  <2>4. Promise!Load(n)
    BY <2>1, <2>3, SameOperators DEF Promise!Load
  <2>. QED  BY <2>2, <2>4 DEF Promise!Next
<1>5. CASE ResolveEnd
  <2>1. resolving /\ ~resolving' /\ queue = <<>> /\ deps' = deps /\ extensions' = extensions
    BY <1>5 DEF ResolveEnd
  <2>2. CASE Len(sorted) = Cardinality(extensions)
    <3>1. result' = "sorted" /\ sorted' = sorted /\ Range(sorted) = extensions
      BY <2>1, <2>2, <1>5, AllSorted DEF ResolveEnd
    <3>2. Promise!Done
      BY <2>1, <3>1, SameOperators DEF Promise!Done
    <3>. QED  BY <3>2 DEF Promise!Next
  <2>3. CASE Len(sorted) # Cardinality(extensions)
    <3>1. result' = "cycle" /\ sorted' = <<>>
      BY <2>3, <1>5 DEF ResolveEnd
    <3>2. Promise!Impossible
      BY <2>1, <2>3, StuckIsImpossible
    <3>3. Promise!Refuse
      BY <2>1, <3>1, <3>2 DEF Promise!Refuse
    <3>. QED  BY <3>3 DEF Promise!Next
  <2>. QED  BY <2>2, <2>3
<1>6. CASE UNCHANGED vars
  BY <1>6 DEF vars, resolveVars, Promise!vars
<1>. QED  BY <1>1, <1>2, <1>3, <1>4, <1>5, <1>6 DEF Next

\* Resolve, with Register and Remove around it, implements LoadOrder.
THEOREM Refinement == Spec => KeepsPromise
<1>1. Init => Promise!Init
  BY DEF Init, Promise!Init, Outcome
<1>2. IInv /\ IInv' /\ [Next]_vars => [Promise!Next]_(Promise!vars)
  BY StepRefines
<1>. QED  BY <1>1, <1>2, Inductive, PTL DEF Spec, KeepsPromise, Promise!Spec
=============================================================================
