------------------------- MODULE BlockManagerProofs -------------------------
(***************************************************************************)
(* What BlockClient's run checks for one pool and three requests, proved   *)
(* for every pool, block size and set of requests: the queue, the counts   *)
(* and the tables agree (BlocksAccounted), and a lookup by hash leads to   *)
(* the prefix that was asked for (HashesAgree).                            *)
(*                                                                         *)
(* First come facts on sequences as queues of distinct blocks, then what   *)
(* each operation of the manager does to the pool, whoever calls it        *)
(* (AllocatePool, AllocateExclusivePool, MayAppendPool, DeallocatePool),   *)
(* then the hashes, for an engine that publishes and for one that does not *)
(* (AllocInv), and the theorems about the most general client.             *)
(***************************************************************************)
EXTENDS BlockClient, StepExecution, FiniteSetTheorems, SequenceTheorems, TLAPS

-----------------------------------------------------------------------------
(* Numbers and sequences                                                   *)

\* Every nonempty set of natural numbers has a least element.
LEMMA LeastNatural ==
    ASSUME NEW T \in SUBSET Nat, T # {}
    PROVE  \E n \in T : \A m \in T : n <= m
<1>1. PICK top \in T : TRUE
  OBVIOUS
<1> DEFINE Up == 0 .. top
           Low == {0 .. n : n \in {m \in T : m <= top}}
           R == StrictSubsetOrdering(Up)
<1>2. IsFiniteSet(Up)
  BY <1>1, FS_Interval
<1>3. IsWellFoundedOn(R, SUBSET Up)
  BY <1>2, FS_StrictSubsetOrderingWellFounded, FS_FiniteSubsetsOfFinite
<1>4. Low \subseteq SUBSET Up /\ Low # {}
  BY <1>1
<1>5. \E A \in Low : \A B \in Low : <<B, A>> \notin R
  <2> HIDE DEF R, Low, Up
  <2> QED BY <1>3, <1>4, WFMin
<1>6. PICK n \in {m \in T : m <= top} : \A B \in Low : <<B, 0 .. n>> \notin R
  BY <1>5
<1>7. ASSUME NEW m \in T, m < n PROVE FALSE
  <2>1. 0 .. m \in Low /\ 0 .. m \subseteq 0 .. n /\ 0 .. m # 0 .. n
    BY <1>6, <1>7
  <2>2. 0 .. m \in SUBSET Up /\ 0 .. n \in SUBSET Up
    BY <1>6, <1>7
  <2> QED BY <1>6, <2>1, <2>2 DEF StrictSubsetOrdering
<1> QED BY <1>6, <1>7

\* No element stands at two places of q.
Distinct(q) == \A i, j \in 1 .. Len(q) : q[i] = q[j] => i = j

\* The places up to i among some places are counted without gaps.
LEMMA RankOnto ==
    ASSUME NEW n \in Nat, NEW places \in SUBSET (1 .. n)
    PROVE  /\ IsFiniteSet(places) /\ Cardinality(places) \in Nat
           /\ Cardinality(places) <= n
           /\ \A k \in 1 .. Cardinality(places) :
                \E i \in places : Cardinality(places \cap 1 .. i) = k
           /\ \A i \in places : Cardinality(places \cap 1 .. i) \in 1 .. Cardinality(places)
           /\ \A i, j \in places :
                Cardinality(places \cap 1 .. i) = Cardinality(places \cap 1 .. j) => i = j
           /\ \A i, j \in places :
                i < j => Cardinality(places \cap 1 .. i) < Cardinality(places \cap 1 .. j)
<1> DEFINE Upto(i) == places \cap 1 .. i
           rank == [i \in places |-> Cardinality(Upto(i))]
           c == Cardinality(places)
<1>1. IsFiniteSet(1 .. n) /\ Cardinality(1 .. n) = n
  BY FS_Interval
<1>2. IsFiniteSet(places) /\ c \in Nat /\ c <= n
  BY <1>1, FS_Subset, FS_CardinalityType
<1>3. \A i \in places : IsFiniteSet(Upto(i)) /\ Cardinality(Upto(i)) \in Nat
                        /\ Cardinality(Upto(i)) <= c /\ Upto(i) # {} /\ i \in Upto(i)
  BY <1>2, FS_Subset, FS_CardinalityType
<1>4. \A i \in places : Cardinality(Upto(i)) \in 1 .. c
  <2> SUFFICES ASSUME NEW i \in places PROVE Cardinality(Upto(i)) \in 1 .. c
    OBVIOUS
  <2>1. /\ IsFiniteSet(Upto(i)) /\ Upto(i) # {}
        /\ Cardinality(Upto(i)) \in Nat /\ Cardinality(Upto(i)) <= c
    BY <1>3
  <2> HIDE DEF Upto, c
  <2>2. Cardinality(Upto(i)) # 0
    BY <2>1, FS_EmptySet
  <2> QED BY <1>2, <2>1, <2>2
<1>5. ASSUME NEW i \in places, NEW j \in places, i < j
      PROVE  Cardinality(Upto(i)) < Cardinality(Upto(j))
  <2>1. Upto(i) \in SUBSET Upto(j) /\ Upto(i) # Upto(j)
    BY <1>3, <1>5
  <2>2. IsFiniteSet(Upto(j)) /\ Cardinality(Upto(i)) \in Nat /\ Cardinality(Upto(j)) \in Nat
    BY <1>3
  <2> QED
    BY <2>1, <2>2, FS_Subset
<1>6. \A i, j \in places : Cardinality(Upto(i)) = Cardinality(Upto(j)) => i = j
  <2> SUFFICES ASSUME NEW i \in places, NEW j \in places, i # j
               PROVE  Cardinality(Upto(i)) # Cardinality(Upto(j))
    OBVIOUS
  <2>1. i < j \/ j < i
    OBVIOUS
  <2>2. Cardinality(Upto(i)) \in Nat /\ Cardinality(Upto(j)) \in Nat
    BY <1>3
  <2> HIDE DEF Upto
  <2> QED BY <1>5, <2>1, <2>2
<1>7. rank \in Injection(places, 1 .. c)
  <2> HIDE DEF Upto, c
  <2> QED BY <1>4, <1>6 DEF Injection, IsInjective
<1>8. rank \in Surjection(places, 1 .. c)
  <2>1. IsFiniteSet(1 .. c) /\ Cardinality(1 .. c) = c
    BY <1>2, FS_Interval
  <2> HIDE DEF c, rank
  <2> QED BY <1>2, <1>7, <2>1, FS_Injection DEF c
<1>9. \A k \in 1 .. c : \E i \in places : Cardinality(Upto(i)) = k
  <2> HIDE DEF c, Upto
  <2> QED BY <1>8 DEF Surjection
<1> QED BY <1>2, <1>4, <1>5, <1>6, <1>9

\* What Kept leaves out and keeps.
LEMMA KeptFacts ==
    ASSUME NEW D, NEW q \in Seq(D), NEW S
    PROVE  /\ Kept(q, S) \in Seq(D)
           /\ Len(Kept(q, S)) = Cardinality({i \in 1 .. Len(q) : q[i] \in S})
           /\ Len(Kept(q, S)) <= Len(q)
           /\ Elems(Kept(q, S)) = Elems(q) \cap S
           /\ Distinct(q) => Distinct(Kept(q, S))
<1> DEFINE places == {i \in 1 .. Len(q) : q[i] \in S}
           c == Cardinality(places)
           at(k) == CHOOSE i \in places : Cardinality(places \cap 1 .. i) = k
<1>1. Len(q) \in Nat /\ places \in SUBSET (1 .. Len(q))
  OBVIOUS
<1>2. /\ c \in Nat /\ c <= Len(q)
      /\ \A k \in 1 .. c : \E i \in places : Cardinality(places \cap 1 .. i) = k
      /\ \A i \in places : Cardinality(places \cap 1 .. i) \in 1 .. c
      /\ \A i, j \in places :
                Cardinality(places \cap 1 .. i) = Cardinality(places \cap 1 .. j) => i = j
  <2> HIDE DEF places
  <2> QED BY <1>1, RankOnto
<1>3. \A k \in 1 .. c : at(k) \in places /\ Cardinality(places \cap 1 .. at(k)) = k
  <2> HIDE DEF places, c
  <2> QED BY <1>2
<1>4. Kept(q, S) = [k \in 1 .. c |-> q[at(k)]]
  BY DEF Kept
<1>5. \A k \in 1 .. c : q[at(k)] \in D \cap S /\ at(k) \in 1 .. Len(q)
  <2>1. \A i \in places : q[i] \in D \cap S /\ i \in 1 .. Len(q)
    OBVIOUS
  <2> HIDE DEF places, c, at
  <2> QED BY <1>3, <2>1
<1>6. Kept(q, S) \in Seq(D) /\ Len(Kept(q, S)) = c
  <2> HIDE DEF c, at
  <2> QED BY <1>2, <1>4, <1>5
<1>7. \A i \in places : at(Cardinality(places \cap 1 .. i)) = i
  <2> HIDE DEF places, c
  <2> QED BY <1>2, <1>3
<1>8. Elems(Kept(q, S)) = Elems(q) \cap S
  <2>1. ASSUME NEW k \in 1 .. c PROVE Kept(q, S)[k] \in Elems(q) \cap S
    BY <1>4, <1>5 DEF Elems
  <2>2. ASSUME NEW i \in places PROVE q[i] \in Elems(Kept(q, S))
    <3>1. Cardinality(places \cap 1 .. i) \in 1 .. c
      BY <1>2
    <3>2. Kept(q, S)[Cardinality(places \cap 1 .. i)] = q[i]
      <4> HIDE DEF c, at, places
      <4> QED BY <1>4, <1>7, <3>1
    <3> QED BY <1>6, <3>1, <3>2 DEF Elems
  <2> QED BY <1>6, <2>1, <2>2 DEF Elems
<1>9. ASSUME Distinct(q) PROVE Distinct(Kept(q, S))
  <2> HIDE DEF places, c, at
  <2>1. \A k, m \in 1 .. c : q[at(k)] = q[at(m)] => at(k) = at(m)
    BY <1>5, <1>9 DEF Distinct
  <2>2. \A k, m \in 1 .. c : at(k) = at(m) => k = m
    BY <1>3
  <2>3. \A k \in 1 .. c : Kept(q, S)[k] = q[at(k)]
    BY <1>4
  <2> QED BY <1>6, <2>1, <2>2, <2>3 DEF Distinct
<1> QED BY <1>2, <1>6, <1>8, <1>9

\* Sequences seen as sets: joined, cut in two, prolonged, reversed.
LEMMA ConcatFacts ==
    ASSUME NEW D, NEW p \in Seq(D), NEW q \in Seq(D)
    PROVE  /\ p \o q \in Seq(D) /\ Len(p \o q) = Len(p) + Len(q)
           /\ Elems(p \o q) = Elems(p) \cup Elems(q)
           /\ Distinct(p \o q)
                <=> Distinct(p) /\ Distinct(q) /\ Elems(p) \cap Elems(q) = {}
<1> DEFINE c == p \o q
           m == Len(p)
           n == Len(q)
<1>1. c \in Seq(D) /\ Len(c) = m + n /\ m \in Nat /\ n \in Nat
  OBVIOUS
<1>2. \A i \in 1 .. m : c[i] = p[i]
  OBVIOUS
<1>3. \A j \in 1 .. n : c[m + j] = q[j]
  OBVIOUS
<1> HIDE DEF c, m, n
<1>4. /\ \A i \in 1 .. m : i \in 1 .. m + n
      /\ \A j \in 1 .. n : m + j \in 1 .. m + n /\ m + j \notin 1 .. m
      /\ \A i, j \in 1 .. n : m + i = m + j => i = j
  BY <1>1
<1>5. \A i \in 1 .. m + n : i \in 1 .. m \/ \E j \in 1 .. n : i = m + j
  <2> SUFFICES ASSUME NEW i \in 1 .. m + n, i \notin 1 .. m
               PROVE  i - m \in 1 .. n /\ i = m + (i - m)
    OBVIOUS
  <2> QED BY <1>1
<1>6. Elems(c) = Elems(p) \cup Elems(q)
  <2>1. \A i \in 1 .. m + n : c[i] \in Elems(p) \cup Elems(q)
    <3> SUFFICES ASSUME NEW i \in 1 .. m + n PROVE c[i] \in Elems(p) \cup Elems(q)
      OBVIOUS
    <3>1. CASE i \in 1 .. m
      BY <1>2, <3>1 DEF Elems, m
    <3>2. CASE \E j \in 1 .. n : i = m + j
      BY <1>3, <3>2 DEF Elems, n
    <3> QED BY <1>5, <3>1, <3>2
  <2>2. \A i \in 1 .. m : p[i] \in Elems(c)
    BY <1>1, <1>2, <1>4 DEF Elems
  <2>3. \A j \in 1 .. n : q[j] \in Elems(c)
    BY <1>1, <1>3, <1>4 DEF Elems
  <2>4. Elems(c) \subseteq Elems(p) \cup Elems(q)
    BY <1>1, <2>1 DEF Elems
  <2>5. Elems(p) \subseteq Elems(c) /\ Elems(q) \subseteq Elems(c)
    BY <2>2, <2>3 DEF Elems, m, n
  <2> QED BY <2>4, <2>5
<1>7. ASSUME Distinct(c)
      PROVE  Distinct(p) /\ Distinct(q) /\ Elems(p) \cap Elems(q) = {}
  <2>1. \A i, j \in 1 .. m : p[i] = p[j] => i = j
    BY <1>1, <1>2, <1>4, <1>7 DEF Distinct
  <2>2. \A i, j \in 1 .. n : q[i] = q[j] => i = j
    <3> SUFFICES ASSUME NEW i \in 1 .. n, NEW j \in 1 .. n, q[i] = q[j] PROVE i = j
      OBVIOUS
    <3>1. /\ c[m + i] = c[m + j]
          /\ m + i \in 1 .. Len(c) /\ m + j \in 1 .. Len(c)
      BY <1>1, <1>3, <1>4
    <3>2. m + i = m + j
      BY <1>7, <3>1 DEF Distinct
    <3> QED BY <1>4, <3>2
  <2>3. ASSUME NEW i \in 1 .. m, NEW j \in 1 .. n, p[i] = q[j] PROVE FALSE
    <3>1. /\ c[i] = c[m + j] /\ m + j \notin 1 .. m
          /\ i \in 1 .. Len(c) /\ m + j \in 1 .. Len(c)
      BY <1>1, <1>2, <1>3, <1>4, <2>3
    <3>2. i = m + j
      BY <1>7, <3>1 DEF Distinct
    <3> QED BY <3>1, <3>2
  <2> QED BY <2>1, <2>2, <2>3 DEF Elems, Distinct, m, n
<1>8. ASSUME Distinct(p), Distinct(q), Elems(p) \cap Elems(q) = {}
      PROVE  Distinct(c)
  <2> SUFFICES ASSUME NEW i \in 1 .. m + n, NEW j \in 1 .. m + n, c[i] = c[j]
               PROVE  i = j
    BY <1>1 DEF Distinct
  <2>0. \A k \in 1 .. m, l \in 1 .. n : p[k] # q[l]
    BY <1>8 DEF Elems, m, n
  <2>1. CASE i \in 1 .. m /\ j \in 1 .. m
    BY <1>2, <1>8, <2>1 DEF Distinct, m
  <2>2. CASE i \notin 1 .. m /\ j \notin 1 .. m
    <3>1. PICK k \in 1 .. n : i = m + k
      BY <1>5, <2>2
    <3>2. PICK l \in 1 .. n : j = m + l
      BY <1>5, <2>2
    <3>3. q[k] = q[l]
      BY <1>3, <3>1, <3>2
    <3> QED BY <1>8, <3>1, <3>2, <3>3 DEF Distinct, n
  <2>3. CASE i \in 1 .. m /\ j \notin 1 .. m
    BY <1>2, <1>3, <1>5, <2>0, <2>3
  <2>4. CASE i \notin 1 .. m /\ j \in 1 .. m
    BY <1>2, <1>3, <1>5, <2>0, <2>4
  <2> QED BY <2>1, <2>2, <2>3, <2>4
<1> QED BY <1>1, <1>6, <1>7, <1>8 DEF c, m, n

\* A sequence cut in two: the parts' elements, and distinctness, are the whole's.
LEMMA CutFacts ==
    ASSUME NEW D, NEW q \in Seq(D), NEW n \in 0 .. Len(q)
    PROVE  /\ SubSeq(q, 1, n) \in Seq(D) /\ Len(SubSeq(q, 1, n)) = n
           /\ SubSeq(q, n + 1, Len(q)) \in Seq(D)
           /\ Len(SubSeq(q, n + 1, Len(q))) = Len(q) - n
           /\ q = SubSeq(q, 1, n) \o SubSeq(q, n + 1, Len(q))
           /\ Elems(q) = Elems(SubSeq(q, 1, n)) \cup Elems(SubSeq(q, n + 1, Len(q)))
           /\ Distinct(q) =>
                /\ Distinct(SubSeq(q, 1, n)) /\ Distinct(SubSeq(q, n + 1, Len(q)))
                /\ Elems(SubSeq(q, 1, n)) \cap Elems(SubSeq(q, n + 1, Len(q))) = {}
<1>1. /\ SubSeq(q, 1, n) \in Seq(D) /\ Len(SubSeq(q, 1, n)) = n
      /\ SubSeq(q, n + 1, Len(q)) \in Seq(D) /\ Len(SubSeq(q, n + 1, Len(q))) = Len(q) - n
  OBVIOUS
<1>2. q = SubSeq(q, 1, n) \o SubSeq(q, n + 1, Len(q))
  BY ConcatAdjacentSubSeq, SubSeqFull, 1 \in 1 .. Len(q) + 1, n \in 1 - 1 .. Len(q),
     Len(q) \in n .. Len(q)
<1> DEFINE front == SubSeq(q, 1, n)
           back  == SubSeq(q, n + 1, Len(q))
<1> HIDE DEF front, back
<1>3. /\ Elems(front \o back) = Elems(front) \cup Elems(back)
      /\ Distinct(front \o back)
           <=> Distinct(front) /\ Distinct(back) /\ Elems(front) \cap Elems(back) = {}
  <2>1. front \in Seq(D) /\ back \in Seq(D)
    BY <1>1 DEF front, back
  <2> QED BY <2>1, ConcatFacts
<1> QED BY <1>1, <1>2, <1>3 DEF front, back

\* Appending adds one element.
LEMMA OneMoreFacts ==
    ASSUME NEW D, NEW q \in Seq(D), NEW x \in D
    PROVE  /\ Append(q, x) \in Seq(D)
           /\ Elems(Append(q, x)) = Elems(q) \cup {x}
           /\ Distinct(Append(q, x)) <=> Distinct(q) /\ x \notin Elems(q)
<1>1. Append(q, x) \in Seq(D) /\ Append(q, x) = q \o <<x>> /\ <<x>> \in Seq(D)
  OBVIOUS
<1>2. Elems(<<x>>) = {x} /\ Distinct(<<x>>)
  BY DEF Elems, Distinct
<1> DEFINE last == <<x>>
<1> HIDE DEF last
<1>3. /\ Elems(q \o last) = Elems(q) \cup Elems(last)
      /\ Distinct(q \o last)
           <=> Distinct(q) /\ Distinct(last) /\ Elems(q) \cap Elems(last) = {}
  <2>1. last \in Seq(D)
    BY <1>1 DEF last
  <2> QED BY <2>1, ConcatFacts
<1> QED BY <1>1, <1>2, <1>3, Zenon DEF last

\* The last element and the ones before it; the first.
LEMMA LastFacts ==
    ASSUME NEW D, NEW q \in Seq(D), q # <<>>
    PROVE  LET front == SubSeq(q, 1, Len(q) - 1)
               last  == q[Len(q)]
           IN  /\ front \in Seq(D) /\ last \in D
               /\ Elems(q) = Elems(front) \cup {last}
               /\ Distinct(q) <=> Distinct(front) /\ last \notin Elems(front)
<1> DEFINE front == SubSeq(q, 1, Len(q) - 1)
           last  == q[Len(q)]
<1>1. Len(q) \in Nat \ {0} /\ front \in Seq(D) /\ last \in D /\ Len(front) = Len(q) - 1
  OBVIOUS
<1>2. \A i \in 1 .. Len(q) - 1 : front[i] = q[i]
  OBVIOUS
<1>3. /\ Append(front, last) \in Seq(D) /\ Len(Append(front, last)) = Len(q)
      /\ Append(front, last)[Len(q)] = last
      /\ \A i \in 1 .. Len(q) - 1 : Append(front, last)[i] = front[i]
  <2> HIDE DEF front, last
  <2> QED BY <1>1
<1>4. Append(front, last) = q
  <2> DEFINE p == Append(front, last)
  <2>1. \A i \in 1 .. Len(q) : p[i] = q[i]
    <3>1. p[Len(q)] = q[Len(q)] /\ \A i \in 1 .. Len(q) - 1 : p[i] = q[i]
      BY <1>2, <1>3
    <3> HIDE DEF p
    <3> QED BY <1>1, <3>1
  <2>2. p \in Seq(D) /\ Len(p) = Len(q)
    BY <1>3
  <2>3. q \in Seq(D)
    OBVIOUS
  <2> HIDE DEF p
  <2>4. p = q
    BY <2>1, <2>2, <2>3, SeqEqual
  <2> QED BY <2>4 DEF p
<1> HIDE DEF front, last
<1>5. /\ Elems(Append(front, last)) = Elems(front) \cup {last}
      /\ Distinct(Append(front, last)) <=> Distinct(front) /\ last \notin Elems(front)
  BY <1>1, OneMoreFacts
<1> QED BY <1>1, <1>4, <1>5 DEF front, last

\* Without its first element a sequence of different elements lacks just that one.
LEMMA FirstFacts ==
    ASSUME NEW D, NEW q \in Seq(D), q # <<>>
    PROVE  /\ 1 \in 0 .. Len(q) /\ Head(q) \in D /\ Head(q) \in Elems(q)
           /\ Elems(SubSeq(q, 1, 1)) = {Head(q)}
<1>1. 1 \in 1 .. Len(q) /\ Head(q) = q[1] /\ Head(q) \in D
  OBVIOUS
<1>2. Len(SubSeq(q, 1, 1)) = 1 /\ SubSeq(q, 1, 1)[1] = Head(q)
  BY <1>1
<1>3. Elems(SubSeq(q, 1, 1)) = {Head(q)}
  BY <1>2 DEF Elems
<1> QED BY <1>1, <1>3 DEF Elems

\* Turned round.
LEMMA ReversedFacts ==
    ASSUME NEW D, NEW q \in Seq(D)
    PROVE  /\ Reversed(q) \in Seq(D) /\ Len(Reversed(q)) = Len(q)
           /\ Elems(Reversed(q)) = Elems(q) /\ (Distinct(q) => Distinct(Reversed(q)))
<1>1. Reversed(q) \in Seq(D) /\ Len(Reversed(q)) = Len(q)
  BY DEF Reversed
<1>2. \A i \in 1 .. Len(q) : /\ Len(q) + 1 - i \in 1 .. Len(q)
                             /\ Reversed(q)[i] = q[Len(q) + 1 - i]
                             /\ Reversed(q)[Len(q) + 1 - i] = q[i]
  BY DEF Reversed
<1> DEFINE r == Reversed(q)
<1> HIDE DEF r
<1>3. Elems(r) = Elems(q)
  <2>1. \A i \in 1 .. Len(q) : r[i] \in Elems(q) /\ q[i] \in Elems(r)
    BY <1>1, <1>2 DEF Elems, r
  <2> QED BY <1>1, <2>1 DEF Elems, r
<1>4. ASSUME Distinct(q) PROVE Distinct(r)
  <2> SUFFICES ASSUME NEW i \in 1 .. Len(q), NEW j \in 1 .. Len(q), r[i] = r[j]
               PROVE  i = j
    BY <1>1 DEF Distinct, r
  <2>1. Len(q) + 1 - i = Len(q) + 1 - j
    BY <1>2, <1>4 DEF Distinct, r
  <2> QED BY <2>1
<1> QED BY <1>1, <1>3, <1>4 DEF r

\* Distinct elements are as many as the places.
LEMMA DistinctCount ==
    ASSUME NEW D, NEW q \in Seq(D)
    PROVE  /\ IsFiniteSet(Elems(q)) /\ Cardinality(Elems(q)) <= Len(q)
           /\ Cardinality(Elems(q)) = Len(q) <=> Distinct(q)
<1>1. q \in Surjection(1 .. Len(q), Elems(q))
  BY DEF Surjection, Elems
<1>2. IsFiniteSet(1 .. Len(q)) /\ Cardinality(1 .. Len(q)) = Len(q)
  <2> DEFINE n == Len(q)
  <2>1. n \in Nat /\ 1 \in Int /\ n \in Int /\ n = n - 1 + 1
    OBVIOUS
  <2> HIDE DEF n
  <2>2. /\ IsFiniteSet(1 .. n)
        /\ Cardinality(1 .. n) = IF 1 > n THEN 0 ELSE n - 1 + 1
    BY <2>1, FS_Interval
  <2>3. IsFiniteSet(1 .. n) /\ Cardinality(1 .. n) = n
    BY <2>1, <2>2
  <2> QED BY <2>3 DEF n
<1>3. /\ IsFiniteSet(Elems(q))
      /\ Cardinality(Elems(q)) <= Cardinality(1 .. Len(q))
      /\ Cardinality(Elems(q)) = Cardinality(1 .. Len(q))
           <=> q \in Injection(1 .. Len(q), Elems(q))
  BY <1>1, <1>2, FS_Surjection
<1>4. q \in Injection(1 .. Len(q), Elems(q)) <=> Distinct(q)
  BY <1>1 DEF Injection, IsInjective, Surjection, Distinct
<1> QED BY <1>2, <1>3, <1>4
-----------------------------------------------------------------------------
(* The pool: the queue, the counts and the tables                          *)

Held(s) == Elems(table[s]) \cup Elems(reserved[s])

\* Every count is the number of holders, which are finitely many.
RefsCount ==
    \A b \in Blocks : IsFiniteSet(Holders(b)) /\ ref[b] = Cardinality(Holders(b))

TablesDistinct == \A s \in Seqs : Distinct(table[s] \o reserved[s])

PoolInv ==
    /\ BlockTypeOK
    /\ FreeIsUnreferenced
    /\ RefsCount
    /\ TablesDistinct

\* The part of the state that only the pool's operations change.
LEMMA HeldFacts ==
    ASSUME BlockTypeOK, NEW s \in Seqs
    PROVE  /\ table[s] \in Seq(Blocks) /\ reserved[s] \in Seq(Blocks)
           /\ Held(s) \subseteq Blocks
           /\ Elems(table[s] \o reserved[s]) = Held(s)
<1>1. table[s] \in Seq(Blocks) /\ reserved[s] \in Seq(Blocks)
  BY DEF BlockTypeOK
<1> DEFINE t == table[s]
           r == reserved[s]
<1> HIDE DEF t, r
<1>2. Elems(t \o r) = Elems(t) \cup Elems(r)
  BY <1>1, ConcatFacts DEF t, r
<1>3. Elems(t) \subseteq Blocks /\ Elems(r) \subseteq Blocks
  BY <1>1 DEF t, r, Elems
<1> QED BY <1>1, <1>2, <1>3 DEF t, r, Held

\* A step of one sequence, which counts what it takes and discounts what it leaves.
LEMMA RefsFollow ==
    ASSUME RefsCount, ref \in [Blocks -> Nat], ref' \in [Blocks -> Nat],
           NEW s \in Seqs, \A r \in Seqs \ {s} : Held(r)' = Held(r),
           \A b \in Blocks : ref'[b] = ref[b] + (IF b \in Held(s)' THEN 1 ELSE 0)
                                              - (IF b \in Held(s) THEN 1 ELSE 0)
    PROVE  RefsCount'
<1> SUFFICES ASSUME NEW b \in Blocks
             PROVE  IsFiniteSet(Holders(b)') /\ ref'[b] = Cardinality(Holders(b)')
  BY DEF RefsCount, Blocks
<1>1. /\ IsFiniteSet(Holders(b)) /\ ref[b] = Cardinality(Holders(b))
      /\ ref[b] \in Nat /\ ref'[b] \in Nat
  BY DEF RefsCount
<1>2. /\ Holders(b) = {r \in Seqs : b \in Held(r)}
      /\ Holders(b)' = {r \in Seqs : b \in Held(r)'}
  BY DEF Holders, Held
<1>3. CASE b \in Held(s)' /\ b \in Held(s)
  <2>1. Holders(b)' = Holders(b)
    BY <1>2, <1>3
  <2> QED BY <1>1, <1>3, <2>1
<1>4. CASE b \notin Held(s)' /\ b \notin Held(s)
  <2>1. Holders(b)' = Holders(b)
    BY <1>2, <1>4
  <2> QED BY <1>1, <1>4, <2>1
<1>5. CASE b \in Held(s)' /\ b \notin Held(s)
  <2>1. Holders(b)' = Holders(b) \cup {s} /\ s \notin Holders(b)
    BY <1>2, <1>5
  <2> QED BY <1>1, <1>5, <2>1, FS_AddElement
<1>6. CASE b \notin Held(s)' /\ b \in Held(s)
  <2>1. Holders(b)' = Holders(b) \ {s} /\ s \in Holders(b)
    BY <1>2, <1>6
  <2> QED BY <1>1, <1>6, <2>1, FS_RemoveElement
<1> QED BY <1>3, <1>4, <1>5, <1>6

\* A block that waits has no holder, and a block that is held does not wait.
LEMMA FreeHasNoHolder ==
    ASSUME PoolInv
    PROVE  /\ \A b \in Blocks : ref[b] = 0 <=> Holders(b) = {}
           /\ \A b \in Elems(free) : b \in Blocks /\ \A s \in Seqs : b \notin Held(s)
           /\ \A s \in Seqs : \A b \in Held(s) : b \in Blocks /\ ref[b] > 0 /\ ref[b] \in Nat
<1>1. \A b \in Blocks : ref[b] = 0 <=> Holders(b) = {}
  BY FS_EmptySet DEF PoolInv, RefsCount
<1>2. \A b \in Elems(free) : b \in Blocks /\ ref[b] = 0
  BY DEF PoolInv, FreeIsUnreferenced
<1>3. \A s \in Seqs : \A b \in Held(s) : b \in Blocks /\ s \in Holders(b)
  BY HeldFacts DEF PoolInv, Holders, Held
<1>4. \A b \in Blocks : ref[b] \in Nat
  BY DEF PoolInv, BlockTypeOK
<1> QED BY <1>1, <1>2, <1>3, <1>4 DEF Holders, Held

\* _allocate_block, n times, from a queue that holds exactly what nobody counts.
LEMMA TakeFrontFacts ==
    ASSUME BlockTypeOK, NEW q \in Seq(Blocks), NEW counts \in [Blocks -> Nat],
           NEW n \in 0 .. Len(q), Distinct(q), Elems(q) = {b \in Blocks : counts[b] = 0},
           TakeFront(q, n, counts)
    PROVE  LET taken == SubSeq(q, 1, n) IN
           /\ free' \in Seq(Blocks) /\ ref' \in [Blocks -> Nat]
           /\ hash' \in [Blocks -> Seq(Token)] /\ index' \subseteq Seq(Token) \X Blocks
           /\ FreeIsUnreferenced'
           /\ taken \in Seq(Blocks) /\ Len(taken) = n /\ Distinct(taken)
           /\ \A b \in Elems(taken) : b \in Blocks /\ counts[b] = 0
           /\ \A b \in Blocks : ref'[b] = counts[b] + (IF b \in Elems(taken) THEN 1 ELSE 0)
           /\ \A b \in Blocks : hash'[b] = IF b \in Elems(taken) THEN NoHash ELSE hash[b]
           /\ index' = {p \in index : p[2] \notin Elems(taken)}
<1> DEFINE taken == SubSeq(q, 1, n)
           rest  == SubSeq(q, n + 1, Len(q))
<1>1. /\ taken \in Seq(Blocks) /\ Len(taken) = n /\ rest \in Seq(Blocks)
      /\ Elems(q) = Elems(taken) \cup Elems(rest)
      /\ Distinct(taken) /\ Distinct(rest) /\ Elems(taken) \cap Elems(rest) = {}
  <2>1. taken \in Seq(Blocks) /\ Len(taken) = n /\ rest \in Seq(Blocks)
    OBVIOUS
  <2>2. Elems(q) = Elems(taken) \cup Elems(rest)
    BY CutFacts
  <2>3. Distinct(q) => /\ Distinct(taken) /\ Distinct(rest)
                       /\ Elems(taken) \cap Elems(rest) = {}
    BY CutFacts
  <2> QED BY <2>1, <2>2, <2>3
<1>2. /\ free' = rest
      /\ ref' = [b \in Blocks |-> IF b \in Elems(taken) THEN 1 ELSE counts[b]]
      /\ hash' = [b \in Blocks |-> IF b \in Elems(taken) THEN NoHash ELSE hash[b]]
      /\ index' = {p \in index : p[2] \notin Elems(taken)}
  BY DEF TakeFront
<1> HIDE DEF taken, rest
<1>3. \A b \in Elems(taken) : b \in Blocks /\ counts[b] = 0
  BY <1>1
<1>4. ref' \in [Blocks -> Nat]
  BY <1>2
<1>5. hash' \in [Blocks -> Seq(Token)] /\ index' \subseteq Seq(Token) \X Blocks
  <2>1. NoHash \in Seq(Token)
    BY DEF NoHash
  <2> QED BY <1>2, <2>1 DEF BlockTypeOK
<1>6. \A b \in Blocks : ref'[b] = counts[b] + (IF b \in Elems(taken) THEN 1 ELSE 0)
  BY <1>2, <1>3
<1>7. FreeIsUnreferenced'
  <2>1. Elems(rest) = {b \in Blocks : ref'[b] = 0}
    <3>1. \A b \in Blocks : counts[b] \in Nat
      OBVIOUS
    <3>2. \A b \in Blocks : b \in Elems(q) <=> counts[b] = 0
      OBVIOUS
    <3>3. Elems(rest) \subseteq Blocks
      BY <1>1
    <3> QED BY <1>1, <1>2, <3>1, <3>2, <3>3
  <2>2. FreeIsUnreferenced' <=> Elems(free') = {b \in Blocks : ref'[b] = 0} /\ Distinct(free')
    BY Zenon DEF FreeIsUnreferenced, Distinct, Elems, Blocks
  <2> QED BY <1>1, <1>2, <2>1, <2>2
<1> QED BY <1>1, <1>2, <1>3, <1>4, <1>5, <1>6, <1>7 DEF taken

\* What a step of one sequence has to show: its new table and reservation have no block
\* twice, the counts follow, and the queue is right again.
LEMMA PoolFollows ==
    ASSUME PoolInv, BlockTypeOK', FreeIsUnreferenced', NEW s \in Seqs,
           NEW t \in Seq(Blocks), NEW r \in Seq(Blocks), Distinct(t \o r),
           table' = [table EXCEPT ![s] = t], reserved' = [reserved EXCEPT ![s] = r],
           \A b \in Blocks :
              ref'[b] = ref[b] + (IF b \in Elems(t) \cup Elems(r) THEN 1 ELSE 0)
                                              - (IF b \in Held(s) THEN 1 ELSE 0)
    PROVE  /\ PoolInv'
           /\ Held(s)' = Elems(t) \cup Elems(r)
           /\ \A q \in Seqs \ {s} : Held(q)' = Held(q)
<1>1. /\ table \in [Seqs -> Seq(Blocks)] /\ reserved \in [Seqs -> Seq(Blocks)]
      /\ ref \in [Blocks -> Nat] /\ ref' \in [Blocks -> Nat]
  BY DEF PoolInv, BlockTypeOK, Blocks
<1>2. /\ table'[s] = t /\ reserved'[s] = r
      /\ \A q \in Seqs \ {s} : table'[q] = table[q] /\ reserved'[q] = reserved[q]
  BY <1>1
<1>3. /\ Held(s)' = Elems(t) \cup Elems(r)
      /\ \A q \in Seqs \ {s} : Held(q)' = Held(q)
  BY <1>2 DEF Held, Elems
<1>4. RefsCount'
  <2>1. RefsCount
    BY DEF PoolInv
  <2> QED BY <1>1, <1>3, <2>1, RefsFollow
<1>5. TablesDistinct'
  <2> SUFFICES ASSUME NEW q \in Seqs PROVE Distinct(table'[q] \o reserved'[q])
    BY DEF TablesDistinct, Distinct
  <2>1. Distinct(table[q] \o reserved[q])
    BY DEF PoolInv, TablesDistinct
  <2> QED BY <1>2, <2>1
<1> QED BY <1>3, <1>4, <1>5 DEF PoolInv

\* allocate_exclusive takes its blocks from the front of the queue.
LEMMA AllocateExclusivePool ==
    ASSUME PoolInv, NEW s \in Seqs, NEW total \in Nat, CanAllocateExclusive(total),
           SeqBlocks(s) \in 0 .. total, AllocateExclusive(s, total),
           tokens' \in [Seqs -> Seq(Token)], cached' \in [Seqs -> Nat]
    PROVE  /\ PoolInv'
           /\ Len(table'[s]) = SeqBlocks(s)
           /\ Len(table'[s]) + Len(reserved'[s]) = total
           /\ Held(s)' \subseteq Elems(free)
           /\ \A r \in Seqs \ {s} : table'[r] = table[r] /\ reserved'[r] = reserved[r]
           /\ \A b \in Blocks : hash'[b] = IF b \in Held(s)' THEN NoHash ELSE hash[b]
           /\ index' = {p \in index : p[2] \notin Held(s)'}
<1> DEFINE blocks == SubSeq(free, 1, total)
           t == SubSeq(blocks, 1, SeqBlocks(s))
           r == SubSeq(blocks, SeqBlocks(s) + 1, total)
<1>1. /\ BlockTypeOK /\ FreeIsUnreferenced /\ free \in Seq(Blocks) /\ ref \in [Blocks -> Nat]
      /\ table \in [Seqs -> Seq(Blocks)] /\ reserved \in [Seqs -> Seq(Blocks)]
  BY DEF PoolInv, BlockTypeOK
<1>2. Distinct(free) /\ Elems(free) = {b \in Blocks : ref[b] = 0}
  BY <1>1 DEF FreeIsUnreferenced, Distinct
<1>3. total \in 0 .. Len(free)
  BY <1>1 DEF CanAllocateExclusive
<1>4. /\ TakeFront(free, total, ref) /\ table[s] = <<>> /\ reserved[s] = <<>>
      /\ table' = [table EXCEPT ![s] = t] /\ reserved' = [reserved EXCEPT ![s] = r]
  BY DEF AllocateExclusive
<1>5. /\ free' \in Seq(Blocks) /\ ref' \in [Blocks -> Nat]
      /\ hash' \in [Blocks -> Seq(Token)] /\ index' \subseteq Seq(Token) \X Blocks
      /\ FreeIsUnreferenced'
      /\ blocks \in Seq(Blocks) /\ Len(blocks) = total /\ Distinct(blocks)
      /\ \A b \in Elems(blocks) : b \in Blocks /\ ref[b] = 0
      /\ \A b \in Blocks : ref'[b] = ref[b] + (IF b \in Elems(blocks) THEN 1 ELSE 0)
      /\ \A b \in Blocks : hash'[b] = IF b \in Elems(blocks) THEN NoHash ELSE hash[b]
      /\ index' = {p \in index : p[2] \notin Elems(blocks)}
  BY <1>1, <1>2, <1>3, <1>4, TakeFrontFacts
<1> HIDE DEF blocks
<1>6. /\ t \in Seq(Blocks) /\ r \in Seq(Blocks) /\ Len(t) = SeqBlocks(s)
      /\ blocks = t \o r /\ Elems(t) \cup Elems(r) = Elems(blocks)
  <2>1. t \in Seq(Blocks) /\ r \in Seq(Blocks) /\ Len(t) = SeqBlocks(s)
    BY <1>5
  <2>2. blocks = t \o r /\ Elems(t) \cup Elems(r) = Elems(blocks)
    BY <1>5, CutFacts
  <2> QED BY <2>1, <2>2
<1> HIDE DEF t, r
<1>7. Held(s) = {}
  BY <1>4 DEF Held, Elems
<1>8. BlockTypeOK'
  BY <1>1, <1>4, <1>5, <1>6 DEF BlockTypeOK, Blocks
<1>9. /\ PoolInv'
      /\ Held(s)' = Elems(t) \cup Elems(r)
      /\ \A q \in Seqs \ {s} : Held(q)' = Held(q)
  <2>1. \A b \in Blocks : ref'[b] = ref[b] + (IF b \in Elems(t) \cup Elems(r) THEN 1 ELSE 0)
                                           - (IF b \in Held(s) THEN 1 ELSE 0)
    <3>1. \A b \in Blocks : ref[b] \in Nat
      BY <1>1
    <3> QED BY <1>5, <1>6, <1>7, <3>1
  <2>2. Distinct(t \o r)
    BY <1>5, <1>6
  <2> QED BY <1>4, <1>5, <1>6, <1>8, <2>1, <2>2, PoolFollows
<1>10. \A q \in Seqs \ {s} : table'[q] = table[q] /\ reserved'[q] = reserved[q]
  BY <1>1, <1>4
<1>11. Len(table'[s]) = SeqBlocks(s) /\ Len(table'[s]) + Len(reserved'[s]) = total
  <2>1. Len(t \o r) = Len(t) + Len(r)
    BY <1>6, ConcatFacts
  <2> QED BY <1>1, <1>4, <1>5, <1>6, <2>1
<1> QED BY <1>2, <1>5, <1>6, <1>9, <1>10, <1>11

\* may_append holds one more block, the last of the reservation or the front of the
\* queue, or does nothing.
LEMMA MayAppendPool ==
    ASSUME PoolInv, NEW s \in Seqs, MayAppend(s),
           tokens' \in [Seqs -> Seq(Token)], cached' \in [Seqs -> Nat]
    PROVE  /\ PoolInv'
           /\ \A r \in Seqs \ {s} : table'[r] = table[r] /\ reserved'[r] = reserved[r]
           /\ \/ UNCHANGED <<table, reserved, free, ref, hash, index>>
              \/ /\ UNCHANGED <<free, ref, hash, index>> /\ reserved[s] # <<>>
                 /\ Held(s)' = Held(s)
                 /\ table'[s] = Append(table[s], reserved[s][Len(reserved[s])])
                 /\ Elems(reserved'[s]) \subseteq Elems(reserved[s])
              \/ \E b \in Elems(free) :
                    /\ table'[s] = Append(table[s], b) /\ reserved' = reserved
                    /\ reserved[s] = <<>>
                    /\ Held(s)' = Held(s) \cup {b}
                    /\ \A c \in Blocks : hash'[c] = IF c = b THEN NoHash ELSE hash[c]
                    /\ index' = {p \in index : p[2] # b}
<1>1. /\ BlockTypeOK /\ FreeIsUnreferenced /\ free \in Seq(Blocks) /\ ref \in [Blocks -> Nat]
      /\ table \in [Seqs -> Seq(Blocks)] /\ reserved \in [Seqs -> Seq(Blocks)]
      /\ table[s] \in Seq(Blocks) /\ reserved[s] \in Seq(Blocks)
  BY DEF PoolInv, BlockTypeOK
<1>2. Distinct(free) /\ Elems(free) = {b \in Blocks : ref[b] = 0}
  BY <1>1 DEF FreeIsUnreferenced, Distinct
<1>3. Distinct(table[s] \o reserved[s])
  BY DEF PoolInv, TablesDistinct
<1> DEFINE old == table[s]
<1>4. /\ old \in Seq(Blocks)
      /\ \A b \in Blocks :
            /\ Append(old, b) \in Seq(Blocks) /\ Elems(Append(old, b)) = Elems(old) \cup {b}
            /\ Distinct(Append(old, b)) <=> Distinct(old) /\ b \notin Elems(old)
  <2>1. old \in Seq(Blocks)
    BY <1>1
  <2> HIDE DEF old
  <2> QED BY <2>1, OneMoreFacts
<1>5. /\ Distinct(old) /\ Distinct(reserved[s])
      /\ Elems(old) \cap Elems(reserved[s]) = {}
  <2> DEFINE kept == reserved[s]
  <2> HIDE DEF old, kept
  <2>1. old \in Seq(Blocks) /\ kept \in Seq(Blocks) /\ Distinct(old \o kept)
    BY <1>1, <1>3 DEF old, kept
  <2> QED BY <2>1, ConcatFacts DEF kept
<1>6. CASE UNCHANGED <<table, reserved, blockVars>>
  <2>1. BlockTypeOK'
    BY <1>1, <1>6 DEF blockVars, BlockTypeOK, Blocks
  <2>2. FreeIsUnreferenced'
    BY <1>1, <1>6 DEF blockVars, FreeIsUnreferenced
  <2>3. RefsCount'
    <3>1. \A b \in Blocks : Holders(b)' = Holders(b)
      BY <1>6 DEF Holders, Elems
    <3> QED BY <1>6, <3>1 DEF blockVars, PoolInv, RefsCount
  <2>4. TablesDistinct'
    <3>1. table' = table /\ reserved' = reserved
      BY <1>6
    <3>2. \A q \in Seqs : Distinct(table[q] \o reserved[q])
      BY DEF PoolInv, TablesDistinct
    <3> QED BY <3>1, <3>2 DEF TablesDistinct
  <2> QED BY <1>6, <2>1, <2>2, <2>3, <2>4 DEF blockVars, PoolInv
<1>7. CASE /\ reserved[s] # <<>>
           /\ table' = [table EXCEPT ![s] = Append(@, reserved[s][Len(reserved[s])])]
           /\ reserved' = [reserved EXCEPT ![s] = SubSeq(@, 1, Len(@) - 1)]
           /\ UNCHANGED blockVars
  <2> DEFINE last == reserved[s][Len(reserved[s])]
             r == SubSeq(reserved[s], 1, Len(reserved[s]) - 1)
             t == Append(old, last)
  <2>1. /\ last \in Blocks /\ r \in Seq(Blocks)
        /\ Elems(reserved[s]) = Elems(r) \cup {last}
        /\ Distinct(reserved[s]) <=> Distinct(r) /\ last \notin Elems(r)
    BY <1>1, <1>7, LastFacts
  <2>2. table' = [table EXCEPT ![s] = t] /\ reserved' = [reserved EXCEPT ![s] = r]
    BY <1>7
  <2> HIDE DEF last, r
  <2>3. /\ t \in Seq(Blocks) /\ Elems(t) = Elems(old) \cup {last}
        /\ Distinct(t) <=> Distinct(old) /\ last \notin Elems(old)
    BY <1>4, <2>1
  <2> HIDE DEF t, old
  <2>4. Distinct(t \o r)
    <3>1. Distinct(t) /\ Distinct(r) /\ Elems(t) \cap Elems(r) = {}
      BY <1>5, <2>1, <2>3
    <3> QED BY <2>1, <2>3, <3>1, ConcatFacts
  <2>5. Elems(t) \cup Elems(r) = Held(s)
    BY <2>1, <2>3 DEF Held, old
  <2>6. BlockTypeOK'
    <3>1. /\ free' \in Seq(Blocks) /\ ref' \in [Blocks -> Nat]
          /\ hash' \in [Blocks -> Seq(Token)] /\ index' \subseteq Seq(Token) \X Blocks
      BY <1>1, <1>7 DEF blockVars, BlockTypeOK
    <3>2. table' \in [Seqs -> Seq(Blocks)] /\ reserved' \in [Seqs -> Seq(Blocks)]
      BY <1>1, <2>1, <2>2, <2>3
    <3> QED BY <3>1, <3>2 DEF BlockTypeOK, Blocks
  <2>7. FreeIsUnreferenced' /\ ref' = ref
    BY <1>1, <1>7 DEF blockVars, FreeIsUnreferenced
  <2>8. PoolInv' /\ Held(s)' = Elems(t) \cup Elems(r)
    <3>1. \A b \in Blocks : ref'[b] = ref[b] + (IF b \in Elems(t) \cup Elems(r) THEN 1 ELSE 0)
                                             - (IF b \in Held(s) THEN 1 ELSE 0)
      <4>1. \A b \in Blocks : ref[b] \in Nat
        BY <1>1
      <4> QED BY <2>5, <2>7, <4>1
    <3>2. t \in Seq(Blocks) /\ r \in Seq(Blocks) /\ FreeIsUnreferenced'
      BY <2>1, <2>3, <2>7
    <3> QED BY <2>2, <2>4, <2>6, <3>1, <3>2, PoolFollows
  <2>9. /\ \A q \in Seqs \ {s} : table'[q] = table[q] /\ reserved'[q] = reserved[q]
        /\ table'[s] = Append(table[s], reserved[s][Len(reserved[s])]) /\ reserved'[s] = r
    BY <1>1, <2>2 DEF t, last, old
  <2> QED BY <1>7, <2>1, <2>5, <2>8, <2>9 DEF blockVars
<1>8. CASE /\ reserved[s] = <<>> /\ free # <<>>
           /\ table' = [table EXCEPT ![s] = Append(@, Head(free))]
           /\ TakeFront(free, 1, ref)
           /\ UNCHANGED reserved
  <2> DEFINE new == Head(free)
             t == Append(old, new)
             r == reserved[s]
             taken == SubSeq(free, 1, 1)
  <2>1. 1 \in 0 .. Len(free) /\ new \in Blocks /\ Elems(taken) = {new} /\ new \in Elems(free)
    BY <1>1, <1>8, FirstFacts
  <2>2. table' = [table EXCEPT ![s] = t] /\ reserved' = [reserved EXCEPT ![s] = r]
    BY <1>1, <1>8
  <2>3. /\ free' \in Seq(Blocks) /\ ref' \in [Blocks -> Nat]
        /\ hash' \in [Blocks -> Seq(Token)] /\ index' \subseteq Seq(Token) \X Blocks
        /\ FreeIsUnreferenced'
        /\ \A b \in Blocks : ref'[b] = ref[b] + (IF b \in Elems(taken) THEN 1 ELSE 0)
        /\ \A b \in Blocks : hash'[b] = IF b \in Elems(taken) THEN NoHash ELSE hash[b]
        /\ index' = {p \in index : p[2] \notin Elems(taken)}
    <3> DEFINE n == 1
    <3>1. TakeFront(free, n, ref) /\ n \in 0 .. Len(free)
      BY <1>8, <2>1
    <3>2. BlockTypeOK /\ free \in Seq(Blocks) /\ ref \in [Blocks -> Nat]
      BY <1>1
    <3> DEFINE front == SubSeq(free, 1, n)
    <3>3. front = taken
      OBVIOUS
    <3> HIDE DEF n, taken, new, t, r, old
    <3>4. /\ free' \in Seq(Blocks) /\ ref' \in [Blocks -> Nat]
          /\ hash' \in [Blocks -> Seq(Token)] /\ index' \subseteq Seq(Token) \X Blocks
          /\ FreeIsUnreferenced'
          /\ front \in Seq(Blocks) /\ Len(front) = n /\ Distinct(front)
          /\ \A b \in Elems(front) : b \in Blocks /\ ref[b] = 0
          /\ \A b \in Blocks : ref'[b] = ref[b] + (IF b \in Elems(front) THEN 1 ELSE 0)
          /\ \A b \in Blocks : hash'[b] = IF b \in Elems(front) THEN NoHash ELSE hash[b]
          /\ index' = {p \in index : p[2] \notin Elems(front)}
      BY <1>2, <3>1, <3>2, TakeFrontFacts
    <3> HIDE DEF front
    <3> QED BY <3>3, <3>4
  <2>4. /\ t \in Seq(Blocks) /\ Elems(t) = Elems(old) \cup {new}
        /\ Distinct(t) <=> Distinct(old) /\ new \notin Elems(old)
    BY <1>4, <2>1
  <2>5. r \in Seq(Blocks) /\ r = <<>> /\ Elems(r) = {} /\ t \o r = t
    BY <1>1, <1>8, <2>4 DEF Elems
  <2> HIDE DEF new, t, r, taken, old
  <2>6. new \notin Held(s)
    BY <2>1, FreeHasNoHolder
  <2>7. Distinct(t \o r)
    BY <1>5, <2>4, <2>5, <2>6 DEF Held, old
  <2>8. Elems(t) \cup Elems(r) = Held(s) \cup {new}
    BY <2>4, <2>5 DEF Held, r, old
  <2>9. BlockTypeOK'
    BY <1>1, <2>2, <2>3, <2>4, <2>5 DEF BlockTypeOK, Blocks
  <2>10. PoolInv' /\ Held(s)' = Elems(t) \cup Elems(r)
    <3>1. \A b \in Blocks : ref'[b] = ref[b] + (IF b \in Elems(t) \cup Elems(r) THEN 1 ELSE 0)
                                             - (IF b \in Held(s) THEN 1 ELSE 0)
      <4>1. \A b \in Blocks : ref[b] \in Nat
        BY <1>1
      <4>2. \A b \in Blocks : b \in Elems(t) \cup Elems(r) <=> b \in Held(s) \/ b = new
        BY <2>8
      <4>3. \A b \in Blocks : ref'[b] = ref[b] + (IF b = new THEN 1 ELSE 0)
        BY <2>1, <2>3
      <4>4. SUFFICES ASSUME NEW b \in Blocks
                     PROVE  ref'[b] = ref[b] + (IF b \in Elems(t) \cup Elems(r) THEN 1 ELSE 0)
                                             - (IF b \in Held(s) THEN 1 ELSE 0)
        OBVIOUS
      <4>5. ref[b] \in Nat /\ ref'[b] = ref[b] + (IF b = new THEN 1 ELSE 0)
        BY <4>1, <4>3
      <4>6. CASE b = new
        BY <2>6, <4>2, <4>5, <4>6
      <4>7. CASE b # new
        BY <4>2, <4>5, <4>7
      <4> QED BY <4>6, <4>7
    <3>2. t \in Seq(Blocks) /\ r \in Seq(Blocks) /\ FreeIsUnreferenced'
      BY <2>3, <2>4, <2>5
    <3> QED BY <2>2, <2>7, <2>9, <3>1, <3>2, PoolFollows
  <2>11. /\ \A q \in Seqs \ {s} : table'[q] = table[q] /\ reserved'[q] = reserved[q]
         /\ table'[s] = Append(table[s], new)
    BY <1>1, <1>8, <2>2 DEF t, old
  <2>12. \A c \in Blocks : hash'[c] = IF c = new THEN NoHash ELSE hash[c]
    BY <2>1, <2>3
  <2>13. index' = {p \in index : p[2] # new}
    BY <2>1, <2>3
  <2>14. /\ new \in Elems(free) /\ reserved' = reserved /\ reserved[s] = <<>>
         /\ table'[s] = Append(table[s], new) /\ Held(s)' = Held(s) \cup {new}
    BY <1>8, <2>1, <2>8, <2>10, <2>11
  <2> HIDE DEF MayAppend
  <2> QED BY <2>10, <2>11, <2>12, <2>13, <2>14, Zenon
<1> QED BY <1>6, <1>7, <1>8 DEF MayAppend

\* deallocate leaves nothing behind: what nobody else holds waits again.
LEMMA DeallocatePool ==
    ASSUME PoolInv, NEW s \in Seqs, NEW h, Deallocate(s, h),
           tokens' \in [Seqs -> Seq(Token)], cached' \in [Seqs -> Nat],
           hash' \in [Blocks -> Seq(Token)], index' \subseteq Seq(Token) \X Blocks
    PROVE  /\ PoolInv'
           /\ table'[s] = <<>> /\ reserved'[s] = <<>> /\ Held(s)' = {}
           /\ \A r \in Seqs \ {s} : table'[r] = table[r] /\ reserved'[r] = reserved[r]
<1> DEFINE blocks == table[s] \o reserved[s]
           plain  == {b \in Blocks : ref[b] = 1 /\ h[b] = NoHash}
           hashed == {b \in Blocks : ref[b] = 1 /\ h[b] # NoHash}
           front  == Kept(blocks, plain)
           back   == Reversed(Kept(blocks, hashed))
<1>1. /\ BlockTypeOK /\ free \in Seq(Blocks) /\ ref \in [Blocks -> Nat]
      /\ table \in [Seqs -> Seq(Blocks)] /\ reserved \in [Seqs -> Seq(Blocks)]
  BY DEF PoolInv, BlockTypeOK
<1>2. Distinct(free) /\ Elems(free) = {b \in Blocks : ref[b] = 0}
  BY DEF PoolInv, FreeIsUnreferenced, Distinct
<1>3. blocks \in Seq(Blocks) /\ Distinct(blocks) /\ Elems(blocks) = Held(s)
  <2>1. Distinct(blocks)
    BY DEF PoolInv, TablesDistinct
  <2>2. Elems(blocks) = Held(s)
    BY <1>1, HeldFacts
  <2> QED BY <1>1, <2>1, <2>2
<1>4. /\ ref' = [b \in Blocks |-> IF b \in Elems(blocks) THEN ref[b] - 1 ELSE ref[b]]
      /\ free' = front \o free \o back
      /\ table' = [table EXCEPT ![s] = <<>>] /\ reserved' = [reserved EXCEPT ![s] = <<>>]
  BY DEF Deallocate, Idle, IdleHashed
<1> HIDE DEF blocks
<1>5. /\ front \in Seq(Blocks) /\ Distinct(front) /\ Elems(front) = Held(s) \cap plain
      /\ Kept(blocks, hashed) \in Seq(Blocks) /\ Distinct(Kept(blocks, hashed))
      /\ Elems(Kept(blocks, hashed)) = Held(s) \cap hashed
  <2>1. ASSUME NEW S
        PROVE  /\ Kept(blocks, S) \in Seq(Blocks) /\ Distinct(Kept(blocks, S))
               /\ Elems(Kept(blocks, S)) = Held(s) \cap S
    <3>1. /\ Kept(blocks, S) \in Seq(Blocks)
          /\ Elems(Kept(blocks, S)) = Elems(blocks) \cap S
          /\ Distinct(blocks) => Distinct(Kept(blocks, S))
      BY <1>3, KeptFacts
    <3> QED BY <1>3, <3>1
  <2> HIDE DEF plain, hashed
  <2> QED BY <2>1 DEF front
<1>6. /\ back \in Seq(Blocks) /\ Distinct(back) /\ Elems(back) = Held(s) \cap hashed
  <2> HIDE DEF hashed
  <2> QED BY <1>5, ReversedFacts
<1> HIDE DEF front, back
<1>7. \A b \in Held(s) : b \in Blocks /\ ref[b] > 0 /\ ref[b] \in Nat
  BY FreeHasNoHolder
<1>8. /\ free' \in Seq(Blocks) /\ Distinct(free')
      /\ Elems(free') = (Held(s) \cap {b \in Blocks : ref[b] = 1}) \cup Elems(free)
  <2>1. Elems(front) \cap Elems(free) = {}
    BY <1>2, <1>5
  <2>2. /\ front \o free \in Seq(Blocks) /\ Distinct(front \o free)
        /\ Elems(front \o free) = Elems(front) \cup Elems(free)
    BY <1>1, <1>2, <1>5, <2>1, ConcatFacts
  <2>3. Elems(front \o free) \cap Elems(back) = {}
    BY <1>2, <1>5, <1>6, <2>2
  <2> DEFINE begin == front \o free
  <2> HIDE DEF begin
  <2>4. /\ begin \o back \in Seq(Blocks) /\ Distinct(begin \o back)
        /\ Elems(begin \o back) = Elems(begin) \cup Elems(back)
    BY <1>6, <2>2, <2>3, ConcatFacts DEF begin
  <2>5. free' = begin \o back
    BY <1>4 DEF begin
  <2> QED BY <1>5, <1>6, <2>2, <2>4, <2>5 DEF begin
<1>9. ref' \in [Blocks -> Nat]
  <2>1. \A b \in Blocks : ref[b] \in Nat
    BY <1>1
  <2> QED BY <1>3, <1>4, <1>7, <2>1
<1>10. FreeIsUnreferenced'
  <2>1. Elems(free') = {b \in Blocks : ref'[b] = 0}
    <3>1. \A b \in Blocks : ref[b] \in Nat
      BY <1>1
    <3>2. \A b \in Blocks : b \in Elems(free) <=> ref[b] = 0
      BY <1>2
    <3>3. \A b \in Blocks : ref'[b] = IF b \in Held(s) THEN ref[b] - 1 ELSE ref[b]
      BY <1>3, <1>4
    <3>4. \A b \in Blocks : b \in Elems(free') <=> ref'[b] = 0
      BY <1>7, <1>8, <3>1, <3>2, <3>3
    <3>5. Elems(free') \subseteq Blocks
      BY <1>2, <1>8
    <3> QED BY <3>4, <3>5
  <2>2. FreeIsUnreferenced' <=> Elems(free') = {b \in Blocks : ref'[b] = 0} /\ Distinct(free')
    BY Zenon DEF FreeIsUnreferenced, Distinct, Elems, Blocks
  <2> QED BY <1>8, <2>1, <2>2
<1>11. BlockTypeOK'
  <2>1. <<>> \in Seq(Blocks)
    OBVIOUS
  <2> QED BY <1>1, <1>4, <1>8, <1>9, <2>1 DEF BlockTypeOK, Blocks
<1>12. PoolInv' /\ Held(s)' = {}
  <2> DEFINE none == <<>>
  <2>1. none \in Seq(Blocks) /\ Elems(none) = {} /\ Distinct(none \o none)
    BY DEF Elems, Distinct
  <2>2. \A b \in Blocks :
           ref'[b] = ref[b] + (IF b \in Elems(none) \cup Elems(none) THEN 1 ELSE 0)
                                           - (IF b \in Held(s) THEN 1 ELSE 0)
    <3>1. \A b \in Blocks : ref[b] \in Nat
      BY <1>1
    <3> HIDE DEF none
    <3> QED BY <1>3, <1>4, <2>1, <3>1
  <2>3. table' = [table EXCEPT ![s] = none] /\ reserved' = [reserved EXCEPT ![s] = none]
    BY <1>4
  <2> HIDE DEF none
  <2>4. PoolInv' /\ Held(s)' = Elems(none) \cup Elems(none)
    BY <1>10, <1>11, <2>1, <2>2, <2>3, PoolFollows
  <2> QED BY <2>1, <2>4
<1>13. /\ table'[s] = <<>> /\ reserved'[s] = <<>>
       /\ \A q \in Seqs \ {s} : table'[q] = table[q] /\ reserved'[q] = reserved[q]
  BY <1>1, <1>4
<1> QED BY <1>12, <1>13
-----------------------------------------------------------------------------
(* Allocation by prefix                                                    *)

\* The blocks a prompt occupies by BlocksOf, and how many tokens the full ones hold.
LEMMA SeqBlocksFacts ==
    ASSUME BlockTypeOK, NEW s \in Seqs, tokens[s] # <<>>
    PROVE  /\ NumTokens(s) \in Nat \ {0} /\ SeqBlocks(s) \in Nat \ {0}
           /\ NumTokens(s) <= SeqBlocks(s) * BlockSize
           /\ \A i \in 0 .. SeqBlocks(s) - 1 : i * BlockSize \in 0 .. NumTokens(s)
<1>1. NumTokens(s) \in Nat \ {0} /\ BlockSize \in Nat \ {0}
  BY PoolAssumption DEF BlockTypeOK, NumTokens
<1> DEFINE n == NumTokens(s)
<1> HIDE DEF n
<1>2. SeqBlocks(s) = CeilDiv(n, BlockSize)
  BY DEF SeqBlocks, n
<1>3. CeilDiv(n, BlockSize) \in Nat \ {0} /\ n <= CeilDiv(n, BlockSize) * BlockSize
  BY <1>1 DEF CeilDiv, n
<1>4. \A i \in 0 .. CeilDiv(n, BlockSize) - 1 : i * BlockSize \in 0 .. n
  <2> SUFFICES ASSUME NEW i \in 0 .. CeilDiv(n, BlockSize) - 1
               PROVE  i * BlockSize \in 0 .. n
    OBVIOUS
  <2>1. i \in Nat /\ i <= CeilDiv(n, BlockSize) - 1
    BY <1>3
  <2>2. n \in Nat
    BY <1>1 DEF n
  <2> QED BY <1>1, <2>1, <2>2 DEF CeilDiv
<1> QED BY <1>1, <1>2, <1>3, <1>4 DEF n

\* The hash of a prefix names its length.
LEMMA PrefixHashFacts ==
    ASSUME BlockTypeOK, NEW s \in Seqs, NEW i \in Nat, i * BlockSize <= NumTokens(s)
    PROVE  /\ PrefixHash(s, i) \in Seq(Token) /\ Len(PrefixHash(s, i)) = i * BlockSize
           /\ PrefixHash(s, i) = NoHash <=> i = 0
<1>1. /\ tokens[s] \in Seq(Token) /\ BlockSize \in Nat \ {0}
      /\ i * BlockSize \in Nat /\ i * BlockSize <= Len(tokens[s])
  BY PoolAssumption DEF BlockTypeOK, NumTokens
<1> DEFINE m == i * BlockSize
<1>2. m = 0 <=> i = 0
  BY <1>1
<1> HIDE DEF m
<1>3. SubSeq(tokens[s], 1, m) \in Seq(Token) /\ Len(SubSeq(tokens[s], 1, m)) = m
  BY <1>1 DEF m
<1>4. SubSeq(tokens[s], 1, m) = <<>> <=> m = 0
  <2> DEFINE p == SubSeq(tokens[s], 1, m)
  <2>1. p \in Seq(Token) /\ Len(p) = m
    BY <1>3
  <2> HIDE DEF p
  <2>2. p = <<>> <=> m = 0
    BY <2>1
  <2> QED BY <2>2 DEF p
<1> QED BY <1>2, <1>3, <1>4 DEF PrefixHash, NoHash, m

\* can_allocate stops at the first block it does not find, at the last one at the latest.
LEMMA NumHitsFacts ==
    ASSUME BlockTypeOK, NEW s \in Seqs, tokens[s] # <<>>
    PROVE  /\ NumHits(s) \in 0 .. SeqBlocks(s) - 1
           /\ \A i \in 1 .. NumHits(s) : Matches(PrefixHash(s, i)) # {}
<1> DEFINE top == SeqBlocks(s) - 1
           Miss(n) == Matches(PrefixHash(s, n + 1)) = {}
           T == {n \in 0 .. top : n < top => Miss(n)}
           Stop(n) == /\ \A i \in 1 .. n : Matches(PrefixHash(s, i)) # {}
                      /\ n < SeqBlocks(s) - 1 => Matches(PrefixHash(s, n + 1)) = {}
<1>1. SeqBlocks(s) \in Nat \ {0} /\ top \in Nat
  BY SeqBlocksFacts
<1>2. T \in SUBSET Nat /\ top \in T
  <2> HIDE DEF Miss
  <2> QED BY <1>1
<1>3. PICK n \in T : \A m \in T : n <= m
  <2> HIDE DEF T
  <2> QED BY <1>2, LeastNatural
<1>4. n \in 0 .. SeqBlocks(s) - 1 /\ Stop(n)
  <2>1. n \in 0 .. top /\ (n < top => Miss(n))
    BY <1>3
  <2>2. ASSUME NEW i \in 1 .. n PROVE Matches(PrefixHash(s, i)) # {}
    <3>1. i - 1 \in 0 .. top /\ i - 1 < n /\ i - 1 < top /\ n \in Nat
      BY <1>1, <2>1
    <3>2. i - 1 \notin T
      <4> HIDE DEF T
      <4> QED BY <1>2, <1>3, <3>1
    <3>3. ~Miss(i - 1)
      <4> HIDE DEF Miss
      <4> QED BY <3>1, <3>2
    <3>4. (i - 1) + 1 = i
      OBVIOUS
    <3> QED BY <3>3, <3>4
  <2> QED BY <2>1, <2>2
<1>5. NumHits(s) = CHOOSE m \in 0 .. SeqBlocks(s) - 1 : Stop(m)
  BY DEF NumHits
<1>6. NumHits(s) \in 0 .. SeqBlocks(s) - 1 /\ Stop(NumHits(s))
  <2> HIDE DEF Stop
  <2> QED BY <1>4, <1>5
<1> QED BY <1>6

\* What is found holds the prefix that was looked up; no block is found twice.
LEMMA HitFacts ==
    ASSUME BlockTypeOK, IndexIsCurrent, NEW s \in Seqs, tokens[s] # <<>>,
           NEW hits \in [1 .. NumHits(s) -> Blocks],
           \A i \in 1 .. NumHits(s) : hits[i] \in Found(PrefixHash(s, i))
    PROVE  /\ hits \in Seq(Blocks) /\ Len(hits) = NumHits(s) /\ Distinct(hits)
           /\ \A i \in 1 .. NumHits(s) :
                /\ hash[hits[i]] = PrefixHash(s, i) /\ hash[hits[i]] # NoHash
                /\ ref[hits[i]] = 0 => UsedMatches(PrefixHash(s, i)) = {}
<1>1. NumHits(s) \in Nat /\ \A i \in 1 .. NumHits(s) : i \in 0 .. SeqBlocks(s) - 1
  <2>1. SeqBlocks(s) \in Nat \ {0}
    BY SeqBlocksFacts
  <2> QED BY <2>1, NumHitsFacts
<1>2. hits \in Seq(Blocks) /\ Len(hits) = NumHits(s)
  BY <1>1
<1>3. ASSUME NEW i \in 1 .. NumHits(s)
      PROVE  /\ hash[hits[i]] = PrefixHash(s, i) /\ hash[hits[i]] # NoHash
             /\ ref[hits[i]] = 0 => UsedMatches(PrefixHash(s, i)) = {}
  <2> DEFINE h == PrefixHash(s, i)
  <2> HIDE DEF h
  <2>1. hits[i] \in Found(h)
    BY DEF h
  <2>2. Found(h) \subseteq Matches(h) /\ (UsedMatches(h) # {} => Found(h) = UsedMatches(h))
    BY DEF Found, UsedMatches
  <2>3. <<h, hits[i]>> \in index /\ hash[hits[i]] # NoHash
    BY <2>1, <2>2 DEF Matches
  <2>4. hash[hits[i]] = h
    BY <2>3 DEF IndexIsCurrent
  <2>5. UsedMatches(h) # {} => ref[hits[i]] > 0
    BY <2>1, <2>2 DEF UsedMatches
  <2>6. ref[hits[i]] \in Nat
    BY DEF BlockTypeOK
  <2> QED BY <2>3, <2>4, <2>5, <2>6 DEF h
<1>4. Distinct(hits)
  <2> SUFFICES ASSUME NEW i \in 1 .. NumHits(s), NEW j \in 1 .. NumHits(s),
                      hits[i] = hits[j]
               PROVE  i = j
    BY <1>2 DEF Distinct
  <2>1. PrefixHash(s, i) = PrefixHash(s, j)
    BY <1>3
  <2>2. i * BlockSize <= NumTokens(s) /\ j * BlockSize <= NumTokens(s)
    BY <1>1, SeqBlocksFacts
  <2>3. /\ Len(PrefixHash(s, i)) = i * BlockSize
        /\ Len(PrefixHash(s, j)) = j * BlockSize
    BY <2>2, PrefixHashFacts
  <2> QED BY <2>1, <2>3, PoolAssumption
<1> QED BY <1>2, <1>3, <1>4

\* An interval cut in two.
LEMMA PartsCount ==
    ASSUME NEW m \in Nat, NEW A, NEW B, A \cup B = 1 .. m, A \cap B = {}
    PROVE  /\ IsFiniteSet(A) /\ Cardinality(A) \in Nat
           /\ IsFiniteSet(B) /\ Cardinality(B) \in Nat
           /\ Cardinality(A) + Cardinality(B) = m
<1>1. IsFiniteSet(1 .. m) /\ Cardinality(1 .. m) = m
  <2>1. 1 \in Int /\ m \in Int
    OBVIOUS
  <2> QED BY <2>1, FS_Interval
<1>2. /\ IsFiniteSet(A) /\ Cardinality(A) \in Nat
      /\ IsFiniteSet(B) /\ Cardinality(B) \in Nat
  <2>1. A \in SUBSET (1 .. m) /\ B \in SUBSET (1 .. m)
    OBVIOUS
  <2> QED BY <1>1, <2>1, FS_Subset, FS_CardinalityType
<1>3. Cardinality(A \cup B) = Cardinality(A) + Cardinality(B) - Cardinality(A \cap B)
  BY <1>2, FS_Union
<1>4. Cardinality(A \cap B) = 0
  BY FS_EmptySet
<1> DEFINE all == A \cup B
           both == A \cap B
<1>5. Cardinality(all) = Cardinality(A) + Cardinality(B) - Cardinality(both)
  BY <1>3
<1>6. Cardinality(both) = 0 /\ Cardinality(all) = m
  <2>1. all = 1 .. m
    OBVIOUS
  <2> HIDE DEF all
  <2> QED BY <1>1, <1>4, <2>1
<1> HIDE DEF all, both
<1> QED BY <1>2, <1>5, <1>6

\* The queue without the hits still pays for the rest: can_allocate counts an idle hit as a
\* block to take.
LEMMA EnoughBlocks ==
    ASSUME PoolInv, IndexIsCurrent, NEW s \in Seqs, tokens[s] # <<>>, CanAllocate(s),
           NEW hits \in [1 .. NumHits(s) -> Blocks],
           \A i \in 1 .. NumHits(s) : hits[i] \in Found(PrefixHash(s, i))
    PROVE  SeqBlocks(s) - NumHits(s) \in 0 .. Len(Kept(free, Blocks \ Elems(hits)))
<1> DEFINE n == NumHits(s)
           places == {i \in 1 .. Len(free) : free[i] \in Blocks \ Elems(hits)}
           lost   == {i \in 1 .. Len(free) : free[i] \in Elems(hits)}
           used   == {i \in 1 .. n : UsedMatches(PrefixHash(s, i)) # {}}
           idle   == {i \in 1 .. n : UsedMatches(PrefixHash(s, i)) = {}}
           at(i)  == CHOOSE j \in 1 .. n : hits[j] = free[i]
           f == [i \in lost |-> at(i)]
<1>1. /\ BlockTypeOK /\ free \in Seq(Blocks) /\ Len(free) \in Nat
      /\ Distinct(free) /\ Elems(free) = {b \in Blocks : ref[b] = 0}
  BY DEF PoolInv, BlockTypeOK, FreeIsUnreferenced, Distinct
<1>2. n \in 0 .. SeqBlocks(s) - 1 /\ SeqBlocks(s) \in Nat \ {0} /\ n \in Nat
  BY <1>1, NumHitsFacts, SeqBlocksFacts
<1>3. /\ Len(hits) = n /\ hits \in Seq(Blocks)
      /\ \A i \in 1 .. n : ref[hits[i]] = 0 => UsedMatches(PrefixHash(s, i)) = {}
  BY <1>1, HitFacts
<1>4. /\ IsFiniteSet(used) /\ Cardinality(used) \in Nat
      /\ IsFiniteSet(idle) /\ Cardinality(idle) \in Nat
      /\ Cardinality(used) + Cardinality(idle) = n
  <2>1. used \cup idle = 1 .. n /\ used \cap idle = {}
    OBVIOUS
  <2> HIDE DEF used, idle, n
  <2> QED BY <1>2, <2>1, PartsCount
<1>5. /\ IsFiniteSet(places) /\ Cardinality(places) \in Nat
      /\ IsFiniteSet(lost) /\ Cardinality(lost) \in Nat
      /\ Cardinality(places) + Cardinality(lost) = Len(free)
  <2>1. places \cup lost = 1 .. Len(free) /\ places \cap lost = {}
    BY <1>1
  <2> HIDE DEF places, lost
  <2> QED BY <1>1, <2>1, PartsCount
<1>8. Cardinality(lost) <= Cardinality(idle)
  <2>1. ASSUME NEW i \in lost PROVE at(i) \in idle /\ hits[at(i)] = free[i]
    <3>1. i \in 1 .. Len(free) /\ \E j \in 1 .. n : hits[j] = free[i]
      BY <1>3 DEF Elems
    <3>2. at(i) \in 1 .. n /\ hits[at(i)] = free[i]
      BY <3>1
    <3>3. free[i] \in Elems(free)
      BY <3>1 DEF Elems
    <3>4. ref[hits[at(i)]] = 0
      BY <1>1, <3>2, <3>3
    <3> HIDE DEF at
    <3> QED BY <1>3, <3>2, <3>4
  <2>2. \A i, j \in lost : free[i] = free[j] => i = j
    BY <1>1 DEF Distinct
  <2>3. f \in Injection(lost, idle)
    <3> HIDE DEF lost, idle, at
    <3> QED BY <2>1, <2>2 DEF Injection, IsInjective
  <2> HIDE DEF f, lost, idle
  <2> QED BY <1>4, <2>3, FS_Injection
<1>9. Len(Kept(free, Blocks \ Elems(hits))) = Cardinality(places)
  <2> DEFINE others == Blocks \ Elems(hits)
  <2> HIDE DEF others
  <2>1. Len(Kept(free, others)) = Cardinality({i \in 1 .. Len(free) : free[i] \in others})
    BY <1>1, KeptFacts
  <2> QED BY <2>1 DEF others
<1>10. Len(free) >= SeqBlocks(s) - Cardinality(used)
  BY DEF CanAllocate, NumUsedHits
<1> HIDE DEF n, places, lost, used, idle
<1>11. SeqBlocks(s) - n \in 0 .. Cardinality(places)
  BY <1>1, <1>2, <1>4, <1>5, <1>8, <1>10
<1> QED BY <1>9, <1>11 DEF n

\* allocate shares the hits, which keep their hashes, and takes the rest from what is
\* left of the queue.
LEMMA AllocatePool ==
    ASSUME PoolInv, IndexIsCurrent, NEW s \in Seqs, tokens[s] # <<>>,
           table[s] = <<>>, reserved[s] = <<>>, CanAllocate(s), Allocate(s),
           reserved' = reserved, tokens' = tokens
    PROVE  /\ PoolInv'
           /\ cached' = [cached EXCEPT ![s] = NumHits(s) * BlockSize]
           /\ \A r \in Seqs \ {s} : table'[r] = table[r]
           /\ \E hits \in Seq(Blocks), taken \in Seq(Blocks) :
                /\ table'[s] = hits \o taken /\ Held(s)' = Elems(hits) \cup Elems(taken)
                /\ Len(hits) = NumHits(s) /\ Len(hits) + Len(taken) = SeqBlocks(s)
                /\ \A i \in 1 .. Len(hits) :
                     hash[hits[i]] = PrefixHash(s, i) /\ hash[hits[i]] # NoHash
                /\ \A b \in Elems(taken) : b \in Elems(free) /\ b \notin Elems(hits)
                /\ \A b \in Blocks : hash'[b] = IF b \in Elems(taken) THEN NoHash ELSE hash[b]
                /\ index' = {p \in index : p[2] \notin Elems(taken)}
<1> DEFINE n == NumHits(s)
           need == SeqBlocks(s) - n
<1>1. PICK hits \in [1 .. n -> Blocks] :
        /\ \A i \in 1 .. n : hits[i] \in Found(PrefixHash(s, i))
        /\ LET shared == Elems(hits)
               queue  == Kept(free, Blocks \ shared)
               counts == [b \in Blocks |-> IF b \in shared THEN ref[b] + 1 ELSE ref[b]]
           IN  /\ TakeFront(queue, need, counts)
               /\ table' = [table EXCEPT ![s] = hits \o SubSeq(queue, 1, need)]
        /\ cached' = [cached EXCEPT ![s] = n * BlockSize]
  BY DEF Allocate
<1> DEFINE shared == Elems(hits)
           queue  == Kept(free, Blocks \ shared)
           counts == [b \in Blocks |-> IF b \in shared THEN ref[b] + 1 ELSE ref[b]]
           taken  == SubSeq(queue, 1, need)
           t      == hits \o taken
           r      == reserved[s]
<1>2. /\ BlockTypeOK /\ free \in Seq(Blocks) /\ ref \in [Blocks -> Nat]
      /\ table \in [Seqs -> Seq(Blocks)] /\ reserved \in [Seqs -> Seq(Blocks)]
      /\ Distinct(free) /\ Elems(free) = {b \in Blocks : ref[b] = 0}
  BY DEF PoolInv, BlockTypeOK, FreeIsUnreferenced, Distinct
<1>3. /\ TakeFront(queue, need, counts) /\ table' = [table EXCEPT ![s] = t]
      /\ cached' = [cached EXCEPT ![s] = n * BlockSize]
  BY <1>1
<1>4. /\ hits \in Seq(Blocks) /\ Len(hits) = n /\ Distinct(hits)
      /\ \A i \in 1 .. n : hash[hits[i]] = PrefixHash(s, i) /\ hash[hits[i]] # NoHash
  <2>1. Len(hits) = n /\ hits \in Seq(Blocks) /\ Distinct(hits)
    BY <1>1, <1>2, HitFacts
  <2>2. \A i \in 1 .. n : hash[hits[i]] = PrefixHash(s, i) /\ hash[hits[i]] # NoHash
    BY <1>1, <1>2, HitFacts
  <2> QED BY <2>1, <2>2
<1>5. /\ need \in 0 .. Len(queue) /\ n \in Nat /\ SeqBlocks(s) \in Nat
  <2>1. need \in 0 .. Len(queue)
    BY <1>1, EnoughBlocks
  <2>2. n \in 0 .. SeqBlocks(s) - 1 /\ SeqBlocks(s) \in Nat \ {0}
    BY <1>2, NumHitsFacts, SeqBlocksFacts
  <2> QED BY <2>1, <2>2
<1> HIDE DEF n
<1>6. /\ queue \in Seq(Blocks) /\ Distinct(queue)
      /\ Elems(queue) = Elems(free) \cap (Blocks \ shared)
  <2> HIDE DEF shared
  <2> QED BY <1>2, KeptFacts
<1> HIDE DEF queue
<1>7. shared \subseteq Blocks
  BY <1>4 DEF Elems
<1> HIDE DEF shared
<1>8. /\ counts \in [Blocks -> Nat]
      /\ \A b \in Blocks : counts[b] = IF b \in shared THEN ref[b] + 1 ELSE ref[b]
      /\ Elems(queue) = {b \in Blocks : counts[b] = 0}
  <2>1. \A b \in Blocks : ref[b] \in Nat
    BY <1>2
  <2>2. /\ counts \in [Blocks -> Nat]
        /\ \A b \in Blocks : counts[b] = IF b \in shared THEN ref[b] + 1 ELSE ref[b]
    BY <2>1
  <2> HIDE DEF counts
  <2>3. \A b \in Blocks : b \in Elems(queue) <=> counts[b] = 0
    BY <1>2, <1>6, <2>1, <2>2
  <2> QED BY <1>2, <1>6, <2>2, <2>3
<1> HIDE DEF counts
<1>9. /\ free' \in Seq(Blocks) /\ ref' \in [Blocks -> Nat]
      /\ hash' \in [Blocks -> Seq(Token)] /\ index' \subseteq Seq(Token) \X Blocks
      /\ FreeIsUnreferenced'
      /\ taken \in Seq(Blocks) /\ Len(taken) = need /\ Distinct(taken)
      /\ \A b \in Elems(taken) : b \in Blocks /\ counts[b] = 0
      /\ \A b \in Blocks : ref'[b] = counts[b] + (IF b \in Elems(taken) THEN 1 ELSE 0)
      /\ \A b \in Blocks : hash'[b] = IF b \in Elems(taken) THEN NoHash ELSE hash[b]
      /\ index' = {p \in index : p[2] \notin Elems(taken)}
  <2> HIDE DEF need
  <2> QED BY <1>2, <1>3, <1>5, <1>6, <1>8, TakeFrontFacts
<1> HIDE DEF taken
<1>10. \A b \in Elems(taken) : b \in Elems(free) /\ b \notin shared
  BY <1>2, <1>8, <1>9
<1>11. /\ t \in Seq(Blocks) /\ Elems(t) = shared \cup Elems(taken) /\ Distinct(t)
  <2>1. shared \cap Elems(taken) = {}
    BY <1>10
  <2> QED BY <1>4, <1>9, <2>1, ConcatFacts DEF shared
<1> HIDE DEF t
<1>12. /\ r \in Seq(Blocks) /\ Elems(r) = {} /\ t \o r = t /\ Held(s) = {}
       /\ reserved' = [reserved EXCEPT ![s] = r]
  BY <1>2, <1>11 DEF Elems, Held
<1> HIDE DEF r
<1>13. BlockTypeOK'
  <2>1. cached \in [Seqs -> Nat] /\ n * BlockSize \in Nat
    BY <1>2, <1>5, PoolAssumption DEF BlockTypeOK
  <2> QED BY <1>2, <1>3, <1>9, <1>11, <2>1 DEF BlockTypeOK
<1>14. PoolInv' /\ Held(s)' = Elems(t) \cup Elems(r)
  <2>1. \A b \in Blocks : ref'[b] = ref[b] + (IF b \in Elems(t) \cup Elems(r) THEN 1 ELSE 0)
                                           - (IF b \in Held(s) THEN 1 ELSE 0)
    <3>1. \A b \in Blocks : ref[b] \in Nat
      BY <1>2
    <3>2. \A b \in Blocks : ref'[b] = counts[b] + (IF b \in Elems(taken) THEN 1 ELSE 0)
      BY <1>9
    <3> QED BY <1>8, <1>10, <1>11, <1>12, <3>1, <3>2
  <2>2. /\ t \in Seq(Blocks) /\ r \in Seq(Blocks) /\ FreeIsUnreferenced' /\ Distinct(t \o r)
    BY <1>9, <1>11, <1>12
  <2>3. table' = [table EXCEPT ![s] = t] /\ reserved' = [reserved EXCEPT ![s] = r]
    BY <1>3, <1>12
  <2> QED BY <1>13, <2>1, <2>2, <2>3, PoolFollows
<1>15. /\ table'[s] = hits \o taken /\ \A q \in Seqs \ {s} : table'[q] = table[q]
  BY <1>2, <1>3 DEF t
<1>16. Held(s)' = Elems(hits) \cup Elems(taken)
  BY <1>11, <1>12, <1>14 DEF shared
<1>17. Len(hits) = n /\ Len(hits) + Len(taken) = SeqBlocks(s)
  BY <1>4, <1>5, <1>9
<1>18. \E p \in Seq(Blocks), q \in Seq(Blocks) :
          /\ table'[s] = p \o q /\ Held(s)' = Elems(p) \cup Elems(q)
          /\ Len(p) = n /\ Len(p) + Len(q) = SeqBlocks(s)
          /\ \A i \in 1 .. Len(p) : hash[p[i]] = PrefixHash(s, i) /\ hash[p[i]] # NoHash
          /\ \A b \in Elems(q) : b \in Elems(free) /\ b \notin Elems(p)
          /\ \A b \in Blocks : hash'[b] = IF b \in Elems(q) THEN NoHash ELSE hash[b]
          /\ index' = {x \in index : x[2] \notin Elems(q)}
  <2>1. \A b \in Elems(taken) : b \in Elems(free) /\ b \notin Elems(hits)
    BY <1>10 DEF shared
  <2> hits \in Seq(Blocks) /\ taken \in Seq(Blocks)
    BY <1>4, <1>9
  <2>2. /\ \A b \in Blocks : hash'[b] = IF b \in Elems(taken) THEN NoHash ELSE hash[b]
        /\ index' = {p \in index : p[2] \notin Elems(taken)}
    BY <1>9
  <2>3. \A i \in 1 .. Len(hits) : hash[hits[i]] = PrefixHash(s, i) /\ hash[hits[i]] # NoHash
    BY <1>4
  <2> WITNESS hits \in Seq(Blocks), taken \in Seq(Blocks)
  <2> QED BY <1>15, <1>16, <1>17, <2>1, <2>2, <2>3
<1> QED BY <1>3, <1>14, <1>15, <1>18 DEF n

-----------------------------------------------------------------------------
(* The hashes, for an engine that publishes (pd = FALSE) or not (pd = TRUE) *)

\* What a sequence may rely on: its computed full blocks carry the hashes of its
\* prefixes, and no other block of its own carries one.
SeqInv(s, pd) ==
    /\ tokens[s] # <<>>
    /\ cached[s] <= NumTokens(s) /\ cached[s] <= Len(table[s]) * BlockSize
    /\ table[s] = <<>> => reserved[s] = <<>>
    /\ ~pd => reserved[s] = <<>>
    /\ \A i \in 1 .. Len(table[s]) :
         hash[table[s][i]] = IF ~pd /\ i <= cached[s] \div BlockSize
                             THEN PrefixHash(s, i) ELSE NoHash
    /\ \A b \in Elems(reserved[s]) : hash[b] = NoHash

\* A block of two sequences was published, and so its contents are final.
SharedIsHashed ==
    \A s, r \in Seqs : \A b \in Held(s) \cap Held(r) : s = r \/ hash[b] # NoHash

AllocInv(pd) ==
    /\ PoolInv
    /\ IndexIsCurrent
    /\ \A s \in Seqs : SeqInv(s, pd)
    /\ SharedIsHashed
    /\ pd => \A b \in Blocks : hash[b] = NoHash

\* A block that is taken leaves the index together with its hash.
LEMMA IndexAfterTake ==
    ASSUME BlockTypeOK, IndexIsCurrent, NEW A,
           \A b \in Blocks : hash'[b] = IF b \in A THEN NoHash ELSE hash[b],
           index' = {p \in index : p[2] \notin A}
    PROVE  IndexIsCurrent'
<1>1. IndexIsCurrent'
            <=> index' = {<<hash'[b], b>> : b \in {c \in Blocks : hash'[c] # NoHash}}
  BY DEF IndexIsCurrent
<1>2. index' \subseteq {<<hash'[b], b>> : b \in {c \in Blocks : hash'[c] # NoHash}}
  <2> SUFFICES ASSUME NEW p \in index'
               PROVE  p \in {<<hash'[b], b>> : b \in {c \in Blocks : hash'[c] # NoHash}}
    OBVIOUS
  <2>1. p \in index /\ p[2] \notin A
    OBVIOUS
  <2>2. PICK b \in Blocks : hash[b] # NoHash /\ p = <<hash[b], b>>
    BY <2>1 DEF IndexIsCurrent
  <2>3. hash'[b] = hash[b]
    BY <2>1, <2>2
  <2> QED BY <2>2, <2>3
<1>3. ASSUME NEW b \in Blocks, hash'[b] # NoHash PROVE <<hash'[b], b>> \in index'
  <2>1. b \notin A /\ hash'[b] = hash[b]
    BY <1>3
  <2>2. <<hash[b], b>> \in index
    BY <1>3, <2>1 DEF IndexIsCurrent
  <2> QED BY <2>1, <2>2
<1> QED BY <1>1, <1>2, <1>3

\* A sequence is not concerned with what happens to the blocks of others.
LEMMA SeqInvKept ==
    ASSUME NEW pd, BlockTypeOK, NEW r \in Seqs, SeqInv(r, pd),
           tokens'[r] = tokens[r], cached'[r] = cached[r],
           table'[r] = table[r], reserved'[r] = reserved[r],
           \A b \in Held(r) : hash'[b] = hash[b]
    PROVE  SeqInv(r, pd)'
<1>1. /\ NumTokens(r)' = NumTokens(r) /\ \A i : PrefixHash(r, i)' = PrefixHash(r, i)
  BY DEF NumTokens, PrefixHash
<1>2. \A i \in 1 .. Len(table[r]) : hash'[table[r][i]] = hash[table[r][i]]
  BY DEF Held, Elems
<1>3. \A b \in Elems(reserved[r]) : hash'[b] = hash[b]
  BY DEF Held
<1>4. Elems(reserved'[r]) = Elems(reserved[r])
  OBVIOUS
<1>5. \A i \in 1 .. Len(table'[r]) :
         hash'[table'[r][i]] = IF ~pd /\ i <= cached'[r] \div BlockSize
                               THEN PrefixHash(r, i)' ELSE NoHash
  BY <1>1, <1>2 DEF SeqInv
<1>6. \A b \in Elems(reserved'[r]) : hash'[b] = NoHash
  BY <1>3, <1>4 DEF SeqInv
<1> QED BY <1>1, <1>5, <1>6, Zenon DEF SeqInv, NumTokens, PrefixHash, Elems

\* In the first state nobody holds a block.
LEMMA InitPool == BlockInit => PoolInv /\ \A s \in Seqs : Held(s) = {}
<1> SUFFICES ASSUME BlockInit PROVE PoolInv /\ \A s \in Seqs : Held(s) = {}
  OBVIOUS
<1>1. /\ tokens = Prompt /\ cached = [s \in Seqs |-> 0]
      /\ table = [s \in Seqs |-> <<>>] /\ reserved = [s \in Seqs |-> <<>>]
      /\ free = [i \in 1 .. NumBlocks |-> i - 1] /\ ref = [b \in Blocks |-> 0]
      /\ hash = [b \in Blocks |-> NoHash] /\ index = {}
  BY DEF BlockInit
<1>2. free \in Seq(Blocks) /\ Len(free) = NumBlocks
                           /\ \A i \in 1 .. NumBlocks : free[i] = i - 1
  BY <1>1, PoolAssumption DEF Blocks
<1>3. BlockTypeOK
  <2>1. Prompt \in [Seqs -> Seq(Token)]
    BY RequestAssumption
  <2>2. <<>> \in Seq(Token) /\ <<>> \in Seq(Blocks)
    OBVIOUS
  <2> QED BY <1>1, <1>2, <2>1, <2>2 DEF BlockTypeOK, NoHash
<1>4. FreeIsUnreferenced
  <2>1. Elems(free) = Blocks
    <3>1. \A b \in Blocks : b + 1 \in 1 .. NumBlocks /\ free[b + 1] = b
      BY <1>2, PoolAssumption DEF Blocks
    <3>2. \A i \in 1 .. NumBlocks : free[i] \in Blocks
      BY <1>2, PoolAssumption DEF Blocks
    <3> QED BY <1>2, <3>1, <3>2 DEF Elems
  <2>2. \A i, j \in 1 .. Len(free) : free[i] = free[j] => i = j
    BY <1>2, PoolAssumption
  <2>3. {b \in Blocks : ref[b] = 0} = Blocks
    BY <1>1
  <2> QED BY <2>1, <2>2, <2>3 DEF FreeIsUnreferenced
<1>5. \A s \in Seqs : table[s] = <<>> /\ reserved[s] = <<>> /\ Held(s) = {}
  BY <1>1 DEF Held, Elems
<1>6. RefsCount
  <2>1. \A b \in Blocks : Holders(b) = {} /\ ref[b] = 0
    BY <1>1, <1>5 DEF Holders, Held
  <2> QED BY <2>1, FS_EmptySet DEF RefsCount
<1>7. TablesDistinct
  <2>1. Distinct(<<>> \o <<>>)
    BY DEF Distinct
  <2> QED BY <1>5, <2>1 DEF TablesDistinct
<1> QED BY <1>3, <1>4, <1>5, <1>6, <1>7 DEF PoolInv

\* In the first state nothing is held, computed or published.
LEMMA InitAllocInv == ASSUME NEW pd, BlockInit PROVE AllocInv(pd)
<1>1. /\ tokens = Prompt /\ cached = [s \in Seqs |-> 0]
      /\ table = [s \in Seqs |-> <<>>] /\ reserved = [s \in Seqs |-> <<>>]
      /\ hash = [b \in Blocks |-> NoHash] /\ index = {}
  BY DEF BlockInit
<1>2. PoolInv /\ \A s \in Seqs : Held(s) = {}
  BY InitPool
<1>3. IndexIsCurrent
  BY <1>1 DEF IndexIsCurrent
<1>4. \A s \in Seqs : SeqInv(s, pd)
  <2> SUFFICES ASSUME NEW s \in Seqs PROVE SeqInv(s, pd)
    OBVIOUS
  <2>1. tokens[s] # <<>> /\ NumTokens(s) \in Nat /\ cached[s] = 0 /\ BlockSize \in Nat
    BY <1>1, RequestAssumption, PoolAssumption DEF NumTokens
  <2>2. /\ table[s] = <<>> /\ Len(table[s]) = 0 /\ 1 .. Len(table[s]) = {}
        /\ reserved[s] = <<>> /\ Elems(reserved[s]) = {}
    BY <1>1 DEF Elems
  <2>3. Len(table[s]) * BlockSize = 0
    BY <2>1, <2>2
  <2> QED BY <1>2, <2>1, <2>2, <2>3 DEF SeqInv
<1>5. SharedIsHashed
  BY <1>2 DEF SharedIsHashed
<1> QED BY <1>1, <1>2, <1>3, <1>4, <1>5 DEF AllocInv

\* A sequence that holds nothing has computed nothing.
LEMMA NothingHeld ==
    ASSUME NEW pd, AllocInv(pd), NEW s \in Seqs, table[s] = <<>>
    PROVE  cached[s] = 0 /\ reserved[s] = <<>> /\ Held(s) = {}
<1>1. reserved[s] = <<>> /\ cached[s] <= Len(table[s]) * BlockSize /\ cached[s] \in Nat
  BY DEF AllocInv, SeqInv, PoolInv, BlockTypeOK
<1>2. Len(table[s]) = 0 /\ Elems(table[s]) = {} /\ Elems(reserved[s]) = {}
  BY <1>1 DEF Elems
<1> QED BY <1>1, <1>2, PoolAssumption DEF Held

\* The blocks of the queue are nobody's: taking them leaves every other sequence as it was.
LEMMA OthersUntouched ==
    ASSUME NEW pd, AllocInv(pd), NEW s \in Seqs, NEW A, A \cap Elems(free) = A,
           \A b \in Blocks : hash'[b] = IF b \in A THEN NoHash ELSE hash[b],
           \A r \in Seqs \ {s} : table'[r] = table[r] /\ reserved'[r] = reserved[r],
           \A r \in Seqs \ {s} : cached'[r] = cached[r] /\ tokens'[r] = tokens[r]
    PROVE  \A r \in Seqs \ {s} :
             /\ SeqInv(r, pd)' /\ Held(r)' = Held(r)
             /\ \A b \in Held(r) : b \notin A /\ hash'[b] = hash[b]
<1> SUFFICES ASSUME NEW r \in Seqs \ {s}
             PROVE  /\ SeqInv(r, pd)' /\ Held(r)' = Held(r)
                    /\ \A b \in Held(r) : b \notin A /\ hash'[b] = hash[b]
  OBVIOUS
<1>1. BlockTypeOK /\ PoolInv /\ SeqInv(r, pd)
  BY DEF AllocInv, PoolInv
<1>2. \A b \in Held(r) : b \in Blocks /\ b \notin A
  BY <1>1, FreeHasNoHolder
<1>3. \A b \in Held(r) : hash'[b] = hash[b]
  BY <1>2
<1>4. SeqInv(r, pd)'
  BY <1>1, <1>3, SeqInvKept
<1> QED BY <1>2, <1>3, <1>4 DEF Held, Elems

\* What one sequence takes from the queue or shares keeps the contents of common blocks final.
LEMMA SharedFollows ==
    ASSUME SharedIsHashed, NEW s \in Seqs,
           \A r \in Seqs \ {s} : Held(r)' = Held(r),
           \A r \in Seqs \ {s} : \A b \in Held(r) : hash'[b] = hash[b] \/ hash'[b] # NoHash,
           \A r \in Seqs \ {s} : \A b \in Held(s)' \cap Held(r) : hash'[b] # NoHash
    PROVE  SharedIsHashed'
<1> SUFFICES ASSUME NEW q \in Seqs, NEW r \in Seqs, NEW b \in Held(q)' \cap Held(r)', q # r
             PROVE  hash'[b] # NoHash
  BY DEF SharedIsHashed, NoHash
<1>1. CASE q # s /\ r # s
  <2>1. b \in Held(q) \cap Held(r)
    BY <1>1
  <2>2. hash[b] # NoHash
    BY <2>1 DEF SharedIsHashed
  <2> QED BY <1>1, <2>1, <2>2
<1>2. CASE q = s
  BY <1>2
<1>3. CASE r = s
  BY <1>3
<1> QED BY <1>1, <1>2, <1>3

\* Admission on the default path keeps the invariant.
LEMMA AllocateInv ==
    ASSUME NEW pd, AllocInv(pd), ~pd, NEW s \in Seqs, table[s] = <<>>, CanAllocate(s),
           Allocate(s), tokens' = tokens, reserved' = reserved
    PROVE  AllocInv(pd)'
<1>1. /\ ~pd /\ table[s] = <<>> /\ CanAllocate(s) /\ Allocate(s)
      /\ tokens' = tokens /\ reserved' = reserved
  OBVIOUS
<1>2. /\ PoolInv /\ BlockTypeOK /\ IndexIsCurrent /\ SharedIsHashed
      /\ SeqInv(s, pd) /\ tokens[s] # <<>> /\ reserved[s] = <<>>
  BY <1>1, NothingHeld DEF AllocInv, PoolInv, SeqInv
<1>3. /\ PoolInv'
      /\ cached' = [cached EXCEPT ![s] = NumHits(s) * BlockSize]
      /\ \A r \in Seqs \ {s} : table'[r] = table[r]
  BY <1>1, <1>2, AllocatePool
<1>4. PICK hits \in Seq(Blocks), taken \in Seq(Blocks) :
        /\ table'[s] = hits \o taken /\ Held(s)' = Elems(hits) \cup Elems(taken)
        /\ Len(hits) = NumHits(s) /\ Len(hits) + Len(taken) = SeqBlocks(s)
        /\ \A i \in 1 .. Len(hits) :
             hash[hits[i]] = PrefixHash(s, i) /\ hash[hits[i]] # NoHash
        /\ \A b \in Elems(taken) : b \in Elems(free) /\ b \notin Elems(hits)
        /\ \A b \in Blocks : hash'[b] = IF b \in Elems(taken) THEN NoHash ELSE hash[b]
        /\ index' = {p \in index : p[2] \notin Elems(taken)}
  BY <1>1, <1>2, AllocatePool
<1>5. /\ cached \in [Seqs -> Nat] /\ BlockSize \in Nat \ {0}
      /\ NumHits(s) \in 0 .. SeqBlocks(s) - 1 /\ SeqBlocks(s) \in Nat \ {0}
      /\ NumHits(s) * BlockSize \in 0 .. NumTokens(s) /\ NumTokens(s) \in Nat
  BY <1>2, PoolAssumption, SeqBlocksFacts, NumHitsFacts DEF BlockTypeOK
<1>6. /\ cached'[s] = NumHits(s) * BlockSize
      /\ \A r \in Seqs \ {s} : cached'[r] = cached[r]
  BY <1>3, <1>5
<1>7. \A r \in Seqs \ {s} :
         /\ SeqInv(r, pd)' /\ Held(r)' = Held(r)
         /\ \A b \in Held(r) : b \notin Elems(taken) /\ hash'[b] = hash[b]
  <2>1. \A b \in Blocks : hash'[b] = IF b \in Elems(taken) THEN NoHash ELSE hash[b]
    BY <1>4
  <2>2. Elems(taken) \cap Elems(free) = Elems(taken)
    BY <1>4
  <2>3. \A r \in Seqs \ {s} : table'[r] = table[r] /\ reserved'[r] = reserved[r]
    BY <1>1, <1>3
  <2>4. \A r \in Seqs \ {s} : cached'[r] = cached[r] /\ tokens'[r] = tokens[r]
    BY <1>1, <1>6
  <2> QED BY <1>1, <2>1, <2>2, <2>3, <2>4, OthersUntouched
<1>8. /\ \A i \in 1 .. Len(hits) : hits[i] \in Blocks /\ hits[i] \in Elems(hits)
      /\ \A i \in 1 .. Len(taken) : taken[i] \in Blocks /\ taken[i] \in Elems(taken)
  BY DEF Elems
<1>9. \A i \in 1 .. Len(hits) : hash'[hits[i]] = hash[hits[i]]
  BY <1>4, <1>8
<1>10. SeqInv(s, pd)'
  <2> DEFINE n == NumHits(s)
             t == hits \o taken
  <2>1. /\ Len(t) = SeqBlocks(s) /\ Len(hits) = n /\ n \in Nat
        /\ \A i \in 1 .. n : t[i] = hits[i]
        /\ \A i \in 1 .. SeqBlocks(s) : i \notin 1 .. n
               => i - n \in 1 .. Len(taken) /\ t[i] = taken[i - n]
    <3>1. Len(hits) = n /\ n \in Nat /\ Len(hits) + Len(taken) = SeqBlocks(s)
      BY <1>4, <1>5
    <3>2. /\ Len(t) = Len(hits) + Len(taken) /\ Len(taken) \in Nat
          /\ \A i \in 1 .. Len(hits) : t[i] = hits[i]
      OBVIOUS
    <3>3. \A i \in 1 .. Len(hits) + Len(taken) : i \notin 1 .. Len(hits) =>
             i - Len(hits) \in 1 .. Len(taken) /\ t[i] = taken[i - Len(hits)]
      OBVIOUS
    <3> HIDE DEF n, t
    <3> QED BY <3>1, <3>2, <3>3
  <2> HIDE DEF n, t
  <2>2. \A i \in 1 .. Len(t) : hash'[t[i]] = IF i <= n THEN PrefixHash(s, i) ELSE NoHash
    <3> SUFFICES ASSUME NEW i \in 1 .. SeqBlocks(s)
                 PROVE  hash'[t[i]] = IF i <= n THEN PrefixHash(s, i) ELSE NoHash
      BY <2>1
    <3>1. CASE i <= n
      <4>1. i \in 1 .. n
        BY <1>5, <2>1, <3>1
      <4> QED BY <1>4, <1>9, <2>1, <3>1, <4>1
    <3>2. CASE ~(i <= n)
      <4>1. i - n \in 1 .. Len(taken) /\ t[i] = taken[i - n]
        BY <1>5, <2>1, <3>2
      <4> QED BY <1>4, <1>8, <3>2, <4>1
    <3> QED BY <3>1, <3>2
  <2>3. /\ cached'[s] \div BlockSize = n /\ cached'[s] <= NumTokens(s)
        /\ cached'[s] <= Len(t) * BlockSize
    <3>1. (n * BlockSize) \div BlockSize = n
      BY <1>5, <2>1
    <3>2. n * BlockSize <= SeqBlocks(s) * BlockSize
      BY <1>5, <2>1 DEF n
    <3> QED BY <1>5, <1>6, <2>1, <3>1, <3>2 DEF n
  <2>4. \A i : PrefixHash(s, i)' = PrefixHash(s, i)
    BY <1>1 DEF PrefixHash
  <2>5. /\ table'[s] = t /\ tokens'[s] # <<>> /\ reserved'[s] = <<>>
        /\ Elems(reserved'[s]) = {}
        /\ NumTokens(s)' = NumTokens(s)
    BY <1>1, <1>2, <1>4 DEF t, NumTokens, Elems
  <2>6. \A i \in 1 .. Len(table'[s]) :
           hash'[table'[s][i]] = IF ~pd /\ i <= cached'[s] \div BlockSize
                                 THEN PrefixHash(s, i)' ELSE NoHash
    BY <1>1, <2>2, <2>3, <2>4, <2>5
  <2>7. cached'[s] <= NumTokens(s)' /\ cached'[s] <= Len(table'[s]) * BlockSize
    BY <2>3, <2>5
  <2>8. \A b \in Elems(reserved'[s]) : hash'[b] = NoHash
    BY <2>5
  <2> QED BY <2>5, <2>6, <2>7, <2>8, Zenon DEF SeqInv, NumTokens, PrefixHash, Elems, NoHash
<1>11. IndexIsCurrent'
  BY <1>2, <1>4, IndexAfterTake
<1>12. SharedIsHashed'
  <2>1. \A r \in Seqs \ {s} : \A b \in Held(s)' \cap Held(r) : hash'[b] # NoHash
    <3> SUFFICES ASSUME NEW r \in Seqs \ {s}, NEW b \in Held(s)', b \in Held(r)
                 PROVE  hash'[b] # NoHash
      OBVIOUS
    <3>1. b \in Elems(hits)
      BY <1>4, <1>7
    <3>2. PICK i \in 1 .. Len(hits) : b = hits[i]
      BY <3>1 DEF Elems
    <3> QED BY <1>4, <1>9, <3>2
  <2> QED BY <1>2, <1>7, <2>1, SharedFollows
<1>13. \A r \in Seqs : SeqInv(r, pd)'
  BY <1>7, <1>10
<1> QED BY <1>1, <1>3, <1>11, <1>12, <1>13 DEF AllocInv

\* So does the reservation of a PD engine,
LEMMA ReserveInv ==
    ASSUME NEW pd, AllocInv(pd), pd, NEW s \in Seqs, ClientReserve(s)
    PROVE  AllocInv(pd)'
<1> DEFINE total == CeilDiv(NumPrompt(s) + MaxTokens[s], BlockSize)
<1>1. /\ pd /\ table[s] = <<>> /\ tokens[s] = Prompt[s]
      /\ CanAllocateExclusive(total) /\ AllocateExclusive(s, total)
      /\ tokens' = tokens /\ cached' = cached
  BY DEF ClientReserve
<1>2. /\ PoolInv /\ BlockTypeOK /\ IndexIsCurrent /\ SharedIsHashed /\ SeqInv(s, pd)
      /\ cached[s] = 0 /\ reserved[s] = <<>> /\ \A b \in Blocks : hash[b] = NoHash
  BY <1>1, NothingHeld DEF AllocInv, PoolInv
<1>3. /\ total \in Nat /\ SeqBlocks(s) \in 0 .. total
  <2>1. NumPrompt(s) \in Nat /\ MaxTokens[s] \in Nat /\ NumTokens(s) = NumPrompt(s)
    BY <1>1, RequestAssumption DEF NumPrompt, NumTokens
  <2> DEFINE m == NumPrompt(s)
             k == MaxTokens[s]
  <2> HIDE DEF m, k
  <2>2. m \in Nat /\ k \in Nat /\ BlockSize \in Nat \ {0}
    BY <2>1, PoolAssumption DEF m, k
  <2>3. /\ CeilDiv(m + k, BlockSize) \in Nat
        /\ CeilDiv(m, BlockSize) \in 0 .. CeilDiv(m + k, BlockSize)
    BY <2>2 DEF CeilDiv
  <2> QED BY <2>1, <2>3 DEF SeqBlocks, m, k
<1> HIDE DEF total
<1>4. tokens' \in [Seqs -> Seq(Token)] /\ cached' \in [Seqs -> Nat]
  BY <1>1, <1>2 DEF BlockTypeOK
<1>5. /\ PoolInv' /\ Len(table'[s]) = SeqBlocks(s) /\ Held(s)' \subseteq Elems(free)
      /\ \A r \in Seqs \ {s} : table'[r] = table[r] /\ reserved'[r] = reserved[r]
      /\ \A b \in Blocks : hash'[b] = IF b \in Held(s)' THEN NoHash ELSE hash[b]
      /\ index' = {p \in index : p[2] \notin Held(s)'}
  BY <1>1, <1>2, <1>3, <1>4, AllocateExclusivePool
<1>6. \A b \in Blocks : hash'[b] = NoHash
  BY <1>2, <1>5
<1>7. \A r \in Seqs \ {s} :
         /\ SeqInv(r, pd)' /\ Held(r)' = Held(r)
         /\ \A b \in Held(r) : b \notin Held(s)' /\ hash'[b] = hash[b]
  <2> DEFINE A == Held(s)'
  <2>1. \A r \in Seqs \ {s} : cached'[r] = cached[r] /\ tokens'[r] = tokens[r]
    BY <1>1
  <2>2. /\ A \cap Elems(free) = A
        /\ \A b \in Blocks : hash'[b] = IF b \in A THEN NoHash ELSE hash[b]
    BY <1>5
  <2> HIDE DEF A
  <2>3. \A r \in Seqs \ {s} :
           /\ SeqInv(r, pd)' /\ Held(r)' = Held(r)
           /\ \A b \in Held(r) : b \notin A /\ hash'[b] = hash[b]
    BY <1>1, <1>5, <2>1, <2>2, OthersUntouched
  <2> QED BY <2>3 DEF A
<1>8. SeqInv(s, pd)'
  <2>1. /\ table'[s] \in Seq(Blocks) /\ reserved'[s] \in Seq(Blocks)
    BY <1>5 DEF PoolInv, BlockTypeOK, Blocks
  <2>2. \A i \in 1 .. Len(table'[s]) : hash'[table'[s][i]] = NoHash
    BY <1>6, <2>1
  <2>3. \A b \in Elems(reserved'[s]) : hash'[b] = NoHash
    BY <1>6, <2>1 DEF Elems
  <2>4. /\ tokens[s] # <<>> /\ cached'[s] = 0 /\ cached'[s] <= NumTokens(s)
        /\ SeqBlocks(s) \in Nat \ {0}
    BY <1>1, <1>2, SeqBlocksFacts DEF SeqInv
  <2>5. /\ tokens'[s] # <<>> /\ NumTokens(s)' = NumTokens(s)
        /\ cached'[s] <= Len(table'[s]) * BlockSize
        /\ table'[s] # <<>>
    BY <1>1, <1>5, <2>1, <2>4, PoolAssumption DEF NumTokens
  <2> QED BY <1>1, <2>2, <2>3, <2>4, <2>5, Zenon
             DEF SeqInv, NumTokens, PrefixHash, Elems, NoHash
<1>9. IndexIsCurrent'
  <2> DEFINE A == Held(s)'
  <2>1. /\ \A b \in Blocks : hash'[b] = IF b \in A THEN NoHash ELSE hash[b]
        /\ index' = {p \in index : p[2] \notin A}
    BY <1>5
  <2> HIDE DEF A
  <2> QED BY <1>2, <2>1, IndexAfterTake
<1>10. SharedIsHashed'
  <2>1. \A r \in Seqs \ {s} : \A b \in Held(s)' \cap Held(r) : hash'[b] # NoHash
    BY <1>7
  <2> QED BY <1>2, <1>7, <2>1, SharedFollows
<1>11. \A r \in Seqs : SeqInv(r, pd)'
  BY <1>7, <1>8
<1> QED BY <1>1, <1>5, <1>6, <1>9, <1>10, <1>11 DEF AllocInv, Blocks, NoHash

\* the end of a computed chunk with its token,
LEMMA SampleInv ==
    ASSUME NEW pd, AllocInv(pd), NEW s \in Seqs, NEW token \in Token,
           ClientSample(s, token)
    PROVE  AllocInv(pd)'
<1>1. /\ table[s] # <<>> /\ cached[s] = NumTokens(s)
      /\ tokens' = [tokens EXCEPT ![s] = Append(@, token)]
      /\ cached' = cached /\ table' = table /\ reserved' = reserved
      /\ free' = free /\ ref' = ref /\ hash' = hash /\ index' = index
  BY DEF ClientSample, blockVars
<1>2. /\ PoolInv /\ BlockTypeOK /\ FreeIsUnreferenced /\ RefsCount /\ TablesDistinct
      /\ IndexIsCurrent /\ SharedIsHashed /\ SeqInv(s, pd)
      /\ tokens \in [Seqs -> Seq(Token)] /\ cached \in [Seqs -> Nat]
      /\ tokens[s] \in Seq(Token)
  BY DEF AllocInv, PoolInv, BlockTypeOK
<1>3. /\ tokens' \in [Seqs -> Seq(Token)] /\ tokens'[s] = Append(tokens[s], token)
      /\ \A r \in Seqs \ {s} : tokens'[r] = tokens[r]
  BY <1>1, <1>2
<1>4. \A r \in Seqs : Held(r)' = Held(r)
  BY <1>1 DEF Held, Elems
<1>5. BlockTypeOK'
  BY <1>1, <1>2, <1>3 DEF BlockTypeOK
<1>6. FreeIsUnreferenced'
  BY <1>1, <1>2 DEF FreeIsUnreferenced
<1>7. RefsCount'
  <2>1. \A b \in Blocks : Holders(b)' = Holders(b)
    BY <1>1 DEF Holders, Elems
  <2> QED BY <1>1, <1>2, <2>1 DEF RefsCount
<1>8. TablesDistinct'
  <2> SUFFICES ASSUME NEW r \in Seqs PROVE Distinct(table'[r] \o reserved'[r])
    BY DEF TablesDistinct, Distinct
  <2> QED BY <1>1, <1>2 DEF TablesDistinct
<1>9. IndexIsCurrent'
  BY <1>1, <1>2 DEF IndexIsCurrent
<1>10. SharedIsHashed'
  BY <1>1, <1>2, <1>4 DEF SharedIsHashed, NoHash
<1>11. \A r \in Seqs \ {s} : SeqInv(r, pd)'
  BY <1>1, <1>2, <1>3, SeqInvKept DEF AllocInv
<1>12. SeqInv(s, pd)'
  <2>1. /\ NumTokens(s)' = NumTokens(s) + 1 /\ NumTokens(s) \in Nat /\ tokens'[s] # <<>>
    BY <1>2, <1>3 DEF NumTokens
  <2>2. ASSUME NEW i \in 1 .. Len(table[s]), i <= cached[s] \div BlockSize
        PROVE  PrefixHash(s, i)' = PrefixHash(s, i)
    <3>1. i \in Nat /\ cached[s] \in Nat /\ BlockSize \in Nat \ {0}
      BY <1>2, PoolAssumption
    <3>2. i * BlockSize <= cached[s] /\ i * BlockSize \in Nat
      BY <2>2, <3>1
    <3> DEFINE m == i * BlockSize
               q == tokens[s]
    <3>3. m \in 0 .. Len(q) /\ q \in Seq(Token)
      BY <1>1, <1>2, <3>2 DEF NumTokens
    <3> HIDE DEF m, q
    <3>4. SubSeq(Append(q, token), 1, m) = SubSeq(q, 1, m)
      BY <3>3
    <3> QED BY <1>3, <3>4 DEF PrefixHash, m, q
  <2>3. \A i \in 1 .. Len(table'[s]) :
           hash'[table'[s][i]] = IF ~pd /\ i <= cached'[s] \div BlockSize
                                 THEN PrefixHash(s, i)' ELSE NoHash
    BY <1>1, <1>2, <2>2 DEF SeqInv
  <2>4. cached'[s] <= NumTokens(s)' /\ cached'[s] <= Len(table'[s]) * BlockSize
    BY <1>1, <1>2, <2>1 DEF SeqInv
  <2>5. /\ table'[s] = <<>> => reserved'[s] = <<>>
        /\ ~pd => reserved'[s] = <<>>
        /\ \A b \in Elems(reserved'[s]) : hash'[b] = NoHash
    BY <1>1, <1>2 DEF SeqInv
  <2> QED BY <2>1, <2>3, <2>4, <2>5, Zenon DEF SeqInv, NumTokens, PrefixHash, Elems, NoHash
<1>13. \A r \in Seqs : SeqInv(r, pd)'
  BY <1>11, <1>12
<1>14. pd => \A b \in Blocks : hash'[b] = NoHash
  BY <1>1 DEF AllocInv
<1> QED BY <1>1, <1>5, <1>6, <1>7, <1>8, <1>9, <1>10, <1>13, <1>14
        DEF AllocInv, PoolInv, NoHash

\* the release of a request or its preemption,
LEMMA ReleaseInv ==
    ASSUME NEW pd, AllocInv(pd), NEW s \in Seqs, Deallocate(s, hash),
           cached' = [cached EXCEPT ![s] = 0],
           tokens' = tokens, hash' = hash, index' = index
    PROVE  AllocInv(pd)'
<1>1. /\ Deallocate(s, hash) /\ cached' = [cached EXCEPT ![s] = 0]
      /\ tokens' = tokens /\ hash' = hash /\ index' = index
  OBVIOUS
<1>2. /\ PoolInv /\ BlockTypeOK /\ IndexIsCurrent /\ SharedIsHashed /\ SeqInv(s, pd)
      /\ cached \in [Seqs -> Nat]
  BY DEF AllocInv, PoolInv, BlockTypeOK
<1>3. /\ tokens' \in [Seqs -> Seq(Token)] /\ cached' \in [Seqs -> Nat]
      /\ hash' \in [Blocks -> Seq(Token)] /\ index' \subseteq Seq(Token) \X Blocks
      /\ cached'[s] = 0 /\ \A r \in Seqs \ {s} : cached'[r] = cached[r]
  BY <1>1, <1>2 DEF BlockTypeOK
<1>4. /\ PoolInv' /\ table'[s] = <<>> /\ reserved'[s] = <<>> /\ Held(s)' = {}
      /\ \A r \in Seqs \ {s} : table'[r] = table[r] /\ reserved'[r] = reserved[r]
  BY <1>1, <1>2, <1>3, DeallocatePool
<1>5. \A r \in Seqs \ {s} : SeqInv(r, pd)' /\ Held(r)' = Held(r)
  <2>1. ASSUME NEW r \in Seqs \ {s} PROVE SeqInv(r, pd)'
    <3>1. /\ SeqInv(r, pd) /\ tokens'[r] = tokens[r] /\ cached'[r] = cached[r]
          /\ \A b \in Held(r) : hash'[b] = hash[b]
      BY <1>1, <1>3 DEF AllocInv
    <3> QED BY <1>1, <1>2, <1>4, <3>1, SeqInvKept
  <2>2. \A r \in Seqs \ {s} : Held(r)' = Held(r)
    BY <1>4 DEF Held, Elems
  <2> QED BY <2>1, <2>2
<1>6. SeqInv(s, pd)'
  <2>1. NumTokens(s)' = NumTokens(s) /\ NumTokens(s) \in Nat /\ tokens'[s] # <<>>
    BY <1>1, <1>2 DEF NumTokens, SeqInv, BlockTypeOK
  <2>2. Len(table'[s]) = 0 /\ 1 .. Len(table'[s]) = {} /\ Elems(reserved'[s]) = {}
    BY <1>4 DEF Elems
  <2>3. cached'[s] <= NumTokens(s)' /\ cached'[s] <= Len(table'[s]) * BlockSize
    BY <1>3, <2>1, <2>2, PoolAssumption
  <2> QED BY <1>4, <2>1, <2>2, <2>3, Zenon DEF SeqInv, NumTokens, PrefixHash, Elems, NoHash
<1>7. IndexIsCurrent'
  BY <1>1, <1>2 DEF IndexIsCurrent
<1>8. SharedIsHashed'
  <2>1. \A r \in Seqs \ {s} : \A b \in Held(r) : hash'[b] = hash[b]
    BY <1>1
  <2>2. \A r \in Seqs \ {s} : \A b \in Held(s)' \cap Held(r) : hash'[b] # NoHash
    BY <1>4
  <2> QED BY <1>2, <1>5, <2>1, <2>2, SharedFollows
<1>9. \A r \in Seqs : SeqInv(r, pd)'
  BY <1>5, <1>6
<1>10. pd => \A b \in Blocks : hash'[b] = NoHash
  BY <1>1 DEF AllocInv
<1> QED BY <1>1, <1>4, <1>7, <1>8, <1>9, <1>10 DEF AllocInv, NoHash

\* a decode step's block,
LEMMA AppendInv ==
    ASSUME NEW pd, AllocInv(pd), NEW s \in Seqs, MayAppend(s),
           tokens' = tokens, cached' = cached
    PROVE  AllocInv(pd)'
<1>1. MayAppend(s) /\ tokens' = tokens /\ cached' = cached
  OBVIOUS
<1>2. /\ PoolInv /\ BlockTypeOK /\ IndexIsCurrent /\ SharedIsHashed /\ SeqInv(s, pd)
      /\ tokens' \in [Seqs -> Seq(Token)] /\ cached' \in [Seqs -> Nat]
      /\ table[s] \in Seq(Blocks) /\ reserved[s] \in Seq(Blocks) /\ cached[s] \in Nat
  BY <1>1 DEF AllocInv, PoolInv, BlockTypeOK
<1>3. /\ PoolInv'
      /\ \A r \in Seqs \ {s} : table'[r] = table[r] /\ reserved'[r] = reserved[r]
  BY <1>1, <1>2, MayAppendPool
<1>4. \A r \in Seqs \ {s} : Held(r)' = Held(r)
  BY <1>3 DEF Held, Elems
\* A longer table covers what is computed, and its new block has nothing to publish.
<1>5. ASSUME NEW b \in Blocks, table'[s] = Append(table[s], b), hash'[b] = NoHash,
             \A c \in Held(s) : c = b \/ hash'[c] = hash[c],
             b \notin Elems(table[s]),
             Elems(reserved'[s]) \subseteq Elems(reserved[s]),
             reserved[s] = <<>> => reserved'[s] = <<>>
      PROVE  SeqInv(s, pd)'
  <2> DEFINE t == table[s]
             n == Len(t)
  <2>1. /\ n \in Nat /\ Len(table'[s]) = n + 1 /\ table'[s][n + 1] = b
        /\ \A i \in 1 .. n : table'[s][i] = t[i] /\ t[i] \in Elems(t) /\ t[i] \in Held(s)
        /\ table'[s] # <<>>
    <3>1. n \in Nat /\ t \in Seq(Blocks) /\ table'[s] = Append(t, b)
      BY <1>2, <1>5
    <3>2. \A i \in 1 .. n : t[i] \in Elems(t) /\ t[i] \in Held(s)
      BY DEF Elems, Held
    <3> HIDE DEF t
    <3> QED BY <3>1, <3>2
  <2>2. NumTokens(s)' = NumTokens(s) /\ \A i : PrefixHash(s, i)' = PrefixHash(s, i)
    BY <1>1 DEF NumTokens, PrefixHash
  <2>3. cached[s] <= n * BlockSize /\ cached[s] <= NumTokens(s) /\ tokens[s] # <<>>
    BY <1>2 DEF SeqInv
  <2>4. cached[s] <= (n + 1) * BlockSize /\ ~(n + 1 <= cached[s] \div BlockSize)
    <3> DEFINE c == cached[s]
    <3>1. c \in Nat /\ n \in Nat /\ BlockSize \in Nat \ {0} /\ c <= n * BlockSize
      BY <1>2, <2>1, <2>3, PoolAssumption
    <3> HIDE DEF n, c
    <3>2. c <= (n + 1) * BlockSize
      BY <3>1
    <3>3. c \div BlockSize \in Nat /\ (c \div BlockSize) * BlockSize <= c
      BY <3>1
    <3>4. c \div BlockSize <= n
      BY <3>1
    <3>5. ~(n + 1 <= c \div BlockSize)
      BY <3>1, <3>3, <3>4
    <3> QED BY <3>2, <3>5 DEF c
  <2>5. \A i \in 1 .. n : hash'[t[i]] = hash[t[i]]
    BY <1>5, <2>1
  <2>6. \A i \in 1 .. n :
           hash[t[i]] = IF ~pd /\ i <= cached[s] \div BlockSize
                        THEN PrefixHash(s, i) ELSE NoHash
    BY <1>2 DEF SeqInv
  <2> HIDE DEF n, t
  <2>7. \A i \in 1 .. n + 1 :
           hash'[table'[s][i]] = IF ~pd /\ i <= cached[s] \div BlockSize
                                 THEN PrefixHash(s, i) ELSE NoHash
    <3> SUFFICES ASSUME NEW i \in 1 .. n + 1
                 PROVE  hash'[table'[s][i]] = IF ~pd /\ i <= cached[s] \div BlockSize
                                              THEN PrefixHash(s, i) ELSE NoHash
      OBVIOUS
    <3>1. CASE i = n + 1
      BY <1>5, <2>1, <2>4, <3>1
    <3>2. CASE i # n + 1
      <4>1. i \in 1 .. n
        BY <2>1, <3>2
      <4> QED BY <2>1, <2>5, <2>6, <4>1
    <3> QED BY <3>1, <3>2
  <2>8. \A i \in 1 .. Len(table'[s]) :
           hash'[table'[s][i]] = IF ~pd /\ i <= cached'[s] \div BlockSize
                                 THEN PrefixHash(s, i)' ELSE NoHash
    BY <1>1, <2>1, <2>2, <2>7
  <2>9. /\ cached'[s] <= NumTokens(s)' /\ cached'[s] <= Len(table'[s]) * BlockSize
        /\ tokens'[s] # <<>>
    BY <1>1, <2>1, <2>2, <2>3, <2>4
  <2>10. \A c \in Elems(reserved'[s]) : hash'[c] = NoHash
    <3> SUFFICES ASSUME NEW c \in Elems(reserved'[s]) PROVE hash'[c] = NoHash
      OBVIOUS
    <3>1. c \in Elems(reserved[s]) /\ c \in Held(s)
      BY <1>5 DEF Held
    <3>2. hash[c] = NoHash
      BY <1>2, <3>1 DEF SeqInv
    <3> QED BY <1>5, <3>1, <3>2
  <2>11. ~pd => reserved'[s] = <<>>
    BY <1>1, <1>2, <1>5 DEF SeqInv
  <2> QED BY <2>1, <2>8, <2>9, <2>10, <2>11, Zenon
             DEF SeqInv, NumTokens, PrefixHash, Elems, NoHash
\* Nothing but the new block loses its hash, and nobody else holds that.
<1>6. SUFFICES /\ \A r \in Seqs : SeqInv(r, pd)'
               /\ IndexIsCurrent' /\ SharedIsHashed'
               /\ pd => \A b \in Blocks : hash'[b] = NoHash
  BY <1>1, <1>3 DEF AllocInv, NoHash
<1>7. CASE UNCHANGED <<table, reserved, free, ref, hash, index>>
  <2>1. \A r \in Seqs : SeqInv(r, pd)'
    BY <1>1, <1>2, <1>7, SeqInvKept DEF AllocInv
  <2>2. IndexIsCurrent'
    BY <1>2, <1>7 DEF IndexIsCurrent
  <2>3. SharedIsHashed'
    <3>1. \A r \in Seqs : Held(r)' = Held(r)
      BY <1>7 DEF Held, Elems
    <3> QED BY <1>2, <1>7, <3>1 DEF SharedIsHashed, NoHash
  <2> QED BY <1>1, <1>7, <2>1, <2>2, <2>3 DEF AllocInv
<1>8. CASE /\ UNCHANGED <<free, ref, hash, index>> /\ reserved[s] # <<>>
           /\ Held(s)' = Held(s)
           /\ table'[s] = Append(table[s], reserved[s][Len(reserved[s])])
           /\ Elems(reserved'[s]) \subseteq Elems(reserved[s])
  <2> DEFINE last == reserved[s][Len(reserved[s])]
  <2>1. last \in Blocks /\ last \in Elems(reserved[s])
    BY <1>2, <1>8, LastFacts
  <2>2. hash'[last] = NoHash
    BY <1>2, <1>8, <2>1 DEF SeqInv
  <2>3. last \notin Elems(table[s])
    <3> DEFINE t == table[s]
               r == reserved[s]
    <3> HIDE DEF t, r
    <3>1. Distinct(t \o r) /\ t \in Seq(Blocks) /\ r \in Seq(Blocks)
      BY <1>2 DEF PoolInv, TablesDistinct, t, r
    <3>2. Elems(t) \cap Elems(r) = {}
      BY <3>1, ConcatFacts
    <3> QED BY <2>1, <3>2 DEF t, r
  <2>4. SeqInv(s, pd)'
    <3>1. table'[s] = Append(table[s], last)
      BY <1>8
    <3> HIDE DEF last
    <3> QED BY <1>5, <1>8, <2>1, <2>2, <2>3, <3>1
  <2>5. \A r \in Seqs \ {s} : SeqInv(r, pd)'
    <3>1. \A r \in Seqs \ {s} : SeqInv(r, pd) /\ \A b \in Held(r) : hash'[b] = hash[b]
      BY <1>8 DEF AllocInv
    <3> QED BY <1>1, <1>2, <1>3, <3>1, SeqInvKept
  <2>6. IndexIsCurrent'
    BY <1>2, <1>8 DEF IndexIsCurrent
  <2>7. SharedIsHashed'
    <3>1. \A r \in Seqs : Held(r)' = Held(r)
      BY <1>4, <1>8
    <3> QED BY <1>2, <1>8, <3>1 DEF SharedIsHashed, NoHash
  <2> QED BY <1>1, <1>8, <2>4, <2>5, <2>6, <2>7 DEF AllocInv
<1>9. ASSUME NEW b \in Elems(free), table'[s] = Append(table[s], b), reserved' = reserved,
             reserved[s] = <<>>, Held(s)' = Held(s) \cup {b},
             \A c \in Blocks : hash'[c] = IF c = b THEN NoHash ELSE hash[c],
             index' = {p \in index : p[2] # b}
      PROVE  /\ \A r \in Seqs : SeqInv(r, pd)'
             /\ IndexIsCurrent' /\ SharedIsHashed'
             /\ pd => \A c \in Blocks : hash'[c] = NoHash
  <2>1. b \in Blocks /\ \A r \in Seqs : b \notin Held(r)
    BY <1>2, FreeHasNoHolder
  <2>2. \A r \in Seqs \ {s} :
           /\ SeqInv(r, pd)' /\ Held(r)' = Held(r)
           /\ \A c \in Held(r) : c \notin {b} /\ hash'[c] = hash[c]
    <3>1. \A c \in Blocks : hash'[c] = IF c \in {b} THEN NoHash ELSE hash[c]
      BY <1>9
    <3>2. {b} \cap Elems(free) = {b}
      OBVIOUS
    <3>3. \A r \in Seqs \ {s} : cached'[r] = cached[r] /\ tokens'[r] = tokens[r]
      BY <1>1
    <3> QED BY <1>1, <1>3, <3>1, <3>2, <3>3, OthersUntouched
  <2>3. SeqInv(s, pd)'
    <3>1. hash'[b] = NoHash /\ b \notin Elems(table[s])
      BY <1>9, <2>1 DEF Held
    <3>2. \A c \in Held(s) : c = b \/ hash'[c] = hash[c]
      <4>1. Held(s) \subseteq Blocks
        BY <1>2, HeldFacts
      <4> QED BY <1>9, <4>1
    <3>3. Elems(reserved'[s]) \subseteq Elems(reserved[s]) /\ reserved'[s] = <<>>
      BY <1>9
    <3> QED BY <1>5, <1>9, <2>1, <3>1, <3>2, <3>3
  <2>4. IndexIsCurrent'
    <3>1. /\ \A c \in Blocks : hash'[c] = IF c \in {b} THEN NoHash ELSE hash[c]
          /\ index' = {p \in index : p[2] \notin {b}}
      BY <1>9
    <3> QED BY <1>2, <3>1, IndexAfterTake
  <2>5. SharedIsHashed'
    <3>1. \A r \in Seqs \ {s} : \A c \in Held(s)' \cap Held(r) : hash'[c] # NoHash
      <4> SUFFICES ASSUME NEW r \in Seqs \ {s}, NEW c \in Held(s)', c \in Held(r)
                   PROVE  hash'[c] # NoHash
        OBVIOUS
      <4>1. c \in Held(s) /\ hash'[c] = hash[c]
        BY <1>9, <2>2
      <4> QED BY <1>2, <4>1 DEF SharedIsHashed
    <3> QED BY <1>2, <2>2, <3>1, SharedFollows
  <2>6. pd => \A c \in Blocks : hash'[c] = NoHash
    BY <1>1, <1>9 DEF AllocInv
  <2> QED BY <2>2, <2>3, <2>4, <2>5, <2>6
<1>10. \/ UNCHANGED <<table, reserved, free, ref, hash, index>>
       \/ /\ UNCHANGED <<free, ref, hash, index>> /\ reserved[s] # <<>>
          /\ Held(s)' = Held(s)
          /\ table'[s] = Append(table[s], reserved[s][Len(reserved[s])])
          /\ Elems(reserved'[s]) \subseteq Elems(reserved[s])
       \/ \E b \in Elems(free) :
             /\ table'[s] = Append(table[s], b) /\ reserved' = reserved
             /\ reserved[s] = <<>>
             /\ Held(s)' = Held(s) \cup {b}
             /\ \A c \in Blocks : hash'[c] = IF c = b THEN NoHash ELSE hash[c]
             /\ index' = {p \in index : p[2] # b}
  BY <1>1, <1>2, MayAppendPool
<1> QED BY <1>7, <1>8, <1>9, <1>10

\* The blocks that n tokens after the first c fill, of the k blocks that hold m tokens.
LEMMA FillArithmetic ==
    ASSUME NEW c \in Nat, NEW n \in Nat, NEW size \in Nat \ {0}, NEW m \in Nat,
           NEW k \in Nat,
           c + n <= m, m <= k * size
    PROVE  /\ c \div size \in Nat /\ (c \div size) * size \in Nat /\ (c \div size) * size <= c
           /\ (c + n) \div size \in Nat /\ c \div size <= (c + n) \div size
           /\ \A i \in c \div size + 1 .. (c + n) \div size :
                /\ i \in 1 .. k /\ i > c \div size
                /\ i * size \in 0 .. m /\ (c \div size) * size + 1 <= i * size
<1> DEFINE first == c \div size
           last  == (c + n) \div size
<1>1. c + n \in Nat
  OBVIOUS
<1>2. first \in Nat /\ first * size \in Nat /\ first * size <= c
  OBVIOUS
<1>3. last \in Nat /\ last * size \in Nat /\ last * size <= c + n
  BY <1>1
<1>4. first <= last
  BY <1>1
<1> HIDE DEF first, last
<1>5. ASSUME NEW i \in first + 1 .. last
      PROVE  i \in 1 .. k /\ i > first /\ i * size \in 0 .. m /\ first * size + 1 <= i * size
  <2>1. i \in Nat /\ i > first /\ i <= last
    BY <1>2, <1>3
  <2>2. i * size \in Nat /\ i * size <= last * size
    BY <1>3, <2>1
  <2>3. i * size <= m /\ i * size <= k * size
    BY <1>3, <2>2
  <2>4. i <= k
    BY <2>1, <2>3
  <2>5. (first + 1) * size <= i * size /\ (first + 1) * size = first * size + size
    BY <1>2, <2>1
  <2> QED BY <1>2, <2>1, <2>2, <2>3, <2>4, <2>5
<1> QED BY <1>2, <1>3, <1>4, <1>5 DEF first, last

\* hash_blocks publishes the blocks that n more tokens fill, each under the hash of the
\* prefix it ends.
LEMMA HashBlocksFacts ==
    ASSUME NEW pd, AllocInv(pd), ~pd, NEW s \in Seqs, NEW n \in Nat,
           Len(table[s]) = SeqBlocks(s), cached[s] + n <= NumTokens(s), HashBlocks(s, n)
    PROVE  LET filled == {table[s][i] : i \in FilledBlocks(s, n)} IN
           /\ \A i \in FilledBlocks(s, n) :
                /\ i \in 1 .. Len(table[s])
                /\ hash'[table[s][i]] = PrefixHash(s, i) /\ PrefixHash(s, i) # NoHash
           /\ \A b \in filled : b \in Blocks /\ hash[b] = NoHash /\ hash'[b] # NoHash
           /\ \A b \in Blocks : b \in filled \/ hash'[b] = hash[b]
           /\ hash' \in [Blocks -> Seq(Token)] /\ index' \subseteq Seq(Token) \X Blocks
           /\ IndexIsCurrent'
<1> DEFINE t == table[s]
           c == cached[s]
           first == c \div BlockSize
           F == FilledBlocks(s, n)
           filled == {t[i] : i \in F}
           base == IF first > 0 THEN hash[t[first]] ELSE NoHash
           chain(i) == base \o SubSeq(tokens[s], first * BlockSize + 1, i * BlockSize)
           at(b) == CHOOSE i \in F : t[i] = b
<1>1. /\ BlockTypeOK /\ SeqInv(s, pd) /\ IndexIsCurrent /\ TablesDistinct /\ tokens[s] # <<>>
      /\ t \in Seq(Blocks) /\ c \in Nat /\ BlockSize \in Nat \ {0} /\ tokens[s] \in Seq(Token)
      /\ reserved[s] = <<>> /\ hash \in [Blocks -> Seq(Token)]
      /\ index \subseteq Seq(Token) \X Blocks
  BY PoolAssumption DEF AllocInv, SeqInv, PoolInv, BlockTypeOK
<1>2. NumTokens(s) \in Nat /\ NumTokens(s) <= Len(t) * BlockSize /\ Len(t) \in Nat
  BY <1>1, SeqBlocksFacts
<1>3. Distinct(t)
  <2>1. t \o <<>> = t
    BY <1>1
  <2> QED BY <1>1, <2>1 DEF TablesDistinct
<1>4. /\ first \in Nat /\ first * BlockSize \in Nat
      /\ \A i \in F : /\ i \in 1 .. Len(t) /\ i > first
                      /\ i * BlockSize \in 0 .. NumTokens(s)
                      /\ first * BlockSize + 1 <= i * BlockSize
  <2> DEFINE m == NumTokens(s)
             k == Len(t)
  <2>1. m \in Nat /\ m <= k * BlockSize /\ k \in Nat /\ c + n <= m /\ c \in Nat
    BY <1>1, <1>2
  <2> HIDE DEF m, k, c
  <2>2. BlockSize \in Nat \ {0} /\ F = c \div BlockSize + 1 .. (c + n) \div BlockSize
    BY <1>1 DEF FilledBlocks, c
  <2>3. /\ first \in Nat /\ first * BlockSize \in Nat
        /\ \A i \in first + 1 .. (c + n) \div BlockSize :
             /\ i \in 1 .. k /\ i > first
             /\ i * BlockSize \in 0 .. m /\ first * BlockSize + 1 <= i * BlockSize
    BY <2>1, <2>2, FillArithmetic
  <2> QED BY <2>2, <2>3 DEF m, k
<1>5. \A i \in F : i \in Nat
  BY <1>1, <1>4
<1>6. /\ hash' = [b \in Blocks |-> IF \E i \in F : t[i] = b THEN chain(at(b)) ELSE hash[b]]
      /\ index' = index \cup {<<hash'[t[i]], t[i]>> : i \in F}
  BY DEF HashBlocks, HashAfter
<1>7. \A i \in F : t[i] \in Blocks /\ hash[t[i]] = NoHash /\ at(t[i]) = i
  <2> SUFFICES ASSUME NEW i \in F
               PROVE  t[i] \in Blocks /\ hash[t[i]] = NoHash /\ at(t[i]) = i
    OBVIOUS
  <2>1. i \in 1 .. Len(t) /\ i > first /\ i \in Nat
    BY <1>4, <1>5
  <2>2. t[i] \in Blocks
    BY <1>1, <2>1
  <2>3. hash[t[i]] = NoHash
    <3>1. hash[t[i]] = IF ~pd /\ i <= first THEN PrefixHash(s, i) ELSE NoHash
      BY <1>1, <2>1 DEF SeqInv
    <3> HIDE DEF first
    <3>2. ~(i <= first)
      BY <1>4, <2>1
    <3> QED BY <3>1, <3>2
  <2>4. \A j \in F : t[j] = t[i] => j = i
    BY <1>3, <1>4 DEF Distinct
  <2> HIDE DEF F, t
  <2> QED BY <2>2, <2>3, <2>4
\* The chain over the blocks before the first one filled is the hash that one carries.
<1>8. \A i \in F : chain(i) = PrefixHash(s, i)
  <2> SUFFICES ASSUME NEW i \in F PROVE chain(i) = PrefixHash(s, i)
    OBVIOUS
  <2> DEFINE q == tokens[s]
             m == first * BlockSize
             k == i * BlockSize
  <2>1. q \in Seq(Token) /\ m \in 0 .. k /\ k \in 0 .. Len(q) /\ k \in Nat /\ m \in Nat
    <3> HIDE DEF first, F
    <3>1. /\ i * BlockSize \in 0 .. NumTokens(s) /\ first * BlockSize \in Nat
          /\ first * BlockSize + 1 <= i * BlockSize
      BY <1>4
    <3> QED BY <1>1, <3>1 DEF NumTokens
  <2>2. base = SubSeq(q, 1, m)
    <3>1. CASE first > 0
      <4>1. first \in 1 .. Len(t)
        <5> HIDE DEF first, F
        <5> QED BY <1>1, <1>4, <3>1
      <4>2. hash[t[first]] = IF ~pd /\ first <= first THEN PrefixHash(s, first)
                                                             ELSE NoHash
        BY <1>1, <4>1 DEF SeqInv
      <4>3. hash[t[first]] = PrefixHash(s, first)
        <5> HIDE DEF first, t
        <5> QED BY <1>4, <4>2
      <4> QED BY <3>1, <4>3 DEF PrefixHash
    <3>2. CASE ~(first > 0)
      <4>1. m = 0
        <5> HIDE DEF first
        <5> QED BY <1>1, <1>4, <3>2
      <4>2. SubSeq(q, 1, 0) = <<>>
        BY <2>1
      <4> QED BY <3>2, <4>1, <4>2 DEF NoHash
    <3> QED BY <3>1, <3>2
  <2> HIDE DEF q, m, k, base, first
  <2>3. SubSeq(q, 1, m) \o SubSeq(q, m + 1, k) = SubSeq(q, 1, k)
    <3>1. 1 \in 1 .. Len(q) + 1 /\ m \in 1 - 1 .. Len(q) /\ k \in m .. Len(q)
      BY <2>1
    <3> QED BY <2>1, <3>1, ConcatAdjacentSubSeq
  <2> QED BY <2>2, <2>3 DEF PrefixHash, q, m, k
<1>9. \A i \in F : PrefixHash(s, i) # NoHash /\ PrefixHash(s, i) \in Seq(Token)
  <2> SUFFICES ASSUME NEW i \in F
               PROVE  PrefixHash(s, i) # NoHash /\ PrefixHash(s, i) \in Seq(Token)
    OBVIOUS
  <2>1. i \in Nat /\ i # 0 /\ i * BlockSize <= NumTokens(s)
    <3> HIDE DEF first, F
    <3> QED BY <1>4, <1>5
  <2> QED BY <1>1, <2>1, PrefixHashFacts
<1> HIDE DEF chain, at
<1>10. \A i \in F : hash'[t[i]] = PrefixHash(s, i)
  <2> SUFFICES ASSUME NEW i \in F PROVE hash'[t[i]] = PrefixHash(s, i)
    OBVIOUS
  <2> HIDE DEF F, t
  <2>1. t[i] \in Blocks /\ at(t[i]) = i /\ \E j \in F : t[j] = t[i]
    BY <1>7
  <2>2. hash'[t[i]] = chain(i)
    BY <1>6, <2>1
  <2> QED BY <1>8, <2>2
<1> HIDE DEF F, t
<1> HIDE DEF c, first, base
<1>11. \A b \in Blocks : b \in filled \/ hash'[b] = hash[b]
  BY <1>6
<1>12. \A b \in filled : b \in Blocks /\ hash[b] = NoHash /\ hash'[b] # NoHash
  BY <1>7, <1>9, <1>10
<1>13. hash' \in [Blocks -> Seq(Token)]
  <2>1. \A b \in Blocks : hash[b] \in Seq(Token)
    BY <1>1
  <2>3. \A b \in filled : hash'[b] \in Seq(Token)
    BY <1>9, <1>10
  <2>4. \A b \in Blocks : hash'[b] \in Seq(Token)
    <3> HIDE DEF filled
    <3> QED BY <1>11, <2>1, <2>3
  <2>2. hash' = [b \in Blocks |-> hash'[b]]
    BY <1>6
  <2> QED BY <2>2, <2>4
<1>14. index' \subseteq Seq(Token) \X Blocks
  <2>1. index \subseteq Seq(Token) \X Blocks
    BY <1>1
  <2>2. {<<hash'[t[i]], t[i]>> : i \in F} \subseteq Seq(Token) \X Blocks
    BY <1>7, <1>9, <1>10
  <2> QED BY <1>6, <2>1, <2>2
<1>15. IndexIsCurrent'
  <2> DEFINE now == {<<hash'[b], b>> : b \in {x \in Blocks : hash'[x] # NoHash}}
             old == {<<hash[b], b>> : b \in {x \in Blocks : hash[x] # NoHash}}
  <2>1. index' = index \cup {<<hash'[b], b>> : b \in filled} /\ index = old
    <3>1. index = old
      BY <1>1 DEF IndexIsCurrent
    <3>2. {<<hash'[b], b>> : b \in filled} = {<<hash'[t[i]], t[i]>> : i \in F}
      OBVIOUS
    <3> QED BY <1>6, <3>1, <3>2
  <2>2. \A b \in Blocks : hash'[b] # NoHash <=> b \in filled \/ hash[b] # NoHash
    BY <1>11, <1>12
  <2>3. \A b \in Blocks : hash[b] # NoHash => hash'[b] = hash[b]
    BY <1>11, <1>12
  <2>4. filled \subseteq Blocks
    BY <1>12
  <2> HIDE DEF filled
  <2>5. index' \subseteq now
    BY <2>1, <2>2, <2>3, <2>4
  <2>6. now \subseteq index'
    <3> SUFFICES ASSUME NEW b \in Blocks, hash'[b] # NoHash PROVE <<hash'[b], b>> \in index'
      OBVIOUS
    <3>1. CASE b \in filled
      BY <2>1, <3>1
    <3>2. CASE b \notin filled
      BY <1>11, <2>1, <2>2, <2>3, <3>2
    <3> QED BY <3>1, <3>2
  <2> QED BY <2>5, <2>6 DEF IndexIsCurrent, NoHash
<1>16. \A i \in F : i \in 1 .. Len(t)
  BY <1>4
<1> QED BY <1>9, <1>10, <1>11, <1>12, <1>13, <1>14, <1>15, <1>16 DEF F, t

\* One token more leaves every prefix as it was.
LEMMA TokensGrow ==
    ASSUME BlockTypeOK, NEW s \in Seqs,
           \/ tokens' = tokens
           \/ \E token \in Token : tokens' = [tokens EXCEPT ![s] = Append(@, token)]
    PROVE  /\ tokens' \in [Seqs -> Seq(Token)] /\ NumTokens(s) \in Nat
           /\ NumTokens(s)' \in {NumTokens(s), NumTokens(s) + 1}
           /\ tokens[s] # <<>> => tokens'[s] # <<>>
           /\ \A r \in Seqs \ {s} : tokens'[r] = tokens[r]
           /\ \A n \in 0 .. NumTokens(s) : SubSeq(tokens'[s], 1, n) = SubSeq(tokens[s], 1, n)
           /\ \A i \in Nat :
                i * BlockSize <= NumTokens(s) => PrefixHash(s, i)' = PrefixHash(s, i)
<1>1. tokens \in [Seqs -> Seq(Token)] /\ tokens[s] \in Seq(Token) /\ BlockSize \in Nat \ {0}
  BY PoolAssumption DEF BlockTypeOK
<1>2. CASE tokens' = tokens
  BY <1>1, <1>2 DEF NumTokens, PrefixHash
<1>3. CASE \E token \in Token : tokens' = [tokens EXCEPT ![s] = Append(@, token)]
  <2>1. PICK token \in Token : tokens' = [tokens EXCEPT ![s] = Append(@, token)]
    BY <1>3
  <2>2. /\ tokens' \in [Seqs -> Seq(Token)] /\ tokens'[s] = Append(tokens[s], token)
        /\ \A r \in Seqs \ {s} : tokens'[r] = tokens[r]
    BY <1>1, <2>1
  <2> DEFINE q == tokens[s]
  <2>3. q \in Seq(Token) /\ tokens'[s] = Append(q, token)
    BY <1>1, <2>2
  <2> HIDE DEF q
  <2>4. Len(Append(q, token)) = Len(q) + 1 /\ Len(q) \in Nat /\ Append(q, token) # <<>>
    BY <2>3
  <2>5. \A n \in 0 .. Len(q) : SubSeq(Append(q, token), 1, n) = SubSeq(q, 1, n)
    BY <2>3
  <2>6. ASSUME NEW i \in Nat, i * BlockSize <= NumTokens(s)
        PROVE  PrefixHash(s, i)' = PrefixHash(s, i)
    <3>1. i * BlockSize \in 0 .. Len(q)
      BY <1>1, <2>4, <2>6 DEF NumTokens, q
    <3> DEFINE m == i * BlockSize
    <3> HIDE DEF m
    <3>2. SubSeq(Append(q, token), 1, m) = SubSeq(q, 1, m)
      BY <2>5, <3>1 DEF m
    <3> QED BY <2>3, <3>2 DEF PrefixHash, m, q
  <2> QED BY <2>2, <2>3, <2>4, <2>5, <2>6 DEF NumTokens, q
<1> QED BY <1>2, <1>3

\* and the publication of computed blocks, with the token sampled after them.
LEMMA ComputeInv ==
    ASSUME NEW pd, AllocInv(pd), NEW s \in Seqs, NEW n \in Nat,
           Len(table[s]) = SeqBlocks(s), cached[s] + n <= NumTokens(s),
           IF pd THEN hash' = hash /\ index' = index ELSE HashBlocks(s, n),
           cached' = [cached EXCEPT ![s] = @ + n],
           \/ tokens' = tokens
           \/ \E token \in Token : tokens' = [tokens EXCEPT ![s] = Append(@, token)],
           table' = table, reserved' = reserved, free' = free, ref' = ref
    PROVE  AllocInv(pd)'
<1>1. /\ Len(table[s]) = SeqBlocks(s) /\ cached[s] + n <= NumTokens(s)
      /\ IF pd THEN hash' = hash /\ index' = index ELSE HashBlocks(s, n)
      /\ cached' = [cached EXCEPT ![s] = @ + n] /\ table' = table
      /\ reserved' = reserved /\ free' = free /\ ref' = ref
  OBVIOUS
<1>2. /\ PoolInv /\ BlockTypeOK /\ FreeIsUnreferenced /\ RefsCount /\ TablesDistinct
      /\ IndexIsCurrent /\ SharedIsHashed /\ SeqInv(s, pd) /\ tokens[s] # <<>>
      /\ cached \in [Seqs -> Nat] /\ table[s] \in Seq(Blocks) /\ BlockSize \in Nat \ {0}
  BY PoolAssumption DEF AllocInv, PoolInv, BlockTypeOK, SeqInv
<1>3. /\ NumTokens(s) \in Nat /\ n \in Nat /\ NumTokens(s) <= Len(table[s]) * BlockSize
  BY <1>1, <1>2, SeqBlocksFacts
<1>16. /\ tokens' \in [Seqs -> Seq(Token)] /\ tokens'[s] # <<>>
       /\ NumTokens(s)' \in {NumTokens(s), NumTokens(s) + 1}
       /\ \A r \in Seqs \ {s} : tokens'[r] = tokens[r]
       /\ \A i \in Nat :
            i * BlockSize <= NumTokens(s) => PrefixHash(s, i)' = PrefixHash(s, i)
  BY <1>2, TokensGrow
<1>4. /\ cached' \in [Seqs -> Nat] /\ cached'[s] = cached[s] + n /\ cached[s] \in Nat
      /\ \A r \in Seqs \ {s} : cached'[r] = cached[r]
  BY <1>1, <1>2, <1>3
<1>5. \A r \in Seqs : Held(r)' = Held(r)
  BY <1>1 DEF Held, Elems
<1> DEFINE F == FilledBlocks(s, n)
           filled == {table[s][i] : i \in F}
<1>6. ~pd =>
        /\ \A i \in F : /\ i \in 1 .. Len(table[s])
                        /\ hash'[table[s][i]] = PrefixHash(s, i) /\ PrefixHash(s, i) # NoHash
        /\ \A b \in filled : b \in Blocks /\ hash[b] = NoHash /\ hash'[b] # NoHash
        /\ \A b \in Blocks : b \in filled \/ hash'[b] = hash[b]
        /\ hash' \in [Blocks -> Seq(Token)] /\ index' \subseteq Seq(Token) \X Blocks
        /\ IndexIsCurrent'
  BY <1>1, HashBlocksFacts
<1>7. hash' \in [Blocks -> Seq(Token)] /\ index' \subseteq Seq(Token) \X Blocks
  BY <1>1, <1>2, <1>6 DEF BlockTypeOK
<1>8. IndexIsCurrent'
  <2>1. CASE pd
    BY <1>1, <1>2, <2>1 DEF IndexIsCurrent
  <2>2. CASE ~pd
    BY <1>6, <2>2
  <2> QED BY <2>1, <2>2
<1>9. PoolInv'
  <2>1. BlockTypeOK'
    BY <1>1, <1>2, <1>4, <1>7, <1>16 DEF BlockTypeOK
  <2>2. FreeIsUnreferenced'
    BY <1>1, <1>2 DEF FreeIsUnreferenced
  <2>3. RefsCount'
    <3>1. \A b \in Blocks : Holders(b)' = Holders(b)
      BY <1>1 DEF Holders, Elems
    <3> QED BY <1>1, <1>2, <3>1 DEF RefsCount
  <2>4. TablesDistinct'
    <3> SUFFICES ASSUME NEW r \in Seqs PROVE Distinct(table'[r] \o reserved'[r])
      BY DEF TablesDistinct, Distinct
    <3> QED BY <1>1, <1>2 DEF TablesDistinct
  <2> QED BY <2>1, <2>2, <2>3, <2>4 DEF PoolInv
\* A block without a hash has one holder: publishing does not touch the others.
<1>10. \A r \in Seqs \ {s} : \A b \in Held(r) : hash'[b] = hash[b]
  <2>1. CASE pd
    BY <1>1, <2>1
  <2>2. CASE ~pd
    <3> SUFFICES ASSUME NEW r \in Seqs \ {s}, NEW b \in Held(r), b \in filled PROVE FALSE
      <4>1. \A q \in Seqs : Held(q) \subseteq Blocks
        BY <1>2, HeldFacts
      <4> QED BY <1>6, <2>2, <4>1
    <3>1. b \in Held(s)
      BY <1>6, <2>2 DEF Held, Elems
    <3>2. hash[b] = NoHash
      BY <1>6, <2>2
    <3> QED BY <1>2, <3>1, <3>2 DEF SharedIsHashed
  <2> QED BY <2>1, <2>2
<1>11. \A r \in Seqs \ {s} : SeqInv(r, pd)'
  <2>1. \A r \in Seqs \ {s} : SeqInv(r, pd) /\ tokens'[r] = tokens[r] /\ table'[r] = table[r]
                              /\ reserved'[r] = reserved[r]
    BY <1>1, <1>16 DEF AllocInv
  <2> QED BY <1>1, <1>2, <1>4, <1>10, <2>1, SeqInvKept
<1>12. SeqInv(s, pd)'
  <2>1. tokens'[s] # <<>> /\ NumTokens(s)' \in {NumTokens(s), NumTokens(s) + 1}
    BY <1>16
  <2>2. cached'[s] <= NumTokens(s)' /\ cached'[s] <= Len(table'[s]) * BlockSize
    <3> DEFINE all == NumTokens(s)
               room == Len(table[s]) * BlockSize
    <3>1. all \in Nat /\ all <= room /\ cached[s] + n <= all /\ room \in Nat
      BY <1>1, <1>2, <1>3
    <3> HIDE DEF all, room
    <3>2. cached[s] + n <= all /\ cached[s] + n <= room
      BY <1>3, <1>4, <3>1
    <3> QED BY <1>1, <1>4, <2>1, <3>1, <3>2 DEF all, room
  <2>3. \A i \in 1 .. Len(table[s]) :
           hash'[table[s][i]] = IF ~pd /\ i <= cached'[s] \div BlockSize
                                THEN PrefixHash(s, i) ELSE NoHash
    <3> SUFFICES ASSUME NEW i \in 1 .. Len(table[s])
                 PROVE  hash'[table[s][i]] = IF ~pd /\ i <= cached'[s] \div BlockSize
                                             THEN PrefixHash(s, i) ELSE NoHash
      OBVIOUS
    <3>1. /\ hash[table[s][i]] = IF ~pd /\ i <= cached[s] \div BlockSize
                                 THEN PrefixHash(s, i) ELSE NoHash
          /\ table[s][i] \in Blocks
      BY <1>2 DEF SeqInv
    <3>2. CASE pd
      BY <1>1, <3>1, <3>2
    <3>3. CASE ~pd /\ i \in F
      <4>1. i <= cached'[s] \div BlockSize
        BY <1>4, <3>3 DEF FilledBlocks
      <4> QED BY <1>6, <3>3, <4>1
    <3>4. CASE ~pd /\ i \notin F
      <4>1. table[s][i] \notin filled
        <5> SUFFICES ASSUME NEW j \in F, table[s][j] = table[s][i] PROVE FALSE
          OBVIOUS
        <5>1. j \in 1 .. Len(table[s])
          BY <1>6, <3>4
        <5> DEFINE t == table[s]
                   r == reserved[s]
        <5> HIDE DEF t, r
        <5>2. Distinct(t \o r) /\ t \in Seq(Blocks) /\ r \in Seq(Blocks)
          BY <1>2 DEF TablesDistinct, BlockTypeOK, t, r
        <5>3. Distinct(t)
          BY <5>2, ConcatFacts
        <5> QED BY <3>4, <5>1, <5>3 DEF Distinct, t
      <4>2. hash'[table[s][i]] = hash[table[s][i]]
        BY <1>6, <3>1, <3>4, <4>1
      <4>3. i <= cached'[s] \div BlockSize <=> i <= cached[s] \div BlockSize
        <5> DEFINE c == cached[s]
                   m == NumTokens(s)
                   k == Len(table[s])
        <5>1. /\ c \in Nat /\ n \in Nat /\ m \in Nat /\ k \in Nat /\ i \in Nat
              /\ c + n <= m /\ m <= k * BlockSize
          BY <1>1, <1>2, <1>3, <1>4
        <5>2. i \notin c \div BlockSize + 1 .. (c + n) \div BlockSize
          BY <3>4 DEF FilledBlocks
        <5> HIDE DEF c, m, k
        <5>3. /\ c \div BlockSize \in Nat /\ (c + n) \div BlockSize \in Nat
              /\ c \div BlockSize <= (c + n) \div BlockSize
          BY <1>2, <5>1, FillArithmetic
        <5> DEFINE x == c \div BlockSize
                   y == (c + n) \div BlockSize
        <5> HIDE DEF x, y
        <5>4. i <= y <=> i <= x
          BY <5>1, <5>2, <5>3 DEF x, y
        <5> QED BY <1>4, <5>4 DEF c, x, y
      <4> QED BY <3>1, <4>2, <4>3
    <3> QED BY <3>2, <3>3, <3>4
  <2>4. \A i \in 1 .. Len(table'[s]) :
           hash'[table'[s][i]] = IF ~pd /\ i <= cached'[s] \div BlockSize
                                 THEN PrefixHash(s, i)' ELSE NoHash
    <3>1. ASSUME NEW i \in 1 .. Len(table[s]), i <= cached'[s] \div BlockSize
          PROVE  PrefixHash(s, i)' = PrefixHash(s, i)
      <4> DEFINE c == cached'[s]
      <4>1. c \in Nat /\ c <= NumTokens(s) /\ i \in Nat /\ i <= c \div BlockSize
        BY <1>1, <1>3, <1>4, <3>1
      <4> HIDE DEF c
      <4>2. i * BlockSize <= c
        BY <1>2, <4>1
      <4>3. i * BlockSize <= NumTokens(s)
        BY <1>2, <1>3, <4>1, <4>2
      <4> QED BY <1>16, <4>1, <4>3
    <3> QED BY <1>1, <2>3, <3>1
  <2>5. \A b \in Elems(reserved'[s]) : hash'[b] = NoHash
    <3>1. CASE pd
      BY <1>1, <1>2, <3>1 DEF SeqInv
    <3>2. CASE ~pd
      BY <1>1, <1>2, <3>2 DEF SeqInv, Elems
    <3> QED BY <3>1, <3>2
  <2>6. (table'[s] = <<>> => reserved'[s] = <<>>) /\ (~pd => reserved'[s] = <<>>)
    BY <1>1, <1>2 DEF SeqInv
  <2> QED BY <2>1, <2>2, <2>4, <2>5, <2>6, Zenon
             DEF SeqInv, NumTokens, PrefixHash, Elems, NoHash
<1>13. SharedIsHashed'
  <2> SUFFICES ASSUME NEW q \in Seqs, NEW r \in Seqs, NEW b \in Held(q) \cap Held(r), q # r
               PROVE  hash'[b] # NoHash
    BY <1>5 DEF SharedIsHashed, NoHash
  <2>1. hash[b] # NoHash
    BY <1>2 DEF SharedIsHashed
  <2>2. \/ q \in Seqs \ {s} /\ b \in Held(q)
        \/ r \in Seqs \ {s} /\ b \in Held(r)
    OBVIOUS
  <2> QED BY <1>10, <2>1, <2>2
<1>14. \A r \in Seqs : SeqInv(r, pd)'
  BY <1>11, <1>12
<1>15. pd => \A b \in Blocks : hash'[b] = NoHash
  BY <1>1 DEF AllocInv
<1> QED BY <1>1, <1>8, <1>9, <1>13, <1>14, <1>15 DEF AllocInv, NoHash

-----------------------------------------------------------------------------
(* The theorems                                                            *)

\* The client keeps to one of the two.
ClientInv == \E pd \in BOOLEAN : exclusive = pd /\ AllocInv(pd)

\* The engine that does nothing keeps the invariant.
LEMMA AllocKept ==
    ASSUME NEW pd, AllocInv(pd), UNCHANGED bmVars
    PROVE  AllocInv(pd)'
<1>1. /\ tokens' = tokens /\ cached' = cached /\ table' = table /\ reserved' = reserved
      /\ free' = free /\ ref' = ref /\ hash' = hash /\ index' = index
  BY DEF bmVars, blockVars
<1>2. PoolInv'
  <2>1. BlockTypeOK'
    BY <1>1 DEF AllocInv, PoolInv, BlockTypeOK
  <2>2. FreeIsUnreferenced'
    BY <1>1 DEF AllocInv, PoolInv, FreeIsUnreferenced
  <2>3. RefsCount'
    <3>1. \A b \in Blocks : Holders(b)' = Holders(b)
      BY <1>1 DEF Holders, Elems
    <3> QED BY <1>1, <3>1 DEF AllocInv, PoolInv, RefsCount
  <2>4. TablesDistinct'
    <3> SUFFICES ASSUME NEW r \in Seqs PROVE Distinct(table'[r] \o reserved'[r])
      BY DEF TablesDistinct, Distinct
    <3> QED BY <1>1 DEF AllocInv, PoolInv, TablesDistinct
  <2> QED BY <2>1, <2>2, <2>3, <2>4 DEF PoolInv
<1>3. \A r \in Seqs : SeqInv(r, pd)'
  <2>1. BlockTypeOK /\ \A r \in Seqs : SeqInv(r, pd)
    BY DEF AllocInv, PoolInv
  <2> QED BY <1>1, <2>1, SeqInvKept
<1>4. IndexIsCurrent'
  BY <1>1 DEF AllocInv, IndexIsCurrent
<1>5. SharedIsHashed'
  <2>1. \A r \in Seqs : Held(r)' = Held(r)
    BY <1>1 DEF Held, Elems
  <2> QED BY <1>1, <2>1 DEF AllocInv, SharedIsHashed, NoHash
<1> QED BY <1>1, <1>2, <1>3, <1>4, <1>5 DEF AllocInv, NoHash

\* Every step keeps the invariant.
LEMMA NextClientInv == ClientInv /\ [ClientNext]_clientVars => ClientInv'
<1> SUFFICES ASSUME ClientInv, [ClientNext]_clientVars PROVE ClientInv'
  OBVIOUS
<1>1. PICK pd \in BOOLEAN : exclusive = pd /\ AllocInv(pd)
  BY DEF ClientInv
<1>2. SUFFICES exclusive' = pd /\ AllocInv(pd)'
  BY <1>1 DEF ClientInv
<1>3. ASSUME NEW s \in Seqs, ClientAllocate(s) PROVE exclusive' = pd /\ AllocInv(pd)'
  <2>1. /\ ~pd /\ table[s] = <<>> /\ CanAllocate(s) /\ Allocate(s)
        /\ exclusive' = pd /\ tokens' = tokens /\ reserved' = reserved
    BY <1>1, <1>3 DEF ClientAllocate
  <2> QED BY <1>1, <2>1, AllocateInv
<1>4. ASSUME NEW s \in Seqs, ClientReserve(s) PROVE exclusive' = pd /\ AllocInv(pd)'
  <2>1. pd /\ exclusive' = pd
    BY <1>1, <1>4 DEF ClientReserve
  <2> QED BY <1>1, <1>4, <2>1, ReserveInv
<1>5. ASSUME NEW s \in Seqs, NEW n \in 1 .. NumTokens(s), ClientCompute(s, n)
      PROVE  exclusive' = pd /\ AllocInv(pd)'
  <2>1. /\ Len(table[s]) = SeqBlocks(s) /\ cached[s] + n <= NumTokens(s)
        /\ IF pd THEN hash' = hash /\ index' = index ELSE HashBlocks(s, n)
        /\ cached' = [cached EXCEPT ![s] = @ + n] /\ exclusive' = pd /\ tokens' = tokens
        /\ table' = table /\ reserved' = reserved /\ free' = free /\ ref' = ref
    BY <1>1, <1>5 DEF ClientCompute
  <2>2. n \in Nat
    BY <1>5
  <2> QED BY <1>1, <2>1, <2>2, ComputeInv
<1>6. ASSUME NEW s \in Seqs, NEW token \in Token, ClientSample(s, token)
      PROVE  exclusive' = pd /\ AllocInv(pd)'
  <2>1. exclusive' = pd
    BY <1>1, <1>6 DEF ClientSample
  <2> QED BY <1>1, <1>6, <2>1, SampleInv
<1>7. ASSUME NEW s \in Seqs, ClientAppend(s) PROVE exclusive' = pd /\ AllocInv(pd)'
  <2>1. MayAppend(s) /\ exclusive' = pd /\ tokens' = tokens /\ cached' = cached
    BY <1>1, <1>7 DEF ClientAppend
  <2> QED BY <1>1, <2>1, AppendInv
<1>8. ASSUME NEW s \in Seqs, ClientRelease(s) PROVE exclusive' = pd /\ AllocInv(pd)'
  <2>1. /\ Deallocate(s, hash) /\ cached' = [cached EXCEPT ![s] = 0]
        /\ exclusive' = pd /\ tokens' = tokens /\ hash' = hash /\ index' = index
    BY <1>1, <1>8 DEF ClientRelease
  <2> QED BY <1>1, <2>1, ReleaseInv
<1>9. CASE UNCHANGED clientVars
  <2>1. UNCHANGED bmVars /\ exclusive' = pd
    BY <1>1, <1>9 DEF clientVars
  <2> QED BY <1>1, <2>1, AllocKept
<1> QED BY <1>3, <1>4, <1>5, <1>6, <1>7, <1>8, <1>9 DEF ClientNext

\* The inductive invariant of the allocator under any client that follows the rules of
\* the schedulers, whatever the pool, the block size and the requests.
THEOREM ClientInvariant == BlockSpec => []ClientInv
<1>1. ClientInit => ClientInv
  <2> SUFFICES ASSUME ClientInit PROVE ClientInv
    OBVIOUS
  <2>1. BlockInit /\ exclusive \in BOOLEAN
    BY DEF ClientInit
  <2>2. \A pd \in BOOLEAN : AllocInv(pd)
    BY <2>1, InitAllocInv
  <2> QED BY <2>1, <2>2 DEF ClientInv
<1>2. ClientInv /\ [ClientNext]_clientVars => ClientInv'
  BY NextClientInv
<1> QED BY <1>1, <1>2, PTL DEF BlockSpec

\* What the invariant says of counts, queue and tables,
LEMMA AllocAccounted == ASSUME NEW pd, AllocInv(pd) PROVE BlocksAccounted
<1>1. PoolInv /\ FreeIsUnreferenced /\ BlockTypeOK
  BY DEF AllocInv, PoolInv
<1>2. RefCountsHolders
  BY <1>1 DEF PoolInv, RefsCount, RefCountsHolders
<1>3. ASSUME NEW s \in Seqs
      PROVE  Cardinality(Elems(table[s] \o reserved[s])) = Len(table[s] \o reserved[s])
  <2> DEFINE q == table[s] \o reserved[s]
  <2>1. q \in Seq(Blocks) /\ Distinct(q)
    BY <1>1 DEF PoolInv, BlockTypeOK, TablesDistinct
  <2> HIDE DEF q
  <2>2. Cardinality(Elems(q)) = Len(q)
    BY <2>1, DistinctCount
  <2> QED BY <2>2 DEF q
<1>4. ASSUME NEW s \in Seqs, NEW b \in Elems(reserved[s]) PROVE Holders(b) = {s}
  <2>1. hash[b] = NoHash /\ b \in Held(s)
    BY DEF AllocInv, SeqInv, Held
  <2>2. \A r \in Seqs : b \in Held(r) => r = s
    BY <2>1 DEF AllocInv, SharedIsHashed
  <2>3. Holders(b) = {r \in Seqs : b \in Held(r)}
    BY DEF Holders, Held
  <2> QED BY <2>1, <2>2, <2>3
<1>5. TablesAreSets
  BY <1>3, <1>4 DEF TablesAreSets
<1> QED BY <1>1, <1>2, <1>5 DEF BlocksAccounted

\* and of lookups.
LEMMA AllocHashes == ASSUME NEW pd, AllocInv(pd) PROVE HashesAgree
<1>1. IndexIsCurrent
  BY DEF AllocInv
<1>2. TableFollowsHashes
  BY DEF AllocInv, SeqInv, TableFollowsHashes
<1> QED BY <1>1, <1>2 DEF HashesAgree

\* allocate, may_append and deallocate leave no block counted wrongly, queued while held,
\* held twice by one sequence, or reserved for one and held by another.
THEOREM BlocksAreAccounted == BlockSpec => []BlocksAccounted
<1>1. ClientInv => BlocksAccounted
  BY AllocAccounted DEF ClientInv
<1> QED BY <1>1, ClientInvariant, PTL

\* A lookup in hash_to_block_ids never leads to a block that was reused since, and a
\* block found in a table under a hash holds the prefix it is there for.
THEOREM HashesAreCurrent == BlockSpec => []HashesAgree
<1>1. ClientInv => HashesAgree
  BY AllocHashes DEF ClientInv
<1> QED BY <1>1, ClientInvariant, PTL

-----------------------------------------------------------------------------
(* Slots of the KV cache *)

\* Rounding up is monotone.
LEMMA CeilDivFacts ==
    ASSUME NEW m \in Nat \ {0}, NEW n \in Nat, NEW size \in Nat \ {0}, m <= n
    PROVE  /\ CeilDiv(m, size) \in Nat \ {0} /\ CeilDiv(n, size) \in Nat \ {0}
           /\ CeilDiv(m, size) <= CeilDiv(n, size)
           /\ m <= CeilDiv(m, size) * size
<1>1. PICK k \in Nat : n = m + k
  BY n - m \in Nat, n = m + (n - m)
<1> QED BY <1>1 DEF CeilDiv

\* The block of a table that the p-th token goes to.
SlotIndex(p) == (p - 1) \div BlockSize + 1

\* Memory mem holds the KV of the first n of some tokens in the blocks of tab.
Stored(mem, tab, toks, n) ==
    \A p \in 1 .. n :
        /\ SlotIndex(p) <= Len(tab)
        /\ mem[tab[SlotIndex(p)]][SlotOffset(p)] = SubSeq(toks, 1, p)

StoredFor(s, n) == Stored(kv, table[s], tokens[s], n)

\* Where a token goes, and which token is there.
LEMMA SlotFacts ==
    ASSUME NEW p \in Nat \ {0}
    PROVE  /\ SlotIndex(p) \in Nat \ {0} /\ SlotOffset(p) \in 1 .. BlockSize
           /\ p = (SlotIndex(p) - 1) * BlockSize + SlotOffset(p)
           /\ SlotIndex(p) = CeilDiv(p, BlockSize)
<1> DEFINE n == BlockSize
           q == p - 1
<1>1. n \in Nat \ {0} /\ q \in Nat
  BY PoolAssumption
<1> HIDE DEF n, q
<1>2. /\ q \div n \in Nat /\ q % n \in 0 .. n - 1 /\ q = n * (q \div n) + (q % n)
      /\ (q + n) \div n = q \div n + 1
  BY <1>1
<1>3. SlotIndex(p) = q \div n + 1 /\ SlotOffset(p) = (q % n) + 1
  BY DEF SlotIndex, SlotOffset, q, n
<1>4. p = q + 1 /\ CeilDiv(p, BlockSize) = (q + n) \div n
  <2>1. p + n - 1 = q + n
    BY <1>1 DEF q
  <2> QED BY <2>1 DEF CeilDiv, q, n
<1> DEFINE d == q \div n
           r == q % n
<1>5. SlotIndex(p) - 1 = d /\ d \in Nat /\ r \in 0 .. n - 1 /\ d * n = n * d
  BY <1>1, <1>2, <1>3
<1> HIDE DEF d, r
<1>6. n * d \in Nat
  BY <1>1, <1>5
<1>7. p = d * n + (r + 1)
  BY <1>1, <1>2, <1>4, <1>5, <1>6 DEF d, r
<1> QED BY <1>1, <1>2, <1>3, <1>4, <1>5, <1>7 DEF n, r

\* Tokens up to n go to the blocks that n tokens take.
LEMMA SlotInBlocks ==
    ASSUME NEW n \in Nat, NEW p \in 1 .. n
    PROVE  SlotIndex(p) <= CeilDiv(n, BlockSize) /\ SlotIndex(p) \in Nat \ {0}
<1>1. p \in Nat \ {0} /\ n \in Nat \ {0} /\ p <= n /\ BlockSize \in Nat \ {0}
  BY PoolAssumption
<1>2. CeilDiv(p, BlockSize) <= CeilDiv(n, BlockSize)
  BY <1>1, CeilDivFacts
<1> QED BY <1>1, <1>2, SlotFacts

\* What is stored stays so for fewer tokens, a longer table and a longer sequence.
LEMMA StoredKept ==
    ASSUME NEW mem, NEW D, NEW E, NEW tab \in Seq(D), NEW toks \in Seq(E),
           NEW n \in Nat, NEW m \in Nat, m <= n, Stored(mem, tab, toks, n),
           NEW more \in Seq(D), Len(tab) <= Len(more),
           \A i \in 1 .. Len(tab) : more[i] = tab[i],
           NEW long, \A p \in 1 .. m : SubSeq(long, 1, p) = SubSeq(toks, 1, p)
    PROVE  Stored(mem, more, long, m)
<1> SUFFICES ASSUME NEW p \in 1 .. m
             PROVE  /\ SlotIndex(p) <= Len(more)
                    /\ mem[more[SlotIndex(p)]][SlotOffset(p)] = SubSeq(long, 1, p)
  BY DEF Stored
<1>1. p \in 1 .. n /\ p \in Nat \ {0}
  OBVIOUS
<1>2. /\ SlotIndex(p) <= Len(tab)
      /\ mem[tab[SlotIndex(p)]][SlotOffset(p)] = SubSeq(toks, 1, p)
  BY <1>1 DEF Stored
<1>3. SlotIndex(p) \in Nat \ {0}
  BY <1>1, SlotFacts
<1>4. SlotIndex(p) \in 1 .. Len(tab) /\ SlotIndex(p) <= Len(more)
  BY <1>2, <1>3
<1>5. more[SlotIndex(p)] = tab[SlotIndex(p)]
  BY <1>4
<1> QED BY <1>2, <1>4, <1>5

\* For no tokens nothing has to be stored.
LEMMA NothingStored == ASSUME NEW mem, NEW tab, NEW toks PROVE Stored(mem, tab, toks, 0)
BY DEF Stored

\* What attention reads and what the invariant says are the same slots.
LEMMA ReadyIsStored == \A s, n : ContextReady(s, n) <=> StoredFor(s, n)
BY DEF ContextReady, StoredFor, Stored, SlotBlock, SlotIndex

\* w stores into the slot of the p-th token of s.
WritesSlot(w, s, p) ==
    /\ SlotIndex(p) <= Len(table[s])
    /\ w.block = table[s][SlotIndex(p)] /\ w.offset = SlotOffset(p)

\* What a slot holds after a step: what all stores into it agree on.
LEMMA SlotAfter ==
    ASSUME BlockTypeOK, NEW writes, RunStep(writes), NEW s \in Seqs, NEW p \in Nat \ {0},
           SlotIndex(p) <= Len(table[s]), NEW value,
           \A w \in writes : WritesSlot(w, s, p) => w.value = value,
           \/ \E w \in writes : WritesSlot(w, s, p)
           \/ kv[table[s][SlotIndex(p)]][SlotOffset(p)] = value
    PROVE  kv'[table[s][SlotIndex(p)]][SlotOffset(p)] = value
<1> DEFINE b == table[s][SlotIndex(p)]
           o == SlotOffset(p)
           Hit(w) == w.block = b /\ w.offset = o
<1>1. b \in Blocks /\ o \in 1 .. BlockSize
  <2>1. table[s] \in Seq(Blocks) /\ SlotIndex(p) \in Nat \ {0} /\ o \in 1 .. BlockSize
    BY SlotFacts DEF BlockTypeOK
  <2> QED BY <2>1
<1>2. \A w : Hit(w) <=> WritesSlot(w, s, p)
  BY DEF WritesSlot
<1>3. kv'[b][o] = IF \E w \in writes : Hit(w)
                  THEN (CHOOSE w \in writes : Hit(w)).value ELSE kv[b][o]
  <2> HIDE DEF b, o
  <2> QED BY <1>1 DEF RunStep
<1>4. CASE \E w \in writes : Hit(w)
  <2> DEFINE x == CHOOSE w \in writes : Hit(w)
  <2>1. x \in writes /\ Hit(x)
    BY <1>4
  <2>2. kv'[b][o] = x.value
    BY <1>3, <1>4
  <2> HIDE DEF x, Hit, b, o
  <2>3. x.value = value
    BY <1>2, <2>1
  <2> QED BY <2>2, <2>3 DEF b, o
<1>5. CASE ~\E w \in writes : Hit(w)
  <2> HIDE DEF Hit
  <2> QED BY <1>2, <1>3, <1>5
<1> QED BY <1>4, <1>5
=============================================================================
