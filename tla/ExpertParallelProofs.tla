------------------------- MODULE ExpertParallelProofs -------------------------
(***************************************************************************)
(* The routing of tokens to experts for any number of tokens, experts and  *)
(* ranks: the ranges of get_local_expert_range cover the experts without   *)
(* overlap; the routing plan of a rank is a sort of its routes, in         *)
(* whatever order the lanes of the scatter kernel run; the tiles of a      *)
(* launch cover each row of it once; so all_reduce adds the output of each *)
(* route's expert once.                                                    *)
(***************************************************************************)
EXTENDS ParallelModel, FiniteSetTheorems, WellFoundedInduction, TLAPS

-----------------------------------------------------------------------------
(* The ranges of the ranks                                                 *)

\* The sizes the code computes with: num_experts = ep_size * experts_per_rank.
LEMMA Sizes ==
    /\ EpSize \in Nat \ {0} /\ NumExperts \in Nat \ {0}
    /\ ExpertsPerRank \in Nat \ {0}
    /\ NumExperts = EpSize * ExpertsPerRank
<1>1. EpSize \in Nat \ {0} /\ NumExperts \in Nat \ {0} /\ NumExperts % EpSize = 0
  BY SizeAssumption DEF SizeAssumption
<1>2. ExpertsPerRank \in Nat /\ NumExperts = EpSize * ExpertsPerRank
  BY <1>1, SMT DEF ExpertsPerRank
<1> QED BY <1>1, <1>2, SMT

\* An expert is in the range of a rank exactly if the rank is its quotient.
LEMMA RankOfExpert ==
    ASSUME NEW n \in Nat \ {0}, NEW e \in Nat, NEW k \in Nat,
           e \in k * n .. k * n + n - 1
    PROVE  k = e \div n
<1> DEFINE q == e \div n
<1>1. q \in Nat /\ q * n <= e /\ e < q * n + n
  BY SMT
<1>2. CASE q < k
  <2>1. (q + 1) * n <= k * n BY <1>1, <1>2, SMT
  <2> QED BY <1>1, <2>1, SMT
<1>3. CASE k < q
  <2>1. (k + 1) * n <= q * n BY <1>1, <1>3, SMT
  <2> QED BY <1>1, <2>1, SMT
<1> QED BY <1>1, <1>2, <1>3, SMT

\* The rank of an expert is one of the ranks, and has the expert in its range.
LEMMA HomeOfExpert ==
    ASSUME NEW e \in Experts
    PROVE  /\ e \div ExpertsPerRank \in 0 .. EpSize - 1
           /\ e \in LocalRange(e \div ExpertsPerRank)
           /\ \A k \in Nat : e \in LocalRange(k) => k = e \div ExpertsPerRank
<1> DEFINE n == ExpertsPerRank
           q == e \div n
<1>1. e \in Nat /\ e < EpSize * n /\ n \in Nat \ {0} /\ EpSize \in Nat \ {0}
  BY Sizes DEF Experts
<1>2. q \in Nat /\ q * n <= e /\ e < q * n + n
  BY <1>1, SMT
<1>3. q < EpSize
  <2> SUFFICES ASSUME EpSize <= q PROVE FALSE BY <1>1, <1>2
  <2>1. EpSize * n <= q * n BY <1>1, <1>2, SMT
  <2> QED BY <1>1, <1>2, <2>1, SMT
<1>4. e \in LocalRange(q)
  BY <1>1, <1>2 DEF LocalRange, FirstExpert
<1>5. ASSUME NEW k \in Nat, e \in LocalRange(k) PROVE k = q
  BY <1>1, <1>5, RankOfExpert DEF LocalRange, FirstExpert
<1> HIDE DEF q
<1>6. q \in 0 .. EpSize - 1
  BY <1>1, <1>2, <1>3
<1> QED BY <1>4, <1>5, <1>6 DEF q

\* get_local_expert_range: every expert is on exactly one rank.
THEOREM EveryExpertHasOneRank ==
    \A e \in Experts :
        /\ \E k \in 0 .. EpSize - 1 : e \in LocalRange(k)
        /\ \A j, k \in 0 .. EpSize - 1 : e \in LocalRange(j) /\ e \in LocalRange(k) => j = k
<1> SUFFICES ASSUME NEW e \in Experts
             PROVE  /\ \E k \in 0 .. EpSize - 1 : e \in LocalRange(k)
                    /\ \A j, k \in 0 .. EpSize - 1 :
                          e \in LocalRange(j) /\ e \in LocalRange(k) => j = k
  OBVIOUS
<1>1. \A k \in 0 .. EpSize - 1 : k \in Nat
  BY Sizes
<1> QED BY <1>1, HomeOfExpert

-----------------------------------------------------------------------------
(* Sums                                                                    *)

\* What holds at 0 and goes on from each number below n holds up to n.
LEMMA UpTo ==
    ASSUME NEW n \in Nat, NEW T, 0 \in T, \A i \in 0 .. n - 1 : i \in T => i + 1 \in T
    PROVE  0 .. n \subseteq T
<1> SUFFICES ASSUME NEW bad \in (0 .. n) \ T PROVE FALSE
  OBVIOUS
<1> DEFINE Beyond == (0 .. n) \ T
           R == StrictSubsetOrdering(0 .. n)
           Low == {0 .. i : i \in Beyond}
<1>1. IsWellFoundedOn(R, SUBSET (0 .. n))
  <2>1. IsFiniteSet(0 .. n)
    BY FS_Interval
  <2>2. \A A \in SUBSET (0 .. n) : IsFiniteSet(A)
    BY <2>1, FS_Subset
  <2> QED
    BY <2>1, FS_StrictSubsetOrderingWellFounded, FS_FiniteSubsetsOfFinite
<1>2. Low \subseteq SUBSET (0 .. n) /\ Low # {}
  OBVIOUS
<1>3. \E A \in Low : \A B \in Low : <<B, A>> \notin R
  <2> HIDE DEF R, Low
  <2> QED BY <1>1, <1>2, WFMin
<1>4. PICK i \in Beyond : \A B \in Low : <<B, 0 .. i>> \notin R
  BY <1>3
<1>5. i # 0 /\ i - 1 \in 0 .. n - 1 /\ (i - 1) + 1 = i
  OBVIOUS
<1>6. i - 1 \in Beyond
  BY <1>5
<1>7. 0 .. i - 1 \in Low
  BY <1>6
<1>8. <<0 .. i - 1, 0 .. i>> \in R
  <2>1. 0 .. i - 1 \subseteq 0 .. i /\ 0 .. i - 1 # 0 .. i
        /\ 0 .. i - 1 \in SUBSET (0 .. n) /\ 0 .. i \in SUBSET (0 .. n)
    BY <1>5
  <2> QED BY <2>1 DEF StrictSubsetOrdering
<1> QED BY <1>4, <1>7, <1>8

\* CumSum adds up from 0.
LEMMA CumSumFacts ==
    ASSUME NEW f \in [Locals -> Nat]
    PROVE  /\ CumSum(f) \in [0 .. ExpertsPerRank -> Nat]
           /\ CumSum(f)[0] = 0
           /\ \A e \in Locals : CumSum(f)[e + 1] = CumSum(f)[e] + f[e]
<1> DEFINE n == ExpertsPerRank
           Sums(m) == {s \in [0 .. m -> Nat] :
                         s[0] = 0 /\ \A e \in 0 .. m - 1 : s[e + 1] = s[e] + f[e]}
           T == {m \in 0 .. n : \E s : s \in Sums(m)}
           c == CumSum(f)
<1>1. n \in Nat /\ n # 0 /\ Locals = 0 .. n - 1
  BY Sizes DEF Locals
<1> HIDE DEF n
<1>2. 0 \in T
  <2>1. [e \in 0 .. 0 |-> 0] \in Sums(0)
    OBVIOUS
  <2> QED BY <1>1, <2>1
<1>3. ASSUME NEW m \in 0 .. n - 1, m \in T PROVE m + 1 \in T
  <2>1. PICK s : s \in Sums(m)
    BY <1>3
  <2> DEFINE t == [e \in 0 .. m + 1 |-> IF e = m + 1 THEN s[m] + f[m] ELSE s[e]]
  <2>2. s \in [0 .. m -> Nat] /\ f[m] \in Nat /\ m \in Nat
    BY <1>1, <1>3, <2>1
  <2>3. t \in [0 .. m + 1 -> Nat] /\ t[0] = 0
    BY <2>1, <2>2
  <2>4. ASSUME NEW e \in 0 .. (m + 1) - 1 PROVE t[e + 1] = t[e] + f[e]
    <3>1. CASE e = m
      BY <2>2, <3>1
    <3>2. CASE e # m
      <4>1. e \in 0 .. m - 1 /\ e + 1 \in 0 .. m /\ e + 1 # m + 1
        BY <2>2, <3>2
      <4>2. s[e + 1] = s[e] + f[e]
        BY <2>1, <4>1
      <4> QED BY <4>1, <4>2
    <3> QED BY <3>1, <3>2
  <2>5. t \in Sums(m + 1)
    BY <2>3, <2>4
  <2>6. m + 1 \in 0 .. n
    BY <1>1
  <2> HIDE DEF Sums, t
  <2> QED BY <2>5, <2>6
<1>4. n \in T
  <2>1. 0 .. n \subseteq T
    <3> HIDE DEF T
    <3> QED BY <1>1, <1>2, <1>3, UpTo
  <2>2. n \in 0 .. n
    BY <1>1
  <2> HIDE DEF T
  <2> QED BY <2>1, <2>2
<1>5. PICK s : s \in Sums(n)
  BY <1>4
<1>6. s = [e \in 0 .. n |-> IF e = 0 THEN 0 ELSE s[e - 1] + f[e - 1]]
  <2>1. \A e \in 0 .. n : s[e] = IF e = 0 THEN 0 ELSE s[e - 1] + f[e - 1]
    <3> SUFFICES ASSUME NEW e \in 0 .. n, e # 0 PROVE s[e] = s[e - 1] + f[e - 1]
      BY <1>5
    <3>1. e - 1 \in 0 .. n - 1 /\ (e - 1) + 1 = e
      BY <1>1
    <3> QED BY <1>5, <3>1
  <2>2. s \in [0 .. n -> Nat]
    BY <1>5
  <2> QED BY <2>1, <2>2
<1>7. c = [e \in 0 .. n |-> IF e = 0 THEN 0 ELSE c[e - 1] + f[e - 1]]
  BY <1>6 DEF CumSum, n
<1> HIDE DEF c
<1>8. c[0] = 0 /\ \A e \in 0 .. n - 1 : c[e + 1] = c[e] + f[e]
  <2>1. c[0] = 0
    BY <1>1, <1>7
  <2>2. ASSUME NEW e \in 0 .. n - 1 PROVE c[e + 1] = c[e] + f[e]
    <3>1. e + 1 \in 0 .. n /\ e + 1 # 0 /\ (e + 1) - 1 = e
      BY <1>1
    <3> QED BY <1>7, <3>1
  <2> QED BY <2>1, <2>2
<1>9. 0 .. n \subseteq {e \in 0 .. n : c[e] \in Nat}
  <2> DEFINE U == {e \in 0 .. n : c[e] \in Nat}
  <2>1. 0 \in U
    BY <1>1, <1>8
  <2>2. ASSUME NEW e \in 0 .. n - 1, e \in U PROVE e + 1 \in U
    <3>1. f[e] \in Nat /\ e + 1 \in 0 .. n
      BY <1>1
    <3> QED BY <1>8, <2>2, <3>1
  <2> HIDE DEF U
  <2> QED BY <1>1, <2>1, <2>2, UpTo DEF U
<1>10. c \in [0 .. n -> Nat]
  BY <1>7, <1>9
<1> QED
  BY <1>1, <1>8, <1>10 DEF c, n

\* The sums rise, so they cut the numbers below the total into consecutive ranges.
LEMMA SumRanges ==
    ASSUME NEW s \in [0 .. ExpertsPerRank -> Nat], s[0] = 0,
           \A e \in Locals : s[e] <= s[e + 1]
    PROVE  /\ \A d, e \in 0 .. ExpertsPerRank : d <= e => s[d] <= s[e]
           /\ \A p \in Nat : p < s[ExpertsPerRank] =>
                 \E e \in Locals : s[e] <= p /\ p < s[e + 1]
           /\ \A d, e \in Locals : \A p \in Nat :
                 s[d] <= p /\ p < s[d + 1] /\ s[e] <= p /\ p < s[e + 1] => d = e
<1> DEFINE n == ExpertsPerRank
<1>1. n \in Nat /\ n # 0 /\ Locals = 0 .. n - 1
  BY Sizes DEF Locals
<1>2. s \in [0 .. n -> Nat] /\ \A e \in 0 .. n - 1 : s[e] <= s[e + 1]
  BY <1>1
<1> HIDE DEF n
<1>3. ASSUME NEW e \in 0 .. n - 1
      PROVE  e \in 0 .. n /\ e + 1 \in 0 .. n /\ s[e] \in Nat /\ s[e + 1] \in Nat
             /\ s[e] <= s[e + 1]
  <2>1. e \in 0 .. n /\ e + 1 \in 0 .. n
    BY <1>1
  <2> QED BY <1>2, <2>1
<1>4. \A d, e \in 0 .. n : d <= e => s[d] <= s[e]
  <2> DEFINE T == {e \in 0 .. n : \A d \in 0 .. e : s[d] <= s[e]}
  <2>1. 0 \in T
    BY <1>1, <1>2
  <2>2. ASSUME NEW e \in 0 .. n - 1, e \in T PROVE e + 1 \in T
    <3> SUFFICES ASSUME NEW d \in 0 .. e + 1 PROVE s[d] <= s[e + 1]
      BY <1>3
    <3>1. CASE d = e + 1
      BY <1>3, <3>1
    <3>2. CASE d # e + 1
      <4>1. d \in 0 .. e /\ d \in 0 .. n
        BY <1>1, <3>2
      <4>2. s[d] <= s[e] /\ s[d] \in Nat
        BY <1>2, <2>2, <4>1
      <4> QED BY <1>3, <4>2
    <3> QED BY <3>1, <3>2
  <2>3. 0 .. n \subseteq T
    <3> HIDE DEF T
    <3> QED BY <1>1, <2>1, <2>2, UpTo
  <2> QED BY <2>3
<1>5. \A p \in Nat : p < s[n] => \E e \in 0 .. n - 1 : s[e] <= p /\ p < s[e + 1]
  <2> SUFFICES ASSUME NEW p \in Nat
               PROVE  p < s[n] => \E e \in 0 .. n - 1 : s[e] <= p /\ p < s[e + 1]
    OBVIOUS
  <2> DEFINE T == {m \in 0 .. n : p < s[m] => \E e \in 0 .. n - 1 : s[e] <= p /\ p < s[e + 1]}
  <2>1. 0 \in T
    BY <1>1
  <2>2. ASSUME NEW m \in 0 .. n - 1, m \in T PROVE m + 1 \in T
    <3>1. CASE s[m] <= p
      BY <1>3, <2>2, <3>1
    <3>2. CASE p < s[m]
      BY <1>3, <2>2, <3>2
    <3> QED BY <1>3, <3>1, <3>2
  <2>3. 0 .. n \subseteq T
    <3> HIDE DEF T
    <3> QED BY <1>1, <2>1, <2>2, UpTo
  <2> QED BY <1>1, <2>3
<1>6. ASSUME NEW d \in 0 .. n - 1, NEW e \in 0 .. n - 1, NEW p \in Nat,
             s[d] <= p, p < s[d + 1], s[e] <= p, p < s[e + 1]
      PROVE  d = e
  <2>1. ~(d < e)
    <3> SUFFICES ASSUME d < e PROVE FALSE
      OBVIOUS
    <3>1. d + 1 <= e /\ d + 1 \in 0 .. n /\ e \in 0 .. n
      BY <1>1
    <3>2. s[d + 1] <= s[e] /\ s[d + 1] \in Nat /\ s[e] \in Nat
      BY <1>2, <1>4, <3>1
    <3> QED BY <1>6, <3>2
  <2>2. ~(e < d)
    <3> SUFFICES ASSUME e < d PROVE FALSE
      OBVIOUS
    <3>1. e + 1 <= d /\ e + 1 \in 0 .. n /\ d \in 0 .. n
      BY <1>1
    <3>2. s[e + 1] <= s[d] /\ s[e + 1] \in Nat /\ s[d] \in Nat
      BY <1>2, <1>4, <3>1
    <3> QED BY <1>6, <3>2
  <2> QED BY <2>1, <2>2
<1> QED
  BY <1>1, <1>4, <1>5, <1>6 DEF n

-----------------------------------------------------------------------------
(* The routing plan                                                        *)

\* The routes of local expert e.
Bucket(e) == {r \in Routes : LocalOf(r) = e}

\* The positions lanes have taken for expert e.
Filled(e) == expert_offsets[e] .. write_offsets[e] - 1

PlanShape ==
    /\ selected_experts \in [Routes -> Experts] /\ rank \in 0 .. EpSize - 1
    /\ pc \in {"route", "count", "scan", "scatter", "gate_up", "silu", "down", "combine",
               "done", "argsort", "unpermuted"}

\* The counts are those of the routes.
Counted == expert_counts = [e \in Locals |-> Cardinality(Bucket(e))]

\* Nothing is placed yet.
Unplaced ==
    /\ sorted_route_ids = [p \in Routes |-> NoId]
    /\ inverse_route_ids = [r \in Routes |-> NoId]
    /\ scattered = {}

\* A cursor has moved as often as lanes of its expert have run, each of which has the
\* position it took to itself.
Placed ==
    /\ expert_offsets = CumSum(expert_counts)
    /\ scattered \subseteq LocalRoutes
    /\ sorted_route_ids \in [Routes -> Int] /\ inverse_route_ids \in [Routes -> Int]
    /\ write_offsets = [e \in Locals |->
                           expert_offsets[e] + Cardinality(scattered \cap Bucket(e))]
    /\ \A r \in Routes \ scattered : inverse_route_ids[r] = NoId
    /\ \A r \in scattered : /\ inverse_route_ids[r] \in Filled(LocalOf(r))
                            /\ sorted_route_ids[inverse_route_ids[r]] = r
    /\ \A e \in Locals : \A p \in Filled(e) : sorted_route_ids[p] \in scattered \cap Bucket(e)

Sorting == {"scatter", "gate_up", "silu", "down", "combine"}

PlanInv ==
    /\ PlanShape
    /\ pc \in {"scan"} \cup Sorting => Counted
    /\ pc = "scan" => Unplaced
    /\ pc \in Sorting => Placed
    /\ pc \in Sorting \ {"scatter"} => scattered = LocalRoutes

\* Sizes and kinds of what the kernels work on.
LEMMA RouteFacts ==
    ASSUME PlanShape
    PROVE  /\ NumRoutes \in Nat /\ Routes = 0 .. NumRoutes - 1
           /\ IsFiniteSet(Routes) /\ Cardinality(Routes) = NumRoutes
           /\ ExpertsPerRank \in Nat \ {0} /\ Locals = 0 .. ExpertsPerRank - 1
           /\ \A r \in Routes : LocalOf(r) \in Int
           /\ LocalRoutes \subseteq Routes
           /\ \A r \in LocalRoutes : LocalOf(r) \in Locals
           /\ \A e \in Locals : Bucket(e) \subseteq LocalRoutes
           /\ \A S \in SUBSET Routes : IsFiniteSet(S) /\ Cardinality(S) \in Nat
                                       /\ Cardinality(S) <= NumRoutes
<1>1. NumTokens \in Nat /\ TopK \in Nat
  BY SizeAssumption
<1>2. NumRoutes \in Nat
  BY <1>1 DEF NumRoutes
<1>3. Routes = 0 .. NumRoutes - 1 /\ IsFiniteSet(Routes) /\ Cardinality(Routes) = NumRoutes
  BY <1>2, FS_Interval DEF Routes
<1>4. ExpertsPerRank \in Nat \ {0}
  BY Sizes
<1>5. FirstExpert(rank) \in Int
  <2>1. rank \in Int
    BY Sizes DEF PlanShape
  <2> QED BY <1>4, <2>1 DEF FirstExpert
<1>6. \A r \in Routes : LocalOf(r) \in Int
  <2>1. \A r \in Routes : selected_experts[r] \in Int
    BY Sizes DEF PlanShape, Experts
  <2> QED BY <1>5, <2>1 DEF LocalOf
<1>7. \A S \in SUBSET Routes : IsFiniteSet(S) /\ Cardinality(S) \in Nat
                               /\ Cardinality(S) <= NumRoutes
  BY <1>3, FS_Subset, FS_CardinalityType
<1> QED
  BY <1>2, <1>3, <1>4, <1>6, <1>7 DEF Locals, LocalRoutes, Bucket

\* The offsets of a count: each bucket has as many positions as routes, and all of them
\* together as many as there are local routes.
LEMMA OffsetFacts ==
    ASSUME PlanShape, Counted, expert_offsets = CumSum(expert_counts)
    PROVE  /\ expert_offsets \in [0 .. ExpertsPerRank -> Nat] /\ expert_offsets[0] = 0
           /\ \A e \in Locals :
                 expert_offsets[e + 1] = expert_offsets[e] + Cardinality(Bucket(e))
           /\ \A e \in Locals : expert_offsets[e] <= expert_offsets[e + 1]
           /\ \A d, e \in 0 .. ExpertsPerRank : d <= e => expert_offsets[d] <= expert_offsets[e]
           /\ expert_offsets[ExpertsPerRank] = Cardinality(LocalRoutes)
<1> DEFINE n == ExpertsPerRank
           o == expert_offsets
           Below(e) == {r \in Routes : LocalOf(r) \in 0 .. e - 1}
<1>1. /\ n \in Nat \ {0} /\ Locals = 0 .. n - 1
      /\ \A S \in SUBSET Routes : IsFiniteSet(S) /\ Cardinality(S) \in Nat
      /\ \A r \in Routes : LocalOf(r) \in Int
  BY RouteFacts
<1>2. \A e : Bucket(e) \in SUBSET Routes
  BY DEF Bucket
<1>3. expert_counts \in [Locals -> Nat] /\ \A e \in Locals : expert_counts[e] = Cardinality(Bucket(e))
  BY <1>1, <1>2 DEF Counted
<1>4. /\ o \in [0 .. n -> Nat] /\ o[0] = 0
      /\ \A e \in Locals : o[e + 1] = o[e] + Cardinality(Bucket(e))
  BY <1>3, CumSumFacts
<1> HIDE DEF o, n
<1>5. \A e \in Locals : o[e] \in Nat /\ o[e] <= o[e + 1]
  <2> SUFFICES ASSUME NEW e \in Locals PROVE o[e] \in Nat /\ o[e] <= o[e + 1]
    OBVIOUS
  <2>1. e \in 0 .. n
    BY <1>1
  <2>2. o[e] \in Nat /\ Cardinality(Bucket(e)) \in Nat
    BY <1>1, <1>2, <1>4, <2>1
  <2> QED BY <1>4, <2>2
<1>6. \A d, e \in 0 .. n : d <= e => o[d] <= o[e]
  BY <1>4, <1>5, SumRanges DEF n
<1>7. o[n] = Cardinality(Below(n))
  <2> DEFINE T == {e \in 0 .. n : o[e] = Cardinality(Below(e))}
  <2>1. 0 \in T
    <3>1. Below(0) = {}
      BY <1>1
    <3> QED BY <1>1, <1>4, <3>1, FS_EmptySet
  <2>2. ASSUME NEW e \in 0 .. n - 1, e \in T PROVE e + 1 \in T
    <3>1. Below(e + 1) = Below(e) \cup Bucket(e) /\ Below(e) \cap Bucket(e) = {}
      BY <1>1 DEF Bucket
    <3>2. Below(e) \in SUBSET Routes
      OBVIOUS
    <3> HIDE DEF Below
    <3>3. /\ IsFiniteSet(Below(e)) /\ IsFiniteSet(Bucket(e))
          /\ Cardinality(Below(e)) \in Nat /\ Cardinality(Bucket(e)) \in Nat
      BY <1>1, <1>2, <3>2
    <3>4. Cardinality(Below(e + 1)) = Cardinality(Below(e)) + Cardinality(Bucket(e))
      <4>1. Cardinality(Below(e) \cup Bucket(e))
               = Cardinality(Below(e)) + Cardinality(Bucket(e)) - Cardinality(Below(e) \cap Bucket(e))
        BY <3>3, FS_Union
      <4>2. Cardinality(Below(e) \cap Bucket(e)) = 0
        BY <3>1, FS_EmptySet
      <4>3. Below(e + 1) = Below(e) \cup Bucket(e)
        BY <3>1
      <4>4. Cardinality(Below(e + 1)) = Cardinality(Below(e) \cup Bucket(e))
        BY <4>3, Zenon
      <4> QED BY <3>3, <4>1, <4>2, <4>4
    <3>5. e \in Locals /\ e + 1 \in 0 .. n
      BY <1>1
    <3> QED BY <1>4, <2>2, <3>4, <3>5
  <2>3. 0 .. n \subseteq T
    <3> HIDE DEF T
    <3> QED BY <1>1, <2>1, <2>2, UpTo
  <2>4. n \in 0 .. n
    BY <1>1
  <2> QED BY <2>3, <2>4
<1>8. Below(n) = LocalRoutes
  BY <1>1 DEF LocalRoutes
<1> QED
  BY <1>4, <1>5, <1>6, <1>7, <1>8 DEF o, n

\* The cursors stay in the range of their expert, so two of them never meet.
LEMMA CursorFacts ==
    ASSUME PlanShape, Counted, Placed
    PROVE  /\ \A e \in Locals :
                 /\ Cardinality(scattered \cap Bucket(e)) \in Nat
                 /\ Cardinality(scattered \cap Bucket(e)) <= Cardinality(Bucket(e))
                 /\ expert_offsets[e] \in Nat /\ expert_offsets[e + 1] \in Nat
                 /\ write_offsets[e] = expert_offsets[e] + Cardinality(scattered \cap Bucket(e))
                 /\ write_offsets[e] <= expert_offsets[e + 1]
                 /\ expert_offsets[e + 1] <= NumRoutes
           /\ \A d, e \in Locals : \A p \in Nat :
                 /\ expert_offsets[d] <= p /\ p < expert_offsets[d + 1]
                 /\ expert_offsets[e] <= p /\ p < expert_offsets[e + 1]
                 => d = e
<1> DEFINE n == ExpertsPerRank
           o == expert_offsets
<1>1. /\ n \in Nat \ {0} /\ Locals = 0 .. n - 1 /\ NumRoutes \in Nat
      /\ LocalRoutes \in SUBSET Routes
      /\ \A S \in SUBSET Routes : IsFiniteSet(S) /\ Cardinality(S) \in Nat
                                  /\ Cardinality(S) <= NumRoutes
  BY RouteFacts
<1>2. o = CumSum(expert_counts)
  BY DEF Placed
<1>3. /\ o \in [0 .. n -> Nat] /\ o[0] = 0
      /\ \A e \in Locals : o[e + 1] = o[e] + Cardinality(Bucket(e))
      /\ \A e \in Locals : o[e] <= o[e + 1]
      /\ \A d, e \in 0 .. n : d <= e => o[d] <= o[e]
      /\ o[n] = Cardinality(LocalRoutes)
  BY <1>2, OffsetFacts
<1>4. \A d, e \in Locals : \A p \in Nat :
         o[d] <= p /\ p < o[d + 1] /\ o[e] <= p /\ p < o[e + 1] => d = e
  BY <1>3, SumRanges
<1>5. \A e \in Locals :
         write_offsets[e] = o[e] + Cardinality(scattered \cap Bucket(e))
  BY DEF Placed
<1> HIDE DEF n, o
<1>6. ASSUME NEW e \in Locals
      PROVE  /\ Cardinality(scattered \cap Bucket(e)) \in Nat
             /\ Cardinality(scattered \cap Bucket(e)) <= Cardinality(Bucket(e))
             /\ o[e] \in Nat /\ o[e + 1] \in Nat
             /\ write_offsets[e] <= o[e + 1]
             /\ o[e + 1] <= NumRoutes
  <2>1. Bucket(e) \in SUBSET Routes /\ scattered \cap Bucket(e) \in SUBSET Routes
    BY DEF Bucket
  <2>2. /\ Cardinality(scattered \cap Bucket(e)) \in Nat
        /\ Cardinality(Bucket(e)) \in Nat /\ IsFiniteSet(Bucket(e))
    BY <1>1, <2>1
  <2>3. Cardinality(scattered \cap Bucket(e)) <= Cardinality(Bucket(e))
    BY <2>2, FS_Subset
  <2>4. e \in 0 .. n /\ e + 1 \in 0 .. n /\ n \in 0 .. n /\ e + 1 <= n
    BY <1>1
  <2>5. o[e] \in Nat /\ o[e + 1] \in Nat /\ o[n] \in Nat /\ o[e + 1] <= o[n]
    BY <1>3, <2>4
  <2>6. o[n] <= NumRoutes
    BY <1>1, <1>3
  <2>7. write_offsets[e] <= o[e + 1]
    BY <1>3, <1>5, <2>2, <2>3, <2>5
  <2> QED BY <1>1, <2>2, <2>3, <2>5, <2>6, <2>7
<1> QED BY <1>4, <1>5, <1>6 DEF o

\* A lane takes a position of its own, whichever lanes ran before it.
LEMMA ScatterPlaced ==
    ASSUME PlanShape, Counted, Placed, NEW r \in Routes, Scatter(r)
    PROVE  Placed'
<1> DEFINE x == LocalOf(r)
           position == write_offsets[x]
           Run(e) == scattered \cap Bucket(e)
<1>1. /\ pc = "scatter" /\ r \in LocalRoutes /\ r \notin scattered
      /\ write_offsets' = [write_offsets EXCEPT ![x] = @ + 1]
      /\ sorted_route_ids' = [sorted_route_ids EXCEPT ![position] = r]
      /\ inverse_route_ids' = [inverse_route_ids EXCEPT ![r] = position]
      /\ scattered' = scattered \cup {r}
      /\ UNCHANGED <<selected_experts, rank, expert_counts, expert_offsets>>
  BY DEF Scatter
<1>2. /\ NumRoutes \in Nat /\ Routes = 0 .. NumRoutes - 1 /\ x \in Locals
      /\ \A e \in Locals : Bucket(e) \subseteq LocalRoutes
      /\ \A S \in SUBSET Routes : IsFiniteSet(S)
  BY <1>1, RouteFacts
<1>3. /\ \A q : LocalOf(q)' = LocalOf(q)
      /\ LocalRoutes' = LocalRoutes /\ \A e : Bucket(e)' = Bucket(e)
  BY <1>1 DEF LocalOf, LocalRoutes, Bucket
<1>4. /\ expert_offsets = CumSum(expert_counts)
      /\ scattered \subseteq LocalRoutes
      /\ sorted_route_ids \in [Routes -> Int] /\ inverse_route_ids \in [Routes -> Int]
      /\ write_offsets = [e \in Locals |-> expert_offsets[e] + Cardinality(Run(e))]
      /\ \A q \in Routes \ scattered : inverse_route_ids[q] = NoId
      /\ \A q \in scattered : /\ inverse_route_ids[q] \in Filled(LocalOf(q))
                              /\ sorted_route_ids[inverse_route_ids[q]] = q
      /\ \A e \in Locals : \A p \in Filled(e) : sorted_route_ids[p] \in Run(e)
  BY DEF Placed
<1>5. /\ \A e \in Locals :
            /\ Cardinality(Run(e)) \in Nat
            /\ expert_offsets[e] \in Nat /\ expert_offsets[e + 1] \in Nat
            /\ write_offsets[e] = expert_offsets[e] + Cardinality(Run(e))
            /\ write_offsets[e] <= expert_offsets[e + 1]
            /\ expert_offsets[e + 1] <= NumRoutes
      /\ \A d, e \in Locals : \A p \in Nat :
            /\ expert_offsets[d] <= p /\ p < expert_offsets[d + 1]
            /\ expert_offsets[e] <= p /\ p < expert_offsets[e + 1]
            => d = e
  BY CursorFacts
<1>6. r \in Bucket(x) /\ r \notin Run(x)
  BY <1>1 DEF Bucket
<1>7. \A e \in Locals \ {x} : r \notin Bucket(e)
  BY DEF Bucket
<1>8. IsFiniteSet(Run(x)) /\ IsFiniteSet(Bucket(x)) /\ Run(x) \cup {r} \subseteq Bucket(x)
  <2>1. Run(x) \in SUBSET Routes /\ Bucket(x) \in SUBSET Routes
    BY DEF Bucket
  <2> QED BY <1>2, <1>6, <2>1
<1>9. Cardinality(Run(x) \cup {r}) = Cardinality(Run(x)) + 1
  <2> HIDE DEF Run, x
  <2> QED BY <1>6, <1>8, FS_AddElement
<1>10. position < expert_offsets[x + 1]
  <2>1. Cardinality(Run(x) \cup {r}) <= Cardinality(Bucket(x)) /\ Cardinality(Bucket(x)) \in Nat
    BY <1>8, FS_Subset, FS_CardinalityType
  <2>2. expert_offsets[x + 1] = expert_offsets[x] + Cardinality(Bucket(x))
    BY <1>2, <1>4, OffsetFacts
  <2> HIDE DEF Run, x
  <2> QED BY <1>2, <1>5, <1>9, <2>1, <2>2
<1> HIDE DEF Run, x
<1>11. position \in Nat /\ position \in Routes /\ expert_offsets[x] <= position
  BY <1>2, <1>5, <1>10
<1>12. \A e \in Locals : Run(e)' = IF e = x THEN Run(e) \cup {r} ELSE Run(e)
  BY <1>1, <1>3, <1>6, <1>7 DEF Run
<1>13. \A e \in Locals : write_offsets'[e] = IF e = x THEN position + 1 ELSE write_offsets[e]
  BY <1>1, <1>4
<1>14. \A e \in Locals : Filled(e)' = IF e = x THEN Filled(e) \cup {position} ELSE Filled(e)
  <2> SUFFICES ASSUME NEW e \in Locals
               PROVE  Filled(e)' = IF e = x THEN Filled(e) \cup {position} ELSE Filled(e)
    OBVIOUS
  <2>1. CASE e = x
    <3>1. write_offsets'[e] = position + 1 /\ expert_offsets' = expert_offsets
      BY <1>1, <1>13, <2>1
    <3>2. expert_offsets[x] .. (position + 1) - 1
             = (expert_offsets[x] .. position - 1) \cup {position}
      BY <1>2, <1>5, <1>11
    <3> QED BY <2>1, <3>1, <3>2 DEF Filled
  <2>2. CASE e # x
    BY <1>1, <1>13, <2>2 DEF Filled
  <2> QED BY <2>1, <2>2
<1>15. \A e \in Locals : position \notin Filled(e)
  <2> SUFFICES ASSUME NEW e \in Locals, position \in Filled(e) PROVE FALSE
    OBVIOUS
  <2>1. expert_offsets[e] <= position /\ position < write_offsets[e]
    BY <1>5, <1>11 DEF Filled
  <2>2. position < expert_offsets[e + 1]
    BY <1>5, <1>11, <2>1
  <2>3. e = x
    BY <1>2, <1>5, <1>10, <1>11, <2>1, <2>2
  <2> QED BY <1>11, <2>1, <2>3
<1>16. \A p : p # position => sorted_route_ids'[p] = sorted_route_ids[p]
  BY <1>1, <1>4
<1>17. sorted_route_ids'[position] = r /\ inverse_route_ids'[r] = position
  BY <1>1, <1>4, <1>11
<1>18. \A q \in Routes \ {r} : inverse_route_ids'[q] = inverse_route_ids[q]
  BY <1>1, <1>4
<1>19. scattered' \subseteq LocalRoutes' /\ scattered' \subseteq Routes
       /\ \A q \in scattered' : LocalOf(q) \in Locals
  BY <1>1, <1>3, <1>4, RouteFacts
<1>20. write_offsets' = [e \in Locals |-> expert_offsets'[e] + Cardinality(Run(e)')]
  <2>1. write_offsets' = [e \in Locals |-> write_offsets'[e]]
    BY <1>1, <1>4
  <2>2. ASSUME NEW e \in Locals PROVE write_offsets'[e] = expert_offsets'[e] + Cardinality(Run(e)')
    <3>1. CASE e = x
      <4>1. Run(e)' = Run(x) \cup {r}
        BY <1>12, <3>1
      <4>2. Cardinality(Run(e)') = Cardinality(Run(x)) + 1
        BY <1>9, <4>1, Zenon
      <4>3. write_offsets'[e] = position + 1
        BY <1>13, <3>1
      <4>4. expert_offsets'[e] = expert_offsets[x]
        BY <1>1, <3>1
      <4>5. position = expert_offsets[x] + Cardinality(Run(x))
            /\ expert_offsets[x] \in Nat /\ Cardinality(Run(x)) \in Nat
        BY <1>2, <1>5
      <4>6. position + 1 = expert_offsets[x] + (Cardinality(Run(x)) + 1)
        BY <4>5
      <4> QED BY <4>2, <4>3, <4>4, <4>6, Zenon
    <3>2. CASE e # x
      <4>1. Run(e)' = Run(e)
        BY <1>12, <3>2
      <4>2. Cardinality(Run(e)') = Cardinality(Run(e))
        BY <4>1, Zenon
      <4> QED BY <1>1, <1>5, <1>13, <3>2, <4>2
    <3> QED BY <3>1, <3>2
  <2> QED BY <2>1, <2>2
<1>21. \A q \in Routes \ scattered' : inverse_route_ids'[q] = NoId
  BY <1>1, <1>4, <1>18
<1>22. ASSUME NEW q \in scattered', NEW e \in Locals, LocalOf(q) = e
       PROVE  /\ inverse_route_ids'[q] \in Filled(e)'
              /\ sorted_route_ids'[inverse_route_ids'[q]] = q
  <2>1. CASE q = r
    <3>1. e = x
      BY <1>22, <2>1 DEF x
    <3> QED BY <1>14, <1>17, <2>1, <3>1
  <2>2. CASE q # r
    <3>1. q \in scattered /\ q \in Routes
      BY <1>1, <1>19, <2>2
    <3>2. inverse_route_ids'[q] = inverse_route_ids[q]
      BY <1>18, <2>2, <3>1
    <3>3. inverse_route_ids[q] \in Filled(e) /\ sorted_route_ids[inverse_route_ids[q]] = q
      BY <1>4, <1>22, <3>1
    <3>4. inverse_route_ids[q] # position
      BY <1>15, <3>3
    <3>5. inverse_route_ids[q] \in Filled(e)'
      BY <1>14, <3>3
    <3> QED BY <1>16, <3>2, <3>3, <3>4, <3>5
  <2> QED BY <2>1, <2>2
<1>23. ASSUME NEW e \in Locals, NEW p \in Filled(e)'
       PROVE  sorted_route_ids'[p] \in Run(e)'
  <2>1. CASE p = position
    <3>1. e = x
      BY <1>14, <1>15, <1>23, <2>1
    <3> QED BY <1>12, <1>17, <2>1, <3>1
  <2>2. CASE p # position
    <3>1. p \in Filled(e)
      BY <1>14, <1>23, <2>2
    <3> QED BY <1>4, <1>12, <1>16, <2>2, <3>1
  <2> QED BY <2>1, <2>2
<1>24. sorted_route_ids' \in [Routes -> Int] /\ inverse_route_ids' \in [Routes -> Int]
  BY <1>1, <1>2, <1>4, <1>11
<1>25. ASSUME NEW q \in scattered'
       PROVE  /\ inverse_route_ids'[q] \in Filled(LocalOf(q))'
              /\ sorted_route_ids'[inverse_route_ids'[q]] = q
  <2>1. PICK e \in Locals : LocalOf(q) = e /\ LocalOf(q)' = e
    BY <1>3, <1>19
  <2>2. Filled(LocalOf(q))' = Filled(e)'
    BY <2>1 DEF Filled
  <2> QED BY <1>22, <2>1, <2>2
<1>26. /\ write_offsets' = [e \in Locals |->
                               expert_offsets'[e] + Cardinality((scattered \cap Bucket(e))')]
       /\ \A e \in Locals : \A p \in Filled(e)' :
             sorted_route_ids'[p] \in (scattered \cap Bucket(e))'
  BY <1>20, <1>23 DEF Run
<1>27. expert_offsets' = CumSum(expert_counts')
  BY <1>1, <1>4, Zenon
<1> QED
  BY <1>19, <1>21, <1>24, <1>25, <1>26, <1>27 DEF Placed

-----------------------------------------------------------------------------
(* The plan is a sort                                                      *)

\* Placed lanes, one for each local route, make the plan PlanIsSorted describes.
LEMMA PlacedIsSorted ==
    ASSUME PlanShape, Counted, Placed, scattered = LocalRoutes
    PROVE  /\ \A e \in Locals :
                 {sorted_route_ids[p] : p \in expert_offsets[e] .. expert_offsets[e + 1] - 1} =
                     {r \in Routes : LocalOf(r) = e}
           /\ NumLocal = Cardinality(LocalRoutes)
           /\ \A r \in Routes :
                 IF r \in LocalRoutes
                 THEN inverse_route_ids[r] # NoId /\ sorted_route_ids[inverse_route_ids[r]] = r
                 ELSE inverse_route_ids[r] = NoId
<1>1. /\ LocalRoutes \subseteq Routes
      /\ \A r \in LocalRoutes : LocalOf(r) \in Locals
      /\ \A e \in Locals : Bucket(e) \subseteq LocalRoutes
  BY RouteFacts
<1>2. /\ \A r \in Routes \ scattered : inverse_route_ids[r] = NoId
      /\ \A r \in scattered : /\ inverse_route_ids[r] \in Filled(LocalOf(r))
                              /\ sorted_route_ids[inverse_route_ids[r]] = r
      /\ \A e \in Locals : \A p \in Filled(e) : sorted_route_ids[p] \in scattered \cap Bucket(e)
      /\ expert_offsets = CumSum(expert_counts)
  BY DEF Placed
<1>3. ASSUME NEW e \in Locals
      PROVE  /\ expert_offsets[e] \in Nat /\ expert_offsets[e + 1] \in Nat
             /\ Filled(e) = expert_offsets[e] .. expert_offsets[e + 1] - 1
  <2>1. /\ expert_offsets[e] \in Nat /\ expert_offsets[e + 1] \in Nat
        /\ write_offsets[e] = expert_offsets[e] + Cardinality(scattered \cap Bucket(e))
    BY CursorFacts
  <2>2. scattered \cap Bucket(e) = Bucket(e)
    BY <1>1
  <2>3. write_offsets[e] = expert_offsets[e] + Cardinality(Bucket(e))
    BY <2>1, <2>2, Zenon
  <2>4. expert_offsets[e + 1] = expert_offsets[e] + Cardinality(Bucket(e))
    BY <1>2, OffsetFacts
  <2> QED BY <2>1, <2>3, <2>4 DEF Filled
<1>4. ASSUME NEW e \in Locals
      PROVE  {sorted_route_ids[p] : p \in expert_offsets[e] .. expert_offsets[e + 1] - 1}
                 = {r \in Routes : LocalOf(r) = e}
  <2>1. {sorted_route_ids[p] : p \in Filled(e)} = Bucket(e)
    <3>1. \A p \in Filled(e) : sorted_route_ids[p] \in Bucket(e)
      BY <1>2
    <3>2. ASSUME NEW r \in Bucket(e)
          PROVE  inverse_route_ids[r] \in Filled(e) /\ sorted_route_ids[inverse_route_ids[r]] = r
      BY <1>1, <1>2 DEF Bucket
    <3> QED BY <3>1, <3>2
  <2> QED BY <1>3, <2>1 DEF Bucket
<1>5. NumLocal = Cardinality(LocalRoutes)
  BY <1>2, OffsetFacts DEF NumLocal
<1>6. ASSUME NEW r \in LocalRoutes
      PROVE  inverse_route_ids[r] # NoId /\ sorted_route_ids[inverse_route_ids[r]] = r
  <2>1. LocalOf(r) \in Locals /\ inverse_route_ids[r] \in Filled(LocalOf(r))
    BY <1>1, <1>2
  <2>2. inverse_route_ids[r] \in Nat
    <3> DEFINE e == LocalOf(r)
    <3>1. /\ e \in Locals /\ inverse_route_ids[r] \in Filled(e)
          /\ expert_offsets[e] \in Nat /\ expert_offsets[e + 1] \in Nat
          /\ Filled(e) = expert_offsets[e] .. expert_offsets[e + 1] - 1
      BY <1>3, <2>1
    <3> HIDE DEF e
    <3> QED BY <3>1
  <2> QED BY <1>2, <2>2 DEF NoId
<1> QED
  BY <1>2, <1>4, <1>5, <1>6

\* The invariant starts out true.
LEMMA InitPlanInv ==
    Init => PlanInv
<1> SUFFICES ASSUME Init PROVE PlanInv
  OBVIOUS
<1>1. ExpertInit
  BY DEF Init
<1>2. 0 \in Experts /\ rank \in 0 .. EpSize - 1
  BY <1>1, Sizes DEF ExpertInit, Experts
<1> QED
  BY <1>1, <1>2 DEF ExpertInit, PlanInv, PlanShape, Sorting

\* What the plan is made of.
planState == <<selected_experts, rank, expert_counts, expert_offsets, write_offsets,
               sorted_route_ids, inverse_route_ids, scattered>>

\* While that stays, so do the parts of the invariant.
LEMMA PartsStay ==
    ASSUME UNCHANGED planState
    PROVE  /\ Counted' = Counted /\ Unplaced' = Unplaced /\ Placed' = Placed
           /\ LocalRoutes' = LocalRoutes
<1>1. /\ \A e : Bucket(e)' = Bucket(e) /\ Filled(e)' = Filled(e)
      /\ \A r : LocalOf(r)' = LocalOf(r)
      /\ LocalRoutes' = LocalRoutes
  BY DEF planState, Bucket, Filled, LocalOf, LocalRoutes
<1> QED
  BY <1>1 DEF planState, Counted, Unplaced, Placed, Bucket, Filled, LocalOf, LocalRoutes

\* Nothing of the plan changes in a step of the model around the experts, nor in the
\* kernels that only use it.
LEMMA PlanStays ==
    ASSUME PlanInv, UNCHANGED planState,
           \/ pc' = pc
           \/ pc \in Sorting \ {"scatter"} /\ pc' \in Sorting \ {"scatter"}
    PROVE  PlanInv'
<1>1. PlanShape'
  BY DEF PlanInv, PlanShape, Sorting, planState
<1>2. scattered' = scattered
  BY DEF planState
<1> QED
  BY <1>1, <1>2, PartsStay DEF PlanInv, Sorting

\* The other steps of the model are not the experts'.
LEMMA NextOfExperts ==
    ASSUME [Next]_vars
    PROVE  \/ ExpertStep \/ RouteTokens \/ (\E r \in Routes : Argsort(r)) \/ TPExperts
           \/ UNCHANGED expertVars
<1>1. ASSUME NEW name, NEW e, NEW kind, Load(name, e, kind) PROVE UNCHANGED expertVars
  BY <1>1, Zenon DEF Load
<1>2. EndLoad \/ Embed \/ SelfAttention \/ DenseMLP \/ LMHead => UNCHANGED expertVars
  BY Zenon DEF EndLoad, Embed, SelfAttention, DenseMLP, LMHead
<1>3. UNCHANGED vars => UNCHANGED expertVars
  BY DEF vars
<1> QED
  BY <1>1, <1>2, <1>3, Zenon DEF Next, ExpertKernel

\* Every step keeps it.
LEMMA NextPlanInv ==
    PlanInv /\ [Next]_vars => PlanInv'
<1> SUFFICES ASSUME PlanInv, [Next]_vars PROVE PlanInv'
  OBVIOUS
<1>1. PlanShape
  BY DEF PlanInv
<1>2. CASE CountRoutes
  <2>1. /\ pc' = "scan" /\ UNCHANGED <<selected_experts, rank>>
        /\ expert_counts' = [e \in Locals |-> Cardinality({r \in Routes : LocalOf(r) = e})]
        /\ sorted_route_ids' = [p \in Routes |-> NoId]
        /\ inverse_route_ids' = [r \in Routes |-> NoId]
        /\ scattered' = {}
    BY <1>2 DEF CountRoutes, Kernel
  <2>2. Counted'
    BY <2>1 DEF Counted, Bucket, LocalOf
  <2> QED BY <1>1, <2>1, <2>2 DEF PlanInv, PlanShape, Unplaced, Sorting
<1>3. CASE ScanCounts
  <2>1. /\ pc = "scan" /\ pc' = "scatter"
        /\ UNCHANGED <<selected_experts, rank, expert_counts, sorted_route_ids,
                       inverse_route_ids, scattered>>
        /\ expert_offsets' = CumSum(expert_counts)
        /\ write_offsets' = [e \in Locals |-> expert_offsets'[e]]
    BY <1>3 DEF ScanCounts, Kernel
  <2>2. Counted /\ Unplaced
    BY <2>1 DEF PlanInv
  <2>3. PlanShape' /\ Counted'
    BY <1>1, <2>1, <2>2 DEF PlanShape, Counted, Bucket, LocalOf
  <2>4. expert_offsets' = CumSum(expert_counts')
    BY <2>1, Zenon
  <2>5. \A e \in Locals : expert_offsets'[e] \in Nat
    <3>1. Locals \subseteq 0 .. ExpertsPerRank
      BY Sizes DEF Locals
    <3>2. expert_counts \in [Locals -> Nat]
      BY <1>1, <2>2, RouteFacts DEF Counted, Bucket
    <3> QED BY <2>1, <3>1, <3>2, CumSumFacts
  <2>6. write_offsets' = [e \in Locals |->
                            expert_offsets'[e] + Cardinality((scattered \cap Bucket(e))')]
    <3>1. \A e : (scattered \cap Bucket(e))' = {}
      BY <2>1, <2>2 DEF Unplaced
    <3>2. \A e : Cardinality((scattered \cap Bucket(e))') = 0
      BY <3>1, FS_EmptySet
    <3>3. ASSUME NEW e \in Locals
          PROVE  expert_offsets'[e]
                     = expert_offsets'[e] + Cardinality((scattered \cap Bucket(e))')
      BY <2>5, <3>2
    <3> QED BY <2>1, <3>3
  <2>7. \A e \in Locals : Filled(e)' = {}
    BY <2>1, <2>5 DEF Filled
  <2>8. /\ sorted_route_ids' \in [Routes -> Int] /\ inverse_route_ids' \in [Routes -> Int]
        /\ \A r \in Routes : inverse_route_ids'[r] = NoId
        /\ scattered' = {}
    BY <2>1, <2>2 DEF Unplaced, NoId
  <2>9. Placed'
    BY <2>4, <2>6, <2>7, <2>8 DEF Placed
  <2> QED BY <2>1, <2>3, <2>9 DEF PlanInv, Sorting
<1>4. CASE \E r \in Routes : Scatter(r)
  <2>1. PICK r \in Routes : Scatter(r)
    BY <1>4
  <2>2. pc = "scatter" /\ pc' = "scatter"
        /\ UNCHANGED <<selected_experts, rank, expert_counts>>
    BY <2>1 DEF Scatter
  <2>3. Counted /\ Placed
    BY <2>2 DEF PlanInv, Sorting
  <2>4. Placed'
    BY <1>1, <2>1, <2>3, ScatterPlaced
  <2>5. PlanShape' /\ Counted'
    BY <1>1, <2>2, <2>3 DEF PlanShape, Counted, Bucket, LocalOf
  <2> QED BY <2>2, <2>4, <2>5 DEF PlanInv, Sorting
<1>5. CASE EndScatter
  <2>1. /\ pc = "scatter" /\ pc' = "gate_up" /\ scattered = LocalRoutes
        /\ UNCHANGED planState
    BY <1>5 DEF EndScatter, Kernel, planState
  <2>2. Counted /\ Placed
    BY <2>1 DEF PlanInv, Sorting
  <2>3. Counted' /\ Placed' /\ scattered' = LocalRoutes'
    BY <2>1, <2>2, PartsStay DEF planState
  <2>4. PlanShape'
    BY <1>1, <2>1 DEF PlanShape, planState
  <2> QED BY <2>1, <2>3, <2>4 DEF PlanInv, Sorting
<1>6. CASE GateUp \/ SiluMul \/ Down
  <2>1. /\ UNCHANGED planState
        /\ pc \in Sorting \ {"scatter"} /\ pc' \in Sorting \ {"scatter"}
    BY <1>6 DEF GateUp, SiluMul, Down, Kernel, planVars, planState, Sorting
  <2> QED BY <2>1, PlanStays
<1>7. CASE Combine
  <2>1. /\ UNCHANGED selected_experts
        /\ \/ rank < EpSize - 1 /\ rank' = rank + 1 /\ pc' = "count"
           \/ rank' = rank /\ pc' = "done"
    BY <1>7 DEF Combine
  <2>2. rank' \in 0 .. EpSize - 1
    BY <1>1, <2>1, Sizes DEF PlanShape
  <2> QED BY <1>1, <2>1, <2>2 DEF PlanInv, PlanShape, Sorting
<1>8. CASE RouteTokens
  <2>1. /\ pc' \in {"count", "argsort"} /\ UNCHANGED rank
        /\ selected_experts' \in [Routes -> Experts]
    BY <1>8 DEF RouteTokens, Route
  <2> QED BY <1>1, <2>1 DEF PlanInv, PlanShape, Sorting
<1>9. CASE (\E r \in Routes : Argsort(r)) \/ TPExperts
  <2>1. /\ UNCHANGED <<selected_experts, rank>>
        /\ pc' \in {"argsort", "unpermuted"}
    BY <1>9 DEF Argsort, TPExperts
  <2> QED BY <1>1, <2>1 DEF PlanInv, PlanShape, Sorting
<1>10. CASE UNCHANGED expertVars
  <2>1. UNCHANGED planState /\ pc' = pc
    BY <1>10 DEF expertVars, planState
  <2> QED BY <2>1, PlanStays
<1>11. \/ ExpertStep \/ RouteTokens \/ (\E r \in Routes : Argsort(r)) \/ TPExperts
       \/ UNCHANGED expertVars
  BY NextOfExperts
<1> QED
  BY <1>2, <1>3, <1>4, <1>5, <1>6, <1>7, <1>8, <1>9, <1>10, <1>11 DEF ExpertStep

\* counting_sort_moe_routes: when the scatter kernel has ended, each expert's slice of
\* sorted_route_ids has its routes, each once, and inverse_route_ids leads from each
\* local route to its place and to -1 from the others, in whatever order the lanes took
\* their positions, for any number of tokens, experts and ranks.
THEOREM RoutesAreSorted == Spec => []PlanIsSorted
<1>1. PlanInv => PlanIsSorted
  <2> SUFFICES ASSUME PlanInv, pc \in {"gate_up", "silu", "down", "combine"} PROVE PlanIsSorted
    BY DEF PlanIsSorted
  <2>1. PlanShape /\ Counted /\ Placed /\ scattered = LocalRoutes
    BY DEF PlanInv, Sorting
  <2> QED BY <2>1, PlacedIsSorted DEF PlanIsSorted
<1> QED
  BY <1>1, InitPlanInv, NextPlanInv, PTL DEF Spec

-----------------------------------------------------------------------------
(* The rows and their sum                                                  *)

\* The rank that has the expert of route r.
HomeOf(r) == selected_experts[r] \div ExpertsPerRank

\* What the grouped GEMMs have made of the local routes.
RowsDone ==
    /\ pc \in {"silu", "down"} =>
          \A r \in LocalRoutes :
              rows[inverse_route_ids[r]] = {<<selected_experts[r], TokenOf(r)>>}
    /\ pc = "combine" =>
          \A r \in LocalRoutes :
              rows[inverse_route_ids[r]]
                  = {<<selected_experts[r], <<selected_experts[r], TokenOf(r)>>>>}

\* The ranks that have combined their rows, each of its own routes.
RanksDone == IF pc = "done" THEN EpSize ELSE rank
TotalDone ==
    /\ pc = "route" => rank = 0
    /\ pc \in {"route", "count", "scan", "done"} \cup Sorting =>
          total = [r \in Routes |->
                     IF HomeOf(r) < RanksDone
                     THEN {<<HomeOf(r), {<<selected_experts[r],
                                           <<selected_experts[r], TokenOf(r)>>>>}>>}
                     ELSE {}]

\* The invariant of the layer: the plan, the rows made by it and the sum of the ranks.
LayerInv == PlanInv /\ RowsDone /\ TotalDone

\* cdiv rounds up.
LEMMA CeilDivFacts ==
    ASSUME NEW c \in Nat, NEW b \in Nat \ {0}
    PROVE  /\ CeilDiv(c, b) \in Nat
           /\ c <= CeilDiv(c, b) * b
           /\ CeilDiv(c, b) * b <= c + b - 1
           /\ c = 0 => CeilDiv(c, b) = 0
<1> DEFINE x == c + b - 1
           q == x \div b
<1>1. x \in Nat
  OBVIOUS
<1>2. q \in Nat /\ q * b <= x /\ x < q * b + b
  <2> HIDE DEF x
  <2> QED BY <1>1, SMT
<1>3. c = 0 => q = 0
  <2> SUFFICES ASSUME c = 0, q # 0 PROVE FALSE
    OBVIOUS
  <2>1. x = b - 1
    OBVIOUS
  <2> HIDE DEF q, x
  <2>2. q >= 1
    BY <1>2
  <2>3. q * b >= b
    BY <1>2, <2>2, SMT
  <2> QED BY <1>2, <2>1, <2>3, SMT
<1>4. c <= q * b /\ q * b <= c + b - 1
  <2>1. x = c + b - 1
    OBVIOUS
  <2> DEFINE y == q * b
  <2>2. y \in Nat /\ y <= x /\ x < y + b
    <3> HIDE DEF q, x
    <3> QED BY <1>2, SMT
  <2> HIDE DEF q, x, y
  <2>3. c <= y /\ y <= c + b - 1
    BY <2>1, <2>2
  <2> QED BY <2>3 DEF y
<1> QED BY <1>2, <1>3, <1>4 DEF CeilDiv

\* The tiles of the experts follow each other, and the grid has room for all of them though
\* it is made from the capacity alone.
LEMMA TileFacts ==
    ASSUME PlanShape, Counted, expert_offsets = CumSum(expert_counts)
    PROVE  /\ TilesSum \in [0 .. ExpertsPerRank -> Nat] /\ TilesSum[0] = 0
           /\ \A e \in Locals :
                 /\ expert_offsets[e] \in Nat /\ expert_offsets[e + 1] \in Nat
                 /\ expert_offsets[e] <= expert_offsets[e + 1]
                 /\ expert_offsets[e + 1] <= NumLocal
                 /\ TilesOf[e] \in Nat
                 /\ expert_offsets[e + 1] - expert_offsets[e] <= TilesOf[e] * TileRows
                 /\ TilesSum[e] \in Nat /\ TilesSum[e + 1] \in Nat
                 /\ TilesSum[e + 1] = TilesSum[e] + TilesOf[e]
                 /\ TilesSum[e] <= TilesSum[e + 1]
           /\ NumLocal \in Nat /\ Capacity \in Nat /\ NumLocal <= Capacity
           /\ TileRows \in Nat \ {0}
           /\ TilesSum[ExpertsPerRank] \in Nat
           /\ NumTiles \in Nat /\ TilesSum[ExpertsPerRank] <= NumTiles
<1> DEFINE n == ExpertsPerRank
           o == expert_offsets
           b == TileRows
           t == TilesSum
<1>1. /\ n \in Nat \ {0} /\ Locals = 0 .. n - 1 /\ NumRoutes \in Nat
      /\ Cardinality(LocalRoutes) <= NumRoutes
  BY RouteFacts
<1>2. b \in Nat \ {0}
  BY SizeAssumption DEF SizeAssumption
<1>3. /\ o \in [0 .. n -> Nat] /\ o[0] = 0
      /\ \A e \in Locals : o[e] <= o[e + 1]
      /\ \A d, e \in 0 .. n : d <= e => o[d] <= o[e]
      /\ o[n] = Cardinality(LocalRoutes)
  BY OffsetFacts
<1> HIDE DEF n
<1>4. ASSUME NEW e \in Locals
      PROVE  /\ e \in 0 .. n /\ e + 1 \in 0 .. n
             /\ o[e] \in Nat /\ o[e + 1] \in Nat /\ o[e] <= o[e + 1] /\ o[e + 1] <= o[n]
             /\ TilesOf[e] \in Nat
             /\ o[e + 1] - o[e] <= TilesOf[e] * b
             /\ TilesOf[e] * b <= o[e + 1] - o[e] + b - 1
             /\ o[e + 1] = 0 => TilesOf[e] = 0
  <2>1. e \in 0 .. n /\ e + 1 \in 0 .. n /\ n \in 0 .. n /\ e + 1 <= n
    BY <1>1
  <2>2. o[e] \in Nat /\ o[e + 1] \in Nat /\ o[e] <= o[e + 1] /\ o[e + 1] <= o[n]
    BY <1>3, <2>1
  <2> DEFINE c == o[e + 1] - o[e]
  <2>3. c \in Nat /\ (o[e + 1] = 0 => c = 0)
    BY <2>2
  <2>4. TilesOf[e] = CeilDiv(c, b)
    BY DEF TilesOf
  <2> HIDE DEF c, o, b
  <2>5. /\ TilesOf[e] \in Nat /\ c <= TilesOf[e] * b /\ TilesOf[e] * b <= c + b - 1
        /\ c = 0 => TilesOf[e] = 0
    BY <1>2, <2>3, <2>4, CeilDivFacts
  <2> QED BY <2>1, <2>2, <2>3, <2>5 DEF c
<1>5. /\ t \in [0 .. n -> Nat] /\ t[0] = 0
      /\ \A e \in Locals : t[e + 1] = t[e] + TilesOf[e]
  <2>1. TilesOf \in [Locals -> Nat]
    <3>1. TilesOf = [e \in Locals |-> TilesOf[e]]
      BY DEF TilesOf
    <3> QED BY <1>4, <3>1
  <2> QED BY <2>1, CumSumFacts DEF TilesSum, n
<1>6. /\ t[n] \in Nat /\ o[n] \in Nat /\ NumLocal = o[n] /\ Capacity \in Nat /\ NumLocal <= Capacity
  <2>1. n \in 0 .. n
    BY <1>1
  <2>2. t[n] \in Nat /\ o[n] \in Nat /\ o[n] <= NumRoutes
    BY <1>1, <1>3, <1>5, <2>1
  <2> QED BY <1>1, <2>2 DEF NumLocal, Capacity, n
<1> HIDE DEF o, t, b
<1>7. t[n] * b <= o[n] + n * (b - 1) /\ (o[n] = 0 => t[n] = 0)
  <2> DEFINE T == {e \in 0 .. n : t[e] * b <= o[e] + e * (b - 1) /\ (o[e] = 0 => t[e] = 0)}
  <2>1. 0 \in T
    BY <1>1, <1>2, <1>3, <1>5 DEF o
  <2>2. ASSUME NEW e \in 0 .. n - 1, e \in T PROVE e + 1 \in T
    <3>1. /\ e \in 0 .. n /\ e + 1 \in 0 .. n
          /\ o[e] \in Nat /\ o[e + 1] \in Nat /\ o[e] <= o[e + 1]
          /\ TilesOf[e] \in Nat /\ TilesOf[e] * b <= o[e + 1] - o[e] + b - 1
          /\ o[e + 1] = 0 => TilesOf[e] = 0
      BY <1>1, <1>4
    <3>2. t[e] \in Nat /\ t[e + 1] = t[e] + TilesOf[e]
      BY <1>1, <1>5, <3>1
    <3>3. t[e + 1] * b = t[e] * b + TilesOf[e] * b
      BY <1>2, <3>1, <3>2
    <3>4. (e + 1) * (b - 1) = e * (b - 1) + (b - 1)
      BY <1>2, <3>1
    <3>5. t[e] * b <= o[e] + e * (b - 1) /\ (o[e] = 0 => t[e] = 0)
      BY <2>2
    <3>6. t[e + 1] * b <= o[e + 1] + (e + 1) * (b - 1)
      BY <1>2, <3>1, <3>2, <3>3, <3>4, <3>5
    <3>7. o[e + 1] = 0 => t[e + 1] = 0
      BY <3>1, <3>2, <3>5
    <3> QED BY <3>1, <3>6, <3>7
  <2>3. 0 .. n \subseteq T
    <3> HIDE DEF T
    <3> QED BY <1>1, <2>1, <2>2, UpTo
  <2>4. n \in 0 .. n
    BY <1>1
  <2> QED BY <2>3, <2>4
<1>8. NumTiles \in Nat /\ t[n] <= NumTiles
  <2>1. CASE Capacity = 0
    <3>1. NumTiles = 0 /\ o[n] = 0
      BY <1>6, <2>1 DEF NumTiles
    <3> QED BY <1>7, <3>1
  <2>2. CASE Capacity # 0
    <3> DEFINE k == CeilDiv(Capacity, b)
    <3>1. NumTiles = k + n - 1
      BY <2>2 DEF NumTiles, n, b
    <3>2. k \in Nat /\ Capacity <= k * b
      BY <1>2, <1>6, CeilDivFacts
    <3> HIDE DEF k
    <3>3. t[n] * b <= k * b + n * (b - 1)
      BY <1>1, <1>2, <1>6, <1>7, <3>2
    <3>4. k * b + n * (b - 1) = (k + n) * b - n
      BY <1>1, <1>2, <3>2
    <3>5. t[n] * b < (k + n) * b
      BY <1>1, <1>2, <1>6, <3>2, <3>3, <3>4
    <3>6. t[n] < k + n
      BY <1>1, <1>2, <1>6, <3>2, <3>5
    <3> QED BY <1>1, <1>6, <3>1, <3>2, <3>6
  <2> QED BY <2>1, <2>2
<1>9. \A e \in Locals : t[e] \in Nat /\ t[e + 1] \in Nat /\ t[e] <= t[e + 1]
  BY <1>4, <1>5
<1> QED
  BY <1>2, <1>4, <1>5, <1>6, <1>8, <1>9 DEF o, t, b, n

\* The expert of a tile is found by counting the experts whose tiles end before it.
LEMMA TileExpertIs ==
    ASSUME PlanShape, Counted, expert_offsets = CumSum(expert_counts),
           NEW e \in Locals, NEW i \in Nat, TilesSum[e] <= i, i < TilesSum[e + 1]
    PROVE  TileExpert(i) = e
<1> DEFINE n == ExpertsPerRank
           t == TilesSum
           S == {d \in Locals : i >= t[d + 1]}
<1>1. n \in Nat \ {0} /\ Locals = 0 .. n - 1
  BY Sizes DEF Locals
<1>2. /\ t \in [0 .. n -> Nat] /\ t[0] = 0
      /\ \A d \in Locals : t[d] <= t[d + 1]
  BY TileFacts
<1>3. \A c, d \in 0 .. n : c <= d => t[c] <= t[d]
  BY <1>2, SumRanges
<1> HIDE DEF n, t
<1>4. S = 0 .. e - 1
  <2>1. ASSUME NEW d \in Locals, d < e PROVE i >= t[d + 1]
    <3>1. d + 1 \in 0 .. n /\ e \in 0 .. n /\ d + 1 <= e
      BY <1>1, <2>1
    <3>2. t[d + 1] \in Nat /\ t[e] \in Nat /\ t[d + 1] <= t[e]
      BY <1>2, <1>3, <3>1
    <3> QED BY <3>2 DEF t
  <2>2. ASSUME NEW d \in Locals, d >= e PROVE ~(i >= t[d + 1])
    <3>1. d + 1 \in 0 .. n /\ e + 1 \in 0 .. n /\ e + 1 <= d + 1
      BY <1>1, <2>2
    <3>2. t[d + 1] \in Nat /\ t[e + 1] \in Nat /\ t[e + 1] <= t[d + 1]
      BY <1>2, <1>3, <3>1
    <3> QED BY <3>2 DEF t
  <2> QED BY <1>1, <2>1, <2>2
<1>5. Cardinality(0 .. e - 1) = e
  <2>1. e \in Nat /\ e - 1 \in Int /\ 0 \in Int
    BY <1>1
  <2>2. Cardinality(0 .. e - 1) = IF 0 > e - 1 THEN 0 ELSE (e - 1) - 0 + 1
    BY <2>1, FS_Interval
  <2> QED BY <2>1, <2>2
<1>6. TileExpert(i) = Cardinality(S)
  BY DEF TileExpert, t
<1> QED BY <1>4, <1>5, <1>6

\* Every row of an expert's slice is in one tile with work, and that tile is the expert's.
LEMMA OneTile ==
    ASSUME PlanShape, Counted, expert_offsets = CumSum(expert_counts),
           NEW e \in Locals, NEW p \in Nat, expert_offsets[e] <= p, p < expert_offsets[e + 1]
    PROVE  \E i : TileExpert(i) = e /\ {j \in Tiles : p \in TileRange(j)} = {i}
<1> DEFINE n == ExpertsPerRank
           o == expert_offsets
           b == TileRows
           t == TilesSum
           k == (p - o[e]) \div b
<1>1. n \in Nat \ {0} /\ Locals = 0 .. n - 1
  BY Sizes DEF Locals
<1>2. /\ t \in [0 .. n -> Nat] /\ t[0] = 0
      /\ b \in Nat \ {0} /\ t[n] \in Nat /\ NumTiles \in Nat /\ t[n] <= NumTiles
  BY TileFacts
<1>3. \A d \in Locals :
         /\ o[d] \in Nat /\ o[d + 1] \in Nat /\ o[d] <= o[d + 1]
         /\ TilesOf[d] \in Nat /\ o[d + 1] - o[d] <= TilesOf[d] * b
         /\ t[d] \in Nat /\ t[d + 1] \in Nat /\ t[d + 1] = t[d] + TilesOf[d] /\ t[d] <= t[d + 1]
  BY TileFacts
<1>4. /\ \A c, d \in 0 .. n : c <= d => t[c] <= t[d]
      /\ \A i \in Nat : i < t[n] => \E d \in Locals : t[d] <= i /\ i < t[d + 1]
  BY <1>2, <1>3, SumRanges
<1>5. \A c, d \in Locals : \A q \in Nat :
         o[c] <= q /\ q < o[c + 1] /\ o[d] <= q /\ q < o[d + 1] => c = d
  BY OffsetFacts, SumRanges
<1>6. k \in Nat /\ k * b <= p - o[e] /\ p - o[e] < k * b + b
  <2> DEFINE x == p - o[e]
  <2>1. x \in Nat
    BY <1>3
  <2> HIDE DEF x, b
  <2>2. x \div b \in Nat /\ (x \div b) * b <= x /\ x < (x \div b) * b + b
    BY <1>2, <2>1, SMT
  <2> QED BY <2>2 DEF x
<1> HIDE DEF n, b, t, k
<1>7. k < TilesOf[e]
  <2> SUFFICES ASSUME TilesOf[e] <= k PROVE FALSE
    BY <1>3, <1>6
  <2>1. TilesOf[e] * b <= k * b
    BY <1>2, <1>3, <1>6
  <2>2. k * b \in Nat /\ TilesOf[e] * b \in Nat
    BY <1>2, <1>3, <1>6
  <2> DEFINE y == k * b
             z == TilesOf[e] * b
  <2>3. y \in Nat /\ z \in Nat /\ z <= y /\ y <= p - o[e] /\ o[e + 1] - o[e] <= z
    BY <1>3, <1>6, <2>1, <2>2
  <2> HIDE DEF y, z
  <2> QED BY <1>3, <2>3
<1> DEFINE i == t[e] + k
<1>8. i \in Nat /\ t[e] <= i /\ i < t[e + 1]
  BY <1>3, <1>6, <1>7
<1>9. TileExpert(i) = e
  BY <1>8, TileExpertIs DEF t
<1>10. i \in Tiles
  <2>1. e + 1 \in 0 .. n /\ n \in 0 .. n /\ e + 1 <= n
    BY <1>1
  <2>2. t[e + 1] <= t[n]
    BY <1>4, <2>1
  <2>3. i < t[n] /\ i < NumTiles
    BY <1>2, <1>3, <1>8, <2>2
  <2> QED BY <1>2, <1>8, <2>3 DEF Tiles, t, n
<1>11. p \in TileRange(i)
  <2> DEFINE first == o[e] + (i - t[e]) * b
  <2>1. i - t[e] = k
    BY <1>3, <1>6
  <2>2. first = o[e] + k * b
    BY <2>1
  <2>3. k * b \in Nat
    BY <1>2, <1>6
  <2>4. first \in Nat /\ first <= p /\ p < first + b
    <3> DEFINE y == k * b
    <3>1. y \in Nat /\ y <= p - o[e] /\ p - o[e] < y + b /\ first = o[e] + y
      BY <1>6, <2>2, <2>3
    <3> HIDE DEF y, first
    <3> QED BY <1>2, <1>3, <3>1
  <2> HIDE DEF first
  <2>5. p \in {q \in first .. first + b - 1 : q < o[e + 1]}
    BY <1>2, <2>4
  <2> QED BY <1>9, <2>5 DEF TileRange, first, t, b
<1>12. ASSUME NEW j \in Tiles, p \in TileRange(j) PROVE j = i
  <2>1. j \in Nat /\ j < t[n]
    BY <1>2 DEF Tiles, t, n
  <2>2. PICK d \in Locals : t[d] <= j /\ j < t[d + 1]
    BY <1>4, <2>1
  <2>3. TileExpert(j) = d
    BY <2>1, <2>2, TileExpertIs DEF t
  <2> DEFINE m == j - t[d]
             y == m * b
  <2>4. p \in o[d] + y .. o[d] + y + b - 1 /\ p < o[d + 1]
    BY <1>12, <2>3 DEF TileRange, t, b
  <2>5. m \in Nat /\ y \in Nat
    <3>1. m \in Nat
      BY <1>3, <2>1, <2>2
    <3> HIDE DEF m
    <3> QED BY <1>2, <3>1
  <2> HIDE DEF m, y
  <2>6. o[d] <= p /\ o[d] + y <= p /\ p < o[d] + y + b
    BY <1>2, <1>3, <2>4, <2>5
  <2>7. d = e
    BY <1>3, <1>5, <2>4, <2>6
  <2>8. y <= p - o[e] /\ p - o[e] < y + b
    BY <1>2, <1>3, <2>5, <2>6, <2>7
  <2>9. m = k
    <3> DEFINE z == k * b
    <3>1. z \in Nat /\ z < y + b /\ y < z + b
      <4>1. z \in Nat /\ z <= p - o[e] /\ p - o[e] < z + b
        BY <1>2, <1>6
      <4> HIDE DEF z
      <4> QED BY <1>2, <1>3, <2>5, <2>8, <4>1
    <3>2. k * b < (m + 1) * b /\ m * b < (k + 1) * b
      BY <1>2, <1>6, <2>5, <3>1 DEF y
    <3>3. k < m + 1 /\ m < k + 1
      BY <1>2, <1>6, <2>5, <3>2
    <3> QED BY <1>6, <2>5, <3>3
  <2> QED BY <1>3, <2>1, <2>7, <2>9 DEF m
<1>13. {j \in Tiles : p \in TileRange(j)} = {i}
  BY <1>10, <1>11, <1>12
<1> QED BY <1>9, <1>13

\* A launch applies to each row of an expert's slice that expert, once.
LEMMA GroupedRow ==
    ASSUME PlanShape, Counted, expert_offsets = CumSum(expert_counts),
           NEW e \in Locals, NEW p \in Nat, expert_offsets[e] <= p, p < expert_offsets[e + 1],
           NEW source
    PROVE  /\ p \in RowIds
           /\ GroupedLinear(source)[p] = {<<e + FirstExpert(rank), v>> : v \in source[p]}
<1>1. PICK i : TileExpert(i) = e /\ {j \in Tiles : p \in TileRange(j)} = {i}
  BY OneTile
<1>2. p \in RowIds
  <2>1. /\ expert_offsets[e + 1] \in Nat /\ expert_offsets[e + 1] <= NumLocal
        /\ NumLocal \in Nat /\ Capacity \in Nat /\ NumLocal <= Capacity
    BY TileFacts
  <2> QED BY <2>1 DEF RowIds
<1>3. GroupedLinear(source)[p]
         = {<<TileExpert(j) + FirstExpert(rank), v>> :
               j \in {h \in Tiles : p \in TileRange(h)}, v \in source[p]}
  BY <1>2 DEF GroupedLinear
<1> QED BY <1>1, <1>2, <1>3

\* A local route's place in the plan: in the slice of its expert.
LEMMA PlaceOfRoute ==
    ASSUME PlanInv, pc \in Sorting \ {"scatter"}, NEW r \in LocalRoutes
    PROVE  /\ LocalOf(r) \in Locals /\ inverse_route_ids[r] \in Nat
           /\ expert_offsets[LocalOf(r)] <= inverse_route_ids[r]
           /\ inverse_route_ids[r] < expert_offsets[LocalOf(r) + 1]
           /\ inverse_route_ids[r] < NumLocal
           /\ sorted_route_ids[inverse_route_ids[r]] = r
           /\ selected_experts[r] = LocalOf(r) + FirstExpert(rank)
<1>1. PlanShape /\ Counted /\ Placed /\ scattered = LocalRoutes
  BY DEF PlanInv, Sorting
<1>2. expert_offsets = CumSum(expert_counts)
  BY <1>1 DEF Placed
<1> DEFINE e == LocalOf(r)
           p == inverse_route_ids[r]
<1>3. r \in Routes /\ e \in Locals
  BY <1>1, RouteFacts
<1>4. p \in Filled(e) /\ sorted_route_ids[p] = r
  BY <1>1 DEF Placed
<1>5. /\ expert_offsets[e] \in Nat /\ expert_offsets[e + 1] \in Nat
      /\ write_offsets[e] \in Nat /\ write_offsets[e] <= expert_offsets[e + 1]
  <2> HIDE DEF e
  <2>1. /\ Cardinality(scattered \cap Bucket(e)) \in Nat
        /\ expert_offsets[e] \in Nat /\ expert_offsets[e + 1] \in Nat
        /\ write_offsets[e] = expert_offsets[e] + Cardinality(scattered \cap Bucket(e))
        /\ write_offsets[e] <= expert_offsets[e + 1]
    BY <1>1, <1>3, CursorFacts
  <2> QED BY <2>1
<1>6. expert_offsets[e + 1] <= NumLocal /\ NumLocal \in Nat
  <2> HIDE DEF e
  <2> QED BY <1>1, <1>2, <1>3, TileFacts
<1>7. selected_experts[r] = e + FirstExpert(rank)
  <2>1. selected_experts[r] \in Int
    BY <1>1, <1>3, Sizes DEF PlanShape, Experts
  <2>2. FirstExpert(rank) \in Int
    BY <1>1, Sizes DEF PlanShape, FirstExpert
  <2> QED BY <2>1, <2>2 DEF LocalOf
<1>8. /\ p \in Nat /\ expert_offsets[e] <= p /\ p < expert_offsets[e + 1] /\ p < NumLocal
  <2> HIDE DEF e, p
  <2> QED BY <1>4, <1>5, <1>6 DEF Filled
<1> QED BY <1>3, <1>4, <1>7, <1>8

\* A launch that reads the right source for a local route stores what its expert makes of it.
LEMMA LaunchRow ==
    ASSUME PlanInv, pc \in Sorting \ {"scatter"}, NEW r \in LocalRoutes,
           NEW source, NEW x, source[inverse_route_ids[r]] = {x}
    PROVE  /\ inverse_route_ids[r] \in RowIds
           /\ GroupedLinear(source)[inverse_route_ids[r]] = {<<selected_experts[r], x>>}
<1>1. PlanShape /\ Counted /\ expert_offsets = CumSum(expert_counts)
  BY DEF PlanInv, Sorting, Placed
<1>2. /\ LocalOf(r) \in Locals /\ inverse_route_ids[r] \in Nat
      /\ expert_offsets[LocalOf(r)] <= inverse_route_ids[r]
      /\ inverse_route_ids[r] < expert_offsets[LocalOf(r) + 1]
      /\ selected_experts[r] = LocalOf(r) + FirstExpert(rank)
  BY PlaceOfRoute
<1> DEFINE p == inverse_route_ids[r]
<1>3. p \in RowIds /\ GroupedLinear(source)[p]
                        = {<<LocalOf(r) + FirstExpert(rank), v>> : v \in source[p]}
  BY <1>1, <1>2, GroupedRow
<1>4. GroupedLinear(source)[p] = {<<selected_experts[r], v>> : v \in source[p]}
  BY <1>2, <1>3
<1> QED BY <1>3, <1>4

\* A route is local to the rank of its expert.
LEMMA LocalIsHome ==
    ASSUME PlanShape, NEW r \in Routes
    PROVE  /\ HomeOf(r) \in 0 .. EpSize - 1
           /\ r \in LocalRoutes <=> HomeOf(r) = rank
<1>1. selected_experts[r] \in Experts /\ rank \in Nat
  BY Sizes DEF PlanShape
<1>2. r \in LocalRoutes <=> selected_experts[r] \in LocalRange(rank)
  <2> DEFINE f == FirstExpert(rank)
             x == selected_experts[r]
             n == ExpertsPerRank
  <2>1. f \in Nat /\ x \in Nat /\ n \in Nat \ {0}
    BY <1>1, Sizes DEF FirstExpert, Experts
  <2>2. r \in LocalRoutes <=> x - f \in 0 .. n - 1
    BY DEF LocalRoutes, LocalOf, Locals
  <2>3. LocalRange(rank) = f .. f + n - 1
    BY DEF LocalRange
  <2> HIDE DEF f, x, n
  <2>4. x - f \in 0 .. n - 1 <=> x \in f .. f + n - 1
    BY <2>1
  <2> QED BY <2>2, <2>3, <2>4 DEF x
<1>3. /\ HomeOf(r) \in 0 .. EpSize - 1
      /\ selected_experts[r] \in LocalRange(HomeOf(r))
      /\ \A k \in Nat : selected_experts[r] \in LocalRange(k) => k = HomeOf(r)
  BY <1>1, HomeOfExpert DEF HomeOf
<1> QED BY <1>1, <1>2, <1>3

\* The invariant of the layer starts out true.
LEMMA InitLayerInv ==
    Init => LayerInv
<1> SUFFICES ASSUME Init PROVE LayerInv
  OBVIOUS
<1>1. ExpertInit
  BY DEF Init
<1>2. PlanInv
  BY InitPlanInv
<1>3. RowsDone
  BY <1>1 DEF ExpertInit, RowsDone
<1>4. \A r \in Routes : ~(HomeOf(r) < RanksDone)
  <2> SUFFICES ASSUME NEW r \in Routes PROVE ~(HomeOf(r) < RanksDone)
    OBVIOUS
  <2>1. HomeOf(r) \in Nat
    BY <1>2, LocalIsHome, Sizes DEF PlanInv
  <2>2. RanksDone = 0
    BY <1>1 DEF ExpertInit, RanksDone
  <2> QED BY <2>1, <2>2
<1>5. TotalDone
  BY <1>1, <1>4 DEF ExpertInit, TotalDone
<1> QED BY <1>2, <1>3, <1>5 DEF LayerInv

\* The sum stays while a rank works on its rows.
LEMMA TotalStays ==
    ASSUME TotalDone, UNCHANGED <<selected_experts, rank, total>>, pc # "done",
           pc \in {"count", "scan"} \cup Sorting,
           pc' \in {"count", "scan"} \cup Sorting
    PROVE  TotalDone'
<1>1. \A r : HomeOf(r)' = HomeOf(r)
  BY DEF HomeOf
<1>2. RanksDone' = RanksDone
  BY DEF RanksDone, Sorting
<1>3. total = [r \in Routes |->
                 IF HomeOf(r) < RanksDone
                 THEN {<<HomeOf(r), {<<selected_experts[r],
                                       <<selected_experts[r], TokenOf(r)>>>>}>>}
                 ELSE {}]
  BY DEF TotalDone
<1> QED BY <1>1, <1>2, <1>3 DEF TotalDone, Sorting

\* A rank's rows are added to the sums of its own routes, which had nothing yet.
LEMMA CombineTotal ==
    ASSUME LayerInv, PlanInv', Combine
    PROVE  TotalDone'
<1> DEFINE value(r) == {<<HomeOf(r), {<<selected_experts[r],
                                        <<selected_experts[r], TokenOf(r)>>>>}>>}
<1>1. PlanInv /\ RowsDone /\ TotalDone /\ PlanShape
  BY DEF LayerInv, PlanInv
<1>2. /\ pc = "combine" /\ UNCHANGED selected_experts
      /\ total' = [r \in Routes |->
                     IF inverse_route_ids[r] = NoId THEN total[r]
                     ELSE total[r] \cup {<<rank, rows[inverse_route_ids[r]]>>}]
      /\ \/ rank < EpSize - 1 /\ rank' = rank + 1 /\ pc' = "count"
         \/ ~(rank < EpSize - 1) /\ rank' = rank /\ pc' = "done"
  BY DEF Combine
<1>3. PlanShape /\ Counted /\ Placed /\ scattered = LocalRoutes
  BY <1>1, <1>2 DEF PlanInv, Sorting
<1>4. rank \in 0 .. EpSize - 1 /\ EpSize \in Nat
  BY <1>1, Sizes DEF PlanShape
<1>5. RanksDone = rank /\ RanksDone' = rank + 1
  <2>1. ~(rank < EpSize - 1) => EpSize = rank + 1
    BY <1>4
  <2>2. RanksDone = rank
    BY <1>2 DEF RanksDone
  <2>3. CASE pc' = "count"
    BY <1>2, <2>3 DEF RanksDone
  <2>4. CASE pc' = "done"
    <3>1. RanksDone' = EpSize
      BY <2>4 DEF RanksDone
    <3> QED BY <1>2, <2>1, <2>2, <2>4, <3>1
  <2> QED BY <1>2, <2>2, <2>3, <2>4
<1>6. \A r : HomeOf(r)' = HomeOf(r)
  BY <1>2 DEF HomeOf
<1>7. total = [r \in Routes |-> IF HomeOf(r) < rank THEN value(r) ELSE {}]
  BY <1>1, <1>2, <1>5 DEF TotalDone, Sorting
<1>8. ASSUME NEW r \in Routes
      PROVE  total'[r] = IF HomeOf(r) < rank + 1 THEN value(r) ELSE {}
  <2>1. HomeOf(r) \in Nat /\ (r \in LocalRoutes <=> HomeOf(r) = rank)
    BY <1>1, LocalIsHome, Sizes
  <2>2. /\ total[r] = IF HomeOf(r) < rank THEN value(r) ELSE {}
        /\ total'[r] = IF inverse_route_ids[r] = NoId THEN total[r]
                       ELSE total[r] \cup {<<rank, rows[inverse_route_ids[r]]>>}
    BY <1>2, <1>7
  <2>3. CASE r \in LocalRoutes
    <3>1. inverse_route_ids[r] # NoId
      BY <1>1, <1>2, <2>3, PlaceOfRoute DEF Sorting, NoId
    <3>2. rows[inverse_route_ids[r]]
             = {<<selected_experts[r], <<selected_experts[r], TokenOf(r)>>>>}
      BY <1>1, <1>2, <2>3 DEF RowsDone
    <3>3. total[r] = {}
      BY <1>4, <2>1, <2>2, <2>3
    <3>4. total'[r] = {<<rank, rows[inverse_route_ids[r]]>>}
      BY <2>2, <3>1, <3>3
    <3>5. total'[r] = value(r)
      BY <2>1, <2>3, <3>2, <3>4
    <3>6. HomeOf(r) < rank + 1
      BY <1>4, <2>1, <2>3
    <3> QED BY <3>5, <3>6
  <2>4. CASE r \notin LocalRoutes
    <3>1. inverse_route_ids[r] = NoId
      BY <1>3, <2>4 DEF Placed
    <3>2. total'[r] = total[r]
      BY <2>2, <3>1
    <3>3. HomeOf(r) < rank + 1 <=> HomeOf(r) < rank
      BY <1>4, <2>1, <2>4
    <3> HIDE DEF value
    <3> QED BY <2>2, <3>2, <3>3
  <2> QED BY <2>3, <2>4
<1>9. total' = [r \in Routes |-> IF HomeOf(r) < RanksDone' THEN value(r) ELSE {}]
  <2> HIDE DEF value
  <2> QED BY <1>2, <1>5, <1>8
<1> QED BY <1>2, <1>6, <1>9 DEF TotalDone, Sorting

\* Every step keeps the rows and the sum.
LEMMA NextLayerInv ==
    LayerInv /\ [Next]_vars => LayerInv'
<1> SUFFICES ASSUME LayerInv, [Next]_vars PROVE LayerInv'
  OBVIOUS
<1>1. PlanInv /\ PlanInv' /\ RowsDone /\ TotalDone
  BY NextPlanInv DEF LayerInv
<1>2. RowsDone' /\ TotalDone' => LayerInv'
  BY <1>1 DEF LayerInv
<1>3. CASE CountRoutes \/ ScanCounts \/ (\E r \in Routes : Scatter(r)) \/ EndScatter
  <2>1. /\ UNCHANGED <<selected_experts, rank, total>>
        /\ pc \in {"count", "scan", "scatter"} /\ pc' \in {"scan", "scatter", "gate_up"}
    BY <1>3 DEF CountRoutes, ScanCounts, Scatter, EndScatter, Kernel
  <2>2. RowsDone'
    BY <2>1 DEF RowsDone
  <2>3. TotalDone'
    BY <1>1, <2>1, TotalStays DEF Sorting
  <2> QED BY <1>2, <2>2, <2>3
<1>4. CASE GateUp
  <2> DEFINE source == [p \in RowIds |-> {TokenOf(sorted_route_ids[p])}]
  <2>1. /\ pc = "gate_up" /\ pc' = "silu" /\ UNCHANGED <<selected_experts, rank, total>>
        /\ UNCHANGED planState
        /\ rows' = GroupedLinear(source)
    BY <1>4 DEF GateUp, Kernel, planVars, planState
  <2>2. LocalRoutes' = LocalRoutes
    BY <2>1, PartsStay
  <2>3. ASSUME NEW r \in LocalRoutes
        PROVE  rows'[inverse_route_ids[r]] = {<<selected_experts[r], TokenOf(r)>>}
    <3>1. inverse_route_ids[r] \in RowIds /\ sorted_route_ids[inverse_route_ids[r]] = r
      <4>1. /\ inverse_route_ids[r] \in Nat /\ inverse_route_ids[r] < NumLocal
            /\ sorted_route_ids[inverse_route_ids[r]] = r
        BY <1>1, <2>1, PlaceOfRoute DEF Sorting
      <4>2. NumLocal \in Nat /\ Capacity \in Nat /\ NumLocal <= Capacity
        BY <1>1, <2>1, TileFacts DEF PlanInv, Placed, Sorting
      <4> QED BY <4>1, <4>2 DEF RowIds
    <3>2. source[inverse_route_ids[r]] = {TokenOf(r)}
      BY <3>1
    <3> HIDE DEF source
    <3> QED BY <1>1, <2>1, <3>2, LaunchRow DEF Sorting
  <2>4. RowsDone'
    BY <2>1, <2>2, <2>3 DEF RowsDone, planState
  <2>5. TotalDone'
    BY <1>1, <2>1, TotalStays DEF Sorting
  <2> QED BY <1>2, <2>4, <2>5
<1>5. CASE SiluMul
  <2>1. /\ pc = "silu" /\ pc' = "down" /\ UNCHANGED <<selected_experts, rank, total>>
        /\ UNCHANGED planState
        /\ rows' = [p \in RowIds |-> IF p < NumLocal THEN rows[p] ELSE {}]
    BY <1>5 DEF SiluMul, Kernel, planVars, planState
  <2>2. LocalRoutes' = LocalRoutes
    BY <2>1, PartsStay
  <2>3. ASSUME NEW r \in LocalRoutes
        PROVE  rows'[inverse_route_ids[r]] = rows[inverse_route_ids[r]]
    <3>1. inverse_route_ids[r] \in Nat /\ inverse_route_ids[r] < NumLocal
      BY <1>1, <2>1, PlaceOfRoute DEF Sorting
    <3>2. NumLocal \in Nat /\ Capacity \in Nat /\ NumLocal <= Capacity
      BY <1>1, <2>1, TileFacts DEF PlanInv, Placed, Sorting
    <3>3. inverse_route_ids[r] \in RowIds
      BY <3>1, <3>2 DEF RowIds
    <3> QED BY <2>1, <3>1, <3>3
  <2>4. RowsDone'
    BY <1>1, <2>1, <2>2, <2>3 DEF RowsDone, planState
  <2>5. TotalDone'
    BY <1>1, <2>1, TotalStays DEF Sorting
  <2> QED BY <1>2, <2>4, <2>5
<1>6. CASE Down
  <2>1. /\ pc = "down" /\ pc' = "combine" /\ UNCHANGED <<selected_experts, rank, total>>
        /\ UNCHANGED planState
        /\ rows' = GroupedLinear(rows)
    BY <1>6 DEF Down, Kernel, planVars, planState
  <2>2. LocalRoutes' = LocalRoutes
    BY <2>1, PartsStay
  <2>3. ASSUME NEW r \in LocalRoutes
        PROVE  rows'[inverse_route_ids[r]]
                   = {<<selected_experts[r], <<selected_experts[r], TokenOf(r)>>>>}
    <3>1. rows[inverse_route_ids[r]] = {<<selected_experts[r], TokenOf(r)>>}
      BY <1>1, <2>1 DEF RowsDone
    <3> DEFINE x == <<selected_experts[r], TokenOf(r)>>
    <3>2. PlanInv /\ pc \in Sorting \ {"scatter"} /\ rows[inverse_route_ids[r]] = {x}
      BY <1>1, <2>1, <3>1 DEF Sorting
    <3> HIDE DEF x
    <3>3. GroupedLinear(rows)[inverse_route_ids[r]] = {<<selected_experts[r], x>>}
      BY <3>2, LaunchRow
    <3> QED BY <2>1, <3>3 DEF x
  <2>4. RowsDone'
    BY <2>1, <2>2, <2>3 DEF RowsDone, planState
  <2>5. TotalDone'
    BY <1>1, <2>1, TotalStays DEF Sorting
  <2> QED BY <1>2, <2>4, <2>5
<1>7. CASE Combine
  <2>1. pc' \in {"count", "done"}
    BY <1>7 DEF Combine
  <2>2. RowsDone'
    BY <2>1 DEF RowsDone
  <2> QED BY <1>1, <1>2, <1>7, <2>2, CombineTotal
<1>8. CASE RouteTokens
  <2>1. /\ pc = "route" /\ pc' \in {"count", "argsort"} /\ UNCHANGED <<rank, total>>
        /\ selected_experts' \in [Routes -> Experts]
    BY <1>8 DEF RouteTokens, Route
  <2>2. RowsDone'
    BY <2>1 DEF RowsDone
  <2>3. rank = 0 /\ RanksDone = 0 /\ RanksDone' = 0
    BY <1>1, <2>1 DEF TotalDone, RanksDone
  <2>4. total = [r \in Routes |-> {}]
    <3>1. \A r \in Routes : ~(HomeOf(r) < RanksDone)
      BY <1>1, <2>3, LocalIsHome, Sizes DEF PlanInv
    <3> QED BY <1>1, <2>1, <3>1 DEF TotalDone
  <2>5. \A r \in Routes : ~(HomeOf(r)' < 0)
    <3> SUFFICES ASSUME NEW r \in Routes PROVE ~(HomeOf(r)' < 0)
      OBVIOUS
    <3>1. selected_experts'[r] \in Experts
      BY <2>1
    <3> QED BY <3>1, HomeOfExpert, Sizes DEF HomeOf
  <2>6. TotalDone'
    BY <2>1, <2>3, <2>4, <2>5 DEF TotalDone
  <2> QED BY <1>2, <2>2, <2>6
<1>9. CASE (\E r \in Routes : Argsort(r)) \/ TPExperts
  <2>1. pc' \in {"argsort", "unpermuted"}
    BY <1>9, <1>1 DEF Argsort, TPExperts
  <2> QED BY <1>2, <2>1 DEF RowsDone, TotalDone, Sorting
<1>10. CASE UNCHANGED expertVars
  <2>1. /\ UNCHANGED <<selected_experts, rank, pc, inverse_route_ids, rows, total>>
        /\ UNCHANGED planState
    BY <1>10 DEF expertVars, planState
  <2>2. LocalRoutes' = LocalRoutes /\ RanksDone' = RanksDone /\ \A r : HomeOf(r)' = HomeOf(r)
    BY <2>1, PartsStay DEF RanksDone, HomeOf
  <2>3. RowsDone'
    BY <1>1, <2>1, <2>2 DEF RowsDone
  <2>4. TotalDone'
    BY <1>1, <2>1, <2>2 DEF TotalDone
  <2> QED BY <1>2, <2>3, <2>4
<1>11. \/ ExpertStep \/ RouteTokens \/ (\E r \in Routes : Argsort(r)) \/ TPExperts
       \/ UNCHANGED expertVars
  BY NextOfExperts
<1> QED
  BY <1>3, <1>4, <1>5, <1>6, <1>7, <1>8, <1>9, <1>10, <1>11 DEF ExpertStep

\* _forward_expert_parallel: when all ranks have combined, every token has the output of each
\* expert it selected from exactly one rank, computed in both GEMMs by that expert from that
\* token, for any number of tokens, experts and ranks, any size of tiles, and with a buffer
\* for all routes or for the local ones.
THEOREM RoutesRunOnce == Spec => []EveryRouteOnce
<1>1. LayerInv => EveryRouteOnce
  <2> SUFFICES ASSUME LayerInv, pc = "done", NEW r \in Routes
               PROVE  LET e == selected_experts[r] IN
                      \E k \in 0 .. EpSize - 1 : total[r] = {<<k, {<<e, <<e, TokenOf(r)>>>>}>>}
    BY DEF EveryRouteOnce
  <2>1. HomeOf(r) \in 0 .. EpSize - 1
    BY LocalIsHome DEF LayerInv, PlanInv
  <2>2. HomeOf(r) < RanksDone
    BY <2>1, Sizes DEF RanksDone
  <2>3. total[r] = {<<HomeOf(r), {<<selected_experts[r], <<selected_experts[r], TokenOf(r)>>>>}>>}
    BY <2>2 DEF LayerInv, TotalDone
  <2> QED BY <2>1, <2>3
<1> QED
  BY <1>1, InitLayerInv, NextLayerInv, PTL DEF Spec
=============================================================================
