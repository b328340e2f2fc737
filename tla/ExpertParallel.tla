---------------------------- MODULE ExpertParallel ----------------------------
(***************************************************************************)
(* A mixture-of-experts layer under expert parallelism:                    *)
(* Qwen3MoeSparseMoeBlock._forward_expert_parallel with the counting sort  *)
(* of nanovllm/layers/moe_permute.py and the grouped GEMMs of              *)
(* nanovllm/layers/moe_grouped.py.                                         *)
(*                                                                         *)
(* Every rank routes all tokens, sorts the routes to its own experts, runs *)
(* the experts and sums their outputs per token; all_reduce adds the       *)
(* ranks.  A value is the term it was computed by: <<e, t>> is what expert *)
(* e makes of token t.  The kernels of a rank run one after the other; the *)
(* lanes of the scatter kernel in any order.  Ranks share nothing before   *)
(* all_reduce and are taken one after the other.                           *)
(***************************************************************************)
EXTENDS Integers, FiniteSets

CONSTANTS
    NumTokens,      \* rows of hidden_states
    TopK,           \* num_experts_per_tok
    NumExperts,     \* num_experts
    EpSize,         \* ranks
    TileRows        \* BM, rows of a GEMM tile (16 in the code)

ASSUME SizeAssumption ==
    /\ {NumTokens, TopK, NumExperts, EpSize, TileRows} \subseteq Nat \ {0}
    /\ TopK <= NumExperts
    /\ NumExperts % EpSize = 0

Tokens    == 0 .. NumTokens - 1
NumRoutes == NumTokens * TopK
Routes    == 0 .. NumRoutes - 1
Experts   == 0 .. NumExperts - 1

\* The token of a route: route ids index [NumTokens, TopK].
TokenOf(r) == r \div TopK

\* get_local_expert_range: the experts first(rank) .. first(rank + 1) - 1.
ExpertsPerRank    == NumExperts \div EpSize
FirstExpert(rank) == rank * ExpertsPerRank
LocalRange(rank)  == FirstExpert(rank) .. FirstExpert(rank) + ExpertsPerRank - 1

CeilDiv(m, n) == (m + n - 1) \div n

VARIABLES
    selected_experts,   \* the expert of each route, distinct for one token
    capacity_buffer,    \* whether sorted_route_ids has room for all routes
    rank,               \* the rank at work
    pc,                 \* "route", its next kernel: "count", "scan", "scatter", "gate_up",
                        \* "silu", "down", "combine"; or "done"
    expert_counts,      \* by local expert, as are offsets and cursors
    expert_offsets,
    write_offsets,      \* the cursors of the scatter kernel
    sorted_route_ids,
    inverse_route_ids,
    scattered,          \* the lanes of the scatter kernel that have run
    rows,               \* by row of the present buffer: the values stored to it
    total               \* by route: the contributions all_reduce adds

expertVars == <<selected_experts, capacity_buffer, rank, pc, expert_counts, expert_offsets,
                write_offsets, sorted_route_ids, inverse_route_ids, scattered, rows, total>>

Locals == 0 .. ExpertsPerRank - 1
NoId   == -1

\* The local expert of route r, out of Locals if it is another rank's.
LocalOf(r)  == selected_experts[r] - FirstExpert(rank)
LocalRoutes == {r \in Routes : LocalOf(r) \in Locals}
NumLocal    == expert_offsets[ExpertsPerRank]

\* The length of sorted_route_ids and of the buffers made from it.
Capacity == IF capacity_buffer THEN NumRoutes ELSE NumLocal
RowIds   == 0 .. Capacity - 1

ExpertInit ==
    /\ selected_experts = [r \in Routes |-> 0]
    /\ capacity_buffer = FALSE
    /\ rank = 0 /\ pc = "route"
    /\ expert_counts = [e \in Locals |-> 0]
    /\ expert_offsets = [e \in 0 .. ExpertsPerRank |-> 0]
    /\ write_offsets = [e \in Locals |-> 0]
    /\ sorted_route_ids = [p \in Routes |-> NoId]
    /\ inverse_route_ids = [r \in Routes |-> NoId]
    /\ scattered = {} /\ rows = <<>>
    /\ total = [r \in Routes |-> {}]

\* forward: the router, the same on every rank, selects top_k experts of each token.
Route(kernel) ==
    /\ pc = "route" /\ pc' = kernel
    /\ selected_experts' \in [Routes -> Experts]
    /\ \A q, r \in Routes :
           selected_experts'[q] = selected_experts'[r] /\ TokenOf(q) = TokenOf(r) => q = r
    /\ capacity_buffer' \in BOOLEAN
    /\ UNCHANGED <<rank, expert_counts, expert_offsets, write_offsets, sorted_route_ids,
                   inverse_route_ids, scattered, rows, total>>

Kernel(from, to) ==
    /\ pc = from /\ pc' = to
    /\ UNCHANGED <<selected_experts, capacity_buffer, rank>>

-----------------------------------------------------------------------------
(* counting_sort_moe_routes *)

\* The buffers are made, inverse_route_ids with -1, and the local routes counted; the
\* atomic additions of the lanes commute.
CountRoutes ==
    /\ Kernel("count", "scan")
    /\ expert_counts' = [e \in Locals |-> Cardinality({r \in Routes : LocalOf(r) = e})]
    /\ sorted_route_ids' = [p \in Routes |-> NoId]
    /\ inverse_route_ids' = [r \in Routes |-> NoId]
    /\ scattered' = {}
    /\ UNCHANGED <<expert_offsets, write_offsets, rows, total>>

\* tl.cumsum over the local experts, with a 0 in front: the sum of f below e, and the
\* total last.
CumSum(f) ==
    LET sum[e \in 0 .. ExpertsPerRank] == IF e = 0 THEN 0 ELSE sum[e - 1] + f[e - 1]
    IN  sum

\* The exclusive prefix sums and the total.
ScanCounts ==
    /\ Kernel("scan", "scatter")
    /\ expert_offsets' = CumSum(expert_counts)
    /\ write_offsets' = [e \in Locals |-> expert_offsets'[e]]
    /\ UNCHANGED <<expert_counts, sorted_route_ids, inverse_route_ids, scattered, rows, total>>

\* Mutant of Scatter: write_offsets is no copy of expert_offsets.
ScatterShared(r) ==
    /\ pc = "scatter" /\ r \in LocalRoutes \ scattered
    /\ LET position == write_offsets[LocalOf(r)] IN
       /\ write_offsets' = [write_offsets EXCEPT ![LocalOf(r)] = @ + 1]
       /\ expert_offsets' = [expert_offsets EXCEPT ![LocalOf(r)] = @ + 1]
       /\ sorted_route_ids' = [sorted_route_ids EXCEPT ![position] = r]
       /\ inverse_route_ids' = [inverse_route_ids EXCEPT ![r] = position]
    /\ scattered' = scattered \cup {r}
    /\ UNCHANGED <<selected_experts, capacity_buffer, rank, pc, expert_counts, rows, total>>

\* The lane of route r takes a position by atomic_add and stores both indices.
Scatter(r) ==
    /\ pc = "scatter" /\ r \in LocalRoutes \ scattered
    /\ LET position == write_offsets[LocalOf(r)] IN
       /\ write_offsets' = [write_offsets EXCEPT ![LocalOf(r)] = @ + 1]
       /\ sorted_route_ids' = [sorted_route_ids EXCEPT ![position] = r]
       /\ inverse_route_ids' = [inverse_route_ids EXCEPT ![r] = position]
    /\ scattered' = scattered \cup {r}
    /\ UNCHANGED <<selected_experts, capacity_buffer, rank, pc, expert_counts,
                   expert_offsets, rows, total>>

EndScatter ==
    /\ Kernel("scatter", "gate_up")
    /\ scattered = LocalRoutes
    /\ UNCHANGED <<expert_counts, expert_offsets, write_offsets, sorted_route_ids,
                   inverse_route_ids, scattered, rows, total>>

-----------------------------------------------------------------------------
(* grouped_moe *)

\* Mutant of NumTiles: as if the tiles of one expert could go on with the next.
NumTilesDense == CeilDiv(Capacity, TileRows)

\* The grid is made without knowing the offsets: every expert may leave a tile
\* partly empty.
NumTiles == IF Capacity = 0 THEN 0 ELSE CeilDiv(Capacity, TileRows) + ExpertsPerRank - 1

TilesOf  == [e \in Locals |-> CeilDiv(expert_offsets[e + 1] - expert_offsets[e], TileRows)]
TilesSum == CumSum(TilesOf)

\* The tiles that have work, with expert and rows found as the kernel does it.
Tiles         == {i \in 0 .. NumTiles - 1 : i < TilesSum[ExpertsPerRank]}
TileExpert(i) == Cardinality({e \in Locals : i >= TilesSum[e + 1]})
TileRange(i)  ==
    LET e     == TileExpert(i)
        first == expert_offsets[e] + (i - TilesSum[e]) * TileRows
    IN  {p \in first .. first + TileRows - 1 : p < expert_offsets[e + 1]}

\* What the tiles of one launch store: the expert applied to the source of the row.
GroupedLinear(source) ==
    [p \in RowIds |->
        {<<TileExpert(i) + FirstExpert(rank), x>> :
            i \in {j \in Tiles : p \in TileRange(j)}, x \in source[p]}]

planVars == <<expert_counts, expert_offsets, write_offsets, sorted_route_ids,
                 inverse_route_ids, scattered, total>>

\* The first GEMM gathers the rows of the tokens.
GateUp ==
    /\ Kernel("gate_up", "silu")
    /\ rows' = GroupedLinear([p \in RowIds |-> {TokenOf(sorted_route_ids[p])}])
    /\ UNCHANGED planVars

SiluMul ==
    /\ Kernel("silu", "down")
    /\ rows' = [p \in RowIds |-> IF p < NumLocal THEN rows[p] ELSE {}]
    /\ UNCHANGED planVars

Down ==
    /\ Kernel("down", "combine")
    /\ rows' = GroupedLinear(rows)
    /\ UNCHANGED planVars

\* Each route adds the row at its position, none if another rank has it; the sums
\* of the ranks are added, and the next rank is looked at.
Combine ==
    /\ pc = "combine"
    /\ total' = [r \in Routes |->
                    IF inverse_route_ids[r] = NoId THEN total[r]
                    ELSE total[r] \cup {<<rank, rows[inverse_route_ids[r]]>>}]
    /\ IF rank < EpSize - 1
       THEN rank' = rank + 1 /\ pc' = "count"
       ELSE rank' = rank /\ pc' = "done"
    /\ UNCHANGED <<selected_experts, capacity_buffer, expert_counts, expert_offsets,
                   write_offsets, sorted_route_ids, inverse_route_ids, scattered, rows>>

ExpertStep ==
    \/ CountRoutes \/ ScanCounts \/ (\E r \in Routes : Scatter(r)) \/ EndScatter
    \/ GateUp \/ SiluMul \/ Down \/ Combine

-----------------------------------------------------------------------------
(* Properties                                                              *)

\* The routing plan: each expert's slice of sorted_route_ids holds its routes, each
\* once, and inverse_route_ids leads from each route to its place, in whatever
\* order the lanes came.
PlanIsSorted ==
    pc \in {"gate_up", "silu", "down", "combine"} =>
        /\ \A e \in Locals :
              {sorted_route_ids[p] : p \in expert_offsets[e] .. expert_offsets[e + 1] - 1} =
                  {r \in Routes : LocalOf(r) = e}
        /\ NumLocal = Cardinality(LocalRoutes)
        /\ \A r \in Routes :
              IF r \in LocalRoutes
              THEN inverse_route_ids[r] # NoId /\ sorted_route_ids[inverse_route_ids[r]] = r
              ELSE inverse_route_ids[r] = NoId

\* The layer: every token gets the output of each expert it selected from exactly
\* one rank, computed in both GEMMs by that expert from that token.
EveryRouteOnce ==
    pc = "done" =>
        \A r \in Routes :
            LET e == selected_experts[r] IN
            \E k \in 0 .. EpSize - 1 : total[r] = {<<k, {<<e, <<e, TokenOf(r)>>>>}>>}
=============================================================================
