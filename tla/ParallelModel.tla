----------------------------- MODULE ParallelModel -----------------------------
(***************************************************************************)
(* The weights and the forward pass of a Qwen3 model on several ranks:     *)
(* nanovllm/utils/loader.py, layers/linear.py, embed_head.py, awq.py and   *)
(* activation.py as models/qwen3.py and qwen3_moe.py put them together.    *)
(*                                                                         *)
(* A weight is a set of slices along the dimension it is split in: output  *)
(* rows of column-parallel layers, input columns of row-parallel ones,     *)
(* embedding rows.  A value is the term of slices it is computed from, so  *)
(* that a sum over ranks is right if it has every term of the unsharded    *)
(* model once.  The ranks run the same layers; what they compute between   *)
(* two collectives is one step.  Attention over earlier tokens is in       *)
(* StepExecution, and one layer stands for all.                            *)
(***************************************************************************)
EXTENDS ExpertParallel, Sequences, Functions, TLC

CONSTANTS
    Models,     \* [tp, moe, ep, awq, tied, heads, kv_heads, head_dim, inter, vocab,
                \*  input_ids, chunks, decodes]: a configuration and the batch it is given
    Pack        \* columns in an AWQ word (8 in the code)

\* What the constructors assert or raise for.
ModelAssumption ==
    /\ Pack \in Nat \ {0}
    /\ \A m \in Models :
          /\ m.tp \in Nat \ {0} /\ (m.ep => m.tp = EpSize) /\ (m.awq => m.tp = 1 /\ ~m.moe)
          /\ \A n \in {m.heads, m.kv_heads, m.inter, m.vocab} : n % m.tp = 0
          /\ m.awq => \A n \in {m.heads * m.head_dim, m.kv_heads * m.head_dim, m.inter} : n % Pack = 0

ASSUME ModelAssumption

VARIABLES
    model,      \* the configuration
    stage,      \* "load", or the next block: "embed", "attention", "mlp", "head"; or "done"
    loaded,     \* the checkpoint tensors loaded
    weight,     \* by rank: <<parameter, expert, kind, slot>> -> <<tensor, expert, slice>>
    output,     \* by token: the <<rank, term>> pairs the last all_reduce added
    logits      \* on rank 0: by sampled row, the terms along the vocabulary

modelVars == <<model, stage, loaded, weight, output, logits>>
vars == <<modelVars, expertVars>>

Ranks == 0 .. model.tp - 1

-----------------------------------------------------------------------------
(* Parameters and checkpoint tensors *)

\* packed_modules_mapping: the tensors of a parameter, in the order of its shards.
Packed == [embed_tokens |-> <<"embed_tokens">>, lm_head |-> <<"lm_head">>,
           qkv_proj |-> <<"q_proj", "k_proj", "v_proj">>, o_proj |-> <<"o_proj">>,
           gate_up_proj |-> <<"gate_proj", "up_proj">>, down_proj |-> <<"down_proj">>]

Size == [embed_tokens |-> model.vocab, lm_head |-> model.vocab,
         q_proj |-> model.heads * model.head_dim, o_proj |-> model.heads * model.head_dim,
         k_proj |-> model.kv_heads * model.head_dim, v_proj |-> model.kv_heads * model.head_dim,
         gate_proj |-> model.inter, up_proj |-> model.inter, down_proj |-> model.inter]

ParamOf(name) == CHOOSE p \in DOMAIN Packed : \E i \in DOMAIN Packed[p] : Packed[p][i] = name

Attention == {"q_proj", "k_proj", "v_proj", "o_proj"}
MLP       == {"gate_proj", "up_proj", "down_proj"}

Kinds(param) ==
    IF model.awq /\ param \notin {"embed_tokens", "lm_head"}
    THEN {"qweight", "qzeros", "scales"} ELSE {"weight"}

\* The columns of a word: AWQ packs the outputs of a layer.
WordSize(param, kind) ==
    IF kind \in {"qweight", "qzeros"} /\ param \in {"qkv_proj", "gate_up_proj"} THEN Pack ELSE 1

\* The modules in the order of the files, each with its tensors in any order.
Modules ==
    <<{<<"embed_tokens", 0>>}, Attention \X {0}>>
        \o (IF model.moe THEN [i \in 1 .. NumExperts |-> MLP \X {i - 1}] ELSE <<MLP \X {0}>>)
        \o (IF model.tied THEN <<>> ELSE <<{<<"lm_head", 0>>}>>)

Tensors(i) == UNION {{<<w[1], w[2], kind>> : kind \in Kinds(ParamOf(w[1]))} : w \in Modules[i]}

\* Experts are split like other layers, or left whole under expert parallelism.
Parts(name)     == IF model.ep /\ name \in MLP THEN 1 ELSE model.tp
ShardSize(name) == Size[name] \div Parts(name)

\* Mutant of ShardOffset: the shards before this one at their full sizes.
ShardOffsetWhole(param, i) == SumFunctionOnSet([j \in DOMAIN Packed[param] |->
                                  Size[Packed[param][j]]], 1 .. i - 1)

\* weight_loader of the packed layers: where the i-th tensor starts in the parameter.
ShardOffset(param, i) == SumFunctionOnSet([j \in DOMAIN Packed[param] |->
                             ShardSize(Packed[param][j])], 1 .. i - 1)

IsWeightLocal(r, name, e) == model.ep /\ name \in MLP => e \in LocalRange(r)

\* load_model, one tensor: each rank narrows it to its part and copies that.
Load(name, e, kind) ==
    LET param  == ParamOf(name)
        word   == WordSize(param, kind)
        i      == CHOOSE j \in DOMAIN Packed[param] : Packed[param][j] = name
        size   == ShardSize(name) \div word
        offset == ShardOffset(param, i) \div word
        Start(r) == IF Parts(name) = 1 THEN 0 ELSE r * size
    IN
    /\ stage = "load" /\ <<name, e, kind>> \notin loaded
    /\ \E m \in DOMAIN Modules :
          <<name, e, kind>> \in Tensors(m) /\ \A n \in 1 .. m - 1 : Tensors(n) \subseteq loaded
    /\ loaded' = loaded \cup {<<name, e, kind>>}
    /\ weight' = [r \in Ranks |->
          IF IsWeightLocal(r, name, e)
          THEN [s \in {<<param, e, kind, offset + j>> : j \in 0 .. size - 1} |->
                   <<name, e, Start(r) + s[4] - offset>>] @@ weight[r]
          ELSE weight[r]]
    /\ UNCHANGED <<model, stage, output, logits, expertVars>>

\* The files are read; AWQ layers validate_loaded.
EndLoad ==
    /\ stage = "load" /\ \A m \in DOMAIN Modules : Tensors(m) \subseteq loaded
    /\ stage' = "embed"
    /\ UNCHANGED <<model, loaded, weight, output, logits, expertVars>>

\* The slices that local row i of a parameter is made of, one for every kind if they agree.
Slice(r, param, e, i) ==
    {LET word == WordSize(param, kind)
         s    == <<param, e, kind, i \div word>>
         read == IF s \in DOMAIN weight[r] THEN weight[r][s] ELSE <<"uninitialized", e, 0>>
     IN  <<read[1], read[2], read[3] * word + (i % word)>> : kind \in Kinds(param)}

-----------------------------------------------------------------------------
(* The forward pass *)

\* all_reduce: what every rank contributes.
AllReduce(terms) == UNION {{r} \X terms[r] : r \in Ranks}

Block(from, to) == stage = from /\ stage' = to /\ UNCHANGED <<model, loaded, weight, logits>>

\* VocabParallelEmbedding: ids of other ranks are masked.
Embed ==
    LET n == ShardSize("embed_tokens")
        Row(r, id) == IF id \in r * n .. r * n + n - 1
                      THEN {Slice(r, "embed_tokens", 0, id - r * n)} ELSE {}
    IN
    /\ Block("embed", "attention")
    /\ output' = [t \in Tokens |-> AllReduce([r \in Ranks |-> Row(r, model.input_ids[t])])]
    /\ UNCHANGED expertVars

\* flash_attn gives every kv head of the rank an equal run of its query heads.
KVHead(j) == j \div ((model.heads \div model.tp) \div (model.kv_heads \div model.tp))

\* Qwen3Attention: column c of the attention output enters slice c of o_proj.
HeadColumns(j) == j * model.head_dim .. (j + 1) * model.head_dim - 1
AttentionTerm(r, c) ==
    LET q_size  == ShardSize("q_proj")
        kv_size == ShardSize("k_proj")
        j       == c \div model.head_dim
        QKV(i)  == Slice(r, "qkv_proj", 0, i)
    IN  <<Slice(r, "o_proj", 0, c),
          {QKV(i) : i \in HeadColumns(j)},
          {QKV(q_size + i) : i \in HeadColumns(KVHead(j))},
          QKV(q_size + kv_size + KVHead(j) * model.head_dim + (c % model.head_dim))>>

SelfAttention ==
    /\ Block("attention", "mlp")
    /\ output' = [t \in Tokens |-> AllReduce([r \in Ranks |->
                     {AttentionTerm(r, c) : c \in 0 .. ShardSize("o_proj") - 1}])]
    /\ UNCHANGED expertVars

\* Qwen3MLP and Qwen3MoeExpertMLP on one rank: SiluAndMul pairs the halves of gate_up.
MLPTerms(r, e) ==
    LET half == ShardSize("gate_proj") IN
    {<<Slice(r, "down_proj", e, i), Slice(r, "gate_up_proj", e, i),
       Slice(r, "gate_up_proj", e, half + i)>> : i \in 0 .. ShardSize("down_proj") - 1}

DenseMLP ==
    /\ ~model.moe /\ Block("mlp", "head")
    /\ output' = [t \in Tokens |-> AllReduce([r \in Ranks |-> MLPTerms(r, 0)])]
    /\ UNCHANGED expertVars

\* The router, and the kernels of _forward_expert_parallel.
RouteTokens ==
    /\ stage = "mlp" /\ model.moe
    /\ Route(IF model.ep THEN "count" ELSE "argsort")
    /\ ~model.ep => ~capacity_buffer'
    /\ UNCHANGED modelVars

ExpertKernel == stage = "mlp" /\ model.ep /\ ExpertStep /\ UNCHANGED modelVars

\* _forward_tensor_parallel: argsort, which breaks ties in any way, takes a route next.
Argsort(r) ==
    /\ pc = "argsort" /\ r \in Routes \ scattered
    /\ \A q \in Routes \ scattered : selected_experts[r] <= selected_experts[q]
    /\ sorted_route_ids' = [sorted_route_ids EXCEPT ![Cardinality(scattered)] = r]
    /\ scattered' = scattered \cup {r}
    /\ UNCHANGED <<modelVars, selected_experts, capacity_buffer, rank, pc, expert_counts,
                   expert_offsets, write_offsets, inverse_route_ids, rows, total>>

\* Each expert gets its run of the sorted routes; its down_proj adds the ranks; the
\* results are stored back in the order of the routes.
TPExperts ==
    LET counts   == [e \in Experts |-> Cardinality({r \in Routes : selected_experts[r] = e})]
        start(e) == SumFunctionOnSet(counts, 0 .. e - 1)
        Run(e)   == {sorted_route_ids[p] : p \in start(e) .. start(e) + counts[e] - 1}
    IN
    /\ pc = "argsort" /\ scattered = Routes /\ pc' = "unpermuted"
    /\ total' = [r \in Routes |-> AllReduce([k \in Ranks |->
                    UNION {{TokenOf(r)} \X MLPTerms(k, e) : e \in {f \in Experts : r \in Run(f)}}])]
    /\ UNCHANGED <<modelVars, selected_experts, capacity_buffer, rank, expert_counts,
                   expert_offsets, write_offsets, sorted_route_ids, inverse_route_ids,
                   scattered, rows>>

\* cu_seqlens_q of the context.
CuSeqlens(i) == SumFunctionOnSet(model.chunks, 1 .. i)

\* Mutant of SampleIndices: the decode rows are counted from the start of the batch.
SampleIndicesFromZero ==
    IF model.chunks = <<>> THEN [i \in 1 .. NumTokens |-> i - 1]
    ELSE [i \in DOMAIN model.chunks |-> CuSeqlens(i) - 1] \o [i \in 1 .. model.decodes |-> i - 1]

\* ParallelLMHead: the last row of every prefill chunk and the decode rows, all rows if
\* the batch has no prefill.
SampleIndices ==
    IF model.chunks = <<>> THEN [i \in 1 .. NumTokens |-> i - 1]
    ELSE [i \in DOMAIN model.chunks |-> CuSeqlens(i) - 1]
             \o [i \in 1 .. model.decodes |-> CuSeqlens(Len(model.chunks)) + i - 1]

\* Each rank has its rows of the vocabulary, tied or not to the embedding's; rank 0
\* gathers them in the order of the ranks.
LMHead ==
    LET param == IF model.tied THEN "embed_tokens" ELSE "lm_head"
        n     == ShardSize(param)
    IN
    /\ stage = "head" \/ (stage = "mlp" /\ pc \in {"done", "unpermuted"})
    /\ stage' = "done"
    /\ logits' = [i \in DOMAIN SampleIndices |-> [v \in 0 .. model.tp * n - 1 |->
                     <<Slice(v \div n, param, 0, v % n), SampleIndices[i]>>]]
    /\ UNCHANGED <<model, loaded, weight, output, expertVars>>

-----------------------------------------------------------------------------
Init ==
    /\ model \in Models /\ stage = "load" /\ loaded = {}
    /\ weight = [r \in Ranks |-> <<>>]
    /\ output = [t \in Tokens |-> {}] /\ logits = <<>>
    /\ ExpertInit

Next ==
    \/ \E m \in DOMAIN Modules : \E w \in Tensors(m) : Load(w[1], w[2], w[3])
    \/ EndLoad \/ Embed \/ SelfAttention \/ DenseMLP
    \/ RouteTokens \/ ExpertKernel \/ (\E r \in Routes : Argsort(r)) \/ TPExperts
    \/ LMHead

Spec == Init /\ [][Next]_vars

-----------------------------------------------------------------------------
(* Properties                                                              *)

Whole(sum, terms) == {p[2] : p \in sum} = terms /\ Cardinality(sum) = Cardinality(terms)

\* The terms of the model that is not sharded, its columns numbered as in the checkpoint.
Of(name, e, i) == {<<name, e, i>>}
AttentionOf(c) ==
    LET d  == model.head_dim
        kv == (c \div d) \div (model.heads \div model.kv_heads)
    IN  <<Of("o_proj", 0, c),
          {Of("q_proj", 0, i) : i \in {x \in 0 .. Size.q_proj - 1 : x \div d = c \div d}},
          {Of("k_proj", 0, i) : i \in {x \in 0 .. Size.k_proj - 1 : x \div d = kv}},
          Of("v_proj", 0, kv * d + (c % d))>>
MLPOf(e) == {<<Of("down_proj", e, i), Of("gate_proj", e, i), Of("up_proj", e, i)>> :
                i \in 0 .. model.inter - 1}

\* In whatever order the tensors of a module are loaded and however ties among routes are
\* sorted, the collective at the end of each block yields what the unsharded model
\* computes: every term once, from one rank, made of the slices that belong together.
BlocksAreWhole ==
    /\ stage = "attention" =>
          \A t \in Tokens : Whole(output[t], {Of("embed_tokens", 0, model.input_ids[t])})
    /\ stage = "mlp" =>
          \A t \in Tokens : Whole(output[t], {AttentionOf(c) : c \in 0 .. Size.o_proj - 1})
    /\ stage = "head" => \A t \in Tokens : Whole(output[t], MLPOf(0))
    /\ pc = "unpermuted" =>
          \A r \in Routes : Whole(total[r], {TokenOf(r)} \X MLPOf(selected_experts[r]))
    /\ pc = "done" =>
          \A r \in Routes : \A p \in total[r] :
              MLPTerms(p[1], selected_experts[r]) = MLPOf(selected_experts[r])

\* The i-th row of logits rank 0 samples from has the whole vocabulary in order and is
\* that of the last token of the i-th sequence, chunks before decodes.
LogitsAreWhole ==
    stage = "done" =>
        LET param   == IF model.tied THEN "embed_tokens" ELSE "lm_head"
            lengths == model.chunks \o [i \in 1 .. model.decodes |-> 1]
        IN  logits = [i \in DOMAIN lengths |-> [v \in 0 .. model.vocab - 1 |->
                         <<Of(param, 0, v), SumFunctionOnSet(lengths, 1 .. i) - 1>>]]
=============================================================================
