---------------------------- MODULE MCParallelModel ----------------------------
(***************************************************************************)
(* Three tokens: a dense model whole, on two ranks, and with AWQ weights   *)
(* in words of two columns; a model with four experts, two per token, on   *)
(* two ranks with tensor and with expert parallelism (GEMM tiles of two    *)
(* rows).  Between them the batches have one prefill chunk, two, a chunk   *)
(* with decodes, and decodes only.                                         *)
(***************************************************************************)
EXTENDS ParallelModel

Base == [tp |-> 2, moe |-> FALSE, ep |-> FALSE, awq |-> FALSE, tied |-> FALSE,
         heads |-> 4, kv_heads |-> 2, head_dim |-> 2, inter |-> 4, vocab |-> 4,
         input_ids |-> [t \in 0 .. 2 |-> t + 1], chunks |-> <<2>>, decodes |-> 1]

Single  == [Base EXCEPT !.tp = 1, !.tied = TRUE, !.chunks = <<>>, !.decodes = 3]
Grouped == [Base EXCEPT !.heads = 8, !.kv_heads = 4, !.tied = TRUE, !.chunks = <<1, 1>>,
                        !.input_ids = [t \in 0 .. 2 |-> 2 - t]]
AWQ     == [Base EXCEPT !.tp = 1, !.awq = TRUE, !.heads = 2, !.kv_heads = 1, !.chunks = <<1, 2>>,
                        !.decodes = 0]
TP      == [Base EXCEPT !.moe = TRUE, !.head_dim = 1, !.inter = 2, !.chunks = <<3>>, !.decodes = 0]
EP      == [TP EXCEPT !.ep = TRUE, !.chunks = <<1>>, !.decodes = 2]

MCModels == {Base, Single, Grouped, AWQ, TP, EP}
=============================================================================
