----------------------------- MODULE GraphReplay ------------------------------
(***************************************************************************)
(* CUDA graphs of nanovllm/engine/model_runner.py: capture_cudagraph       *)
(* records the decode pass for some batch sizes, and run_model replays the *)
(* smallest one that holds the batch.  Rows behind the batch are executed  *)
(* as well; their slot says whether they write into the KV cache.          *)
(***************************************************************************)
EXTENDS Integers

CONSTANTS
    SmallGraphs,        \* sizes that are always captured (1, 2, 4 and 8)
    GraphStride,        \* larger ones are its multiples (16)
    MaxGraphBatch       \* larger batches run without a graph (512)

ASSUME GraphAssumption ==
    /\ SmallGraphs \subseteq Nat \ {0}
    /\ GraphStride \in Nat \ {0} /\ MaxGraphBatch \in Nat \ {0}

\* max_bs, the rows of the captured tensors, and graph_bs of an engine for that
\* many sequences.
GraphRows(maxSeqs) == IF maxSeqs < MaxGraphBatch THEN maxSeqs ELSE MaxGraphBatch
Captured(maxSeqs)  ==
    SmallGraphs \cup {n \in 1 .. GraphRows(maxSeqs) : n % GraphStride = 0}

\* The search for a graph succeeds.
GraphFits(batch, maxSeqs) == \E n \in Captured(maxSeqs) : batch <= n

\* Rows replayed; slices end with the captured tensors.
ReplayedRows(batch, maxSeqs) ==
    LET size == CHOOSE n \in Captured(maxSeqs) :
                   batch <= n /\ \A k \in Captured(maxSeqs) : batch <= k => n <= k
    IN IF size < GraphRows(maxSeqs) THEN size ELSE GraphRows(maxSeqs)

\* Mutant of PaddingSlot: rows keep the slot they were captured with.
PaddingSlotCaptured == 0

\* The slot of a row behind the batch, for which store_kvcache writes nothing.
PaddingSlot == -1

\* An engine never meets a decode batch without a graph.
GraphsCover(maxSeqs) == \A batch \in 1 .. GraphRows(maxSeqs) : GraphFits(batch, maxSeqs)
=============================================================================
