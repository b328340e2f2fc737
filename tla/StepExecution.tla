---------------------------- MODULE StepExecution ----------------------------
(***************************************************************************)
(* What one forward pass does to the paged KV cache: prepare_inputs of     *)
(* nanovllm/engine/model_runner.py maps each scheduled token to a slot and *)
(* the attention layer stores its KV there (layers/attention.py).          *)
(*                                                                         *)
(* The KV of a token depends on all tokens before it.  A slot holds the    *)
(* tokens its KV was computed from, or Garbage if it was never written or  *)
(* was computed while some KV of its context was not in the cache.         *)
(***************************************************************************)
EXTENDS BlockManager

VARIABLES
    scheduled,      \* num_scheduled_tokens of each sequence
    kv              \* kv[b][o]: what the o-th slot of block b holds

Garbage == <<>>

KVTypeOK ==
    /\ scheduled \in [Seqs -> Nat]
    /\ kv \in [Blocks -> [1 .. BlockSize -> Seq(Token)]]

KVInit ==
    /\ scheduled = [s \in Seqs |-> 0]
    /\ kv = [b \in Blocks |-> [o \in 1 .. BlockSize |-> Garbage]]

\* Where the KV of the p-th token of s lives.
SlotBlock(s, p)  == table[s][(p - 1) \div BlockSize + 1]
SlotOffset(p)    == ((p - 1) % BlockSize) + 1

\* The KV of the first n tokens of s can be read through its block table.
ContextReady(s, n) ==
    \A p \in 1 .. n :
        /\ (p - 1) \div BlockSize + 1 <= Len(table[s])
        /\ kv[SlotBlock(s, p)][SlotOffset(p)] = SubSeq(tokens[s], 1, p)

KVOf(s, p, ready) ==
    IF ContextReady(s, ready) THEN SubSeq(tokens[s], 1, p) ELSE Garbage

\* A prefill sequence stores its chunk after what is already cached ...
PrefillWrites(s) ==
    {[block |-> SlotBlock(s, p), offset |-> SlotOffset(p), value |-> KVOf(s, p, cached[s])]
        : p \in cached[s] + 1 .. cached[s] + scheduled[s]}

\* ... a decode sequence its last token, in the last block of its table.
DecodeWrites(s) ==
    {[block |-> table[s][Len(table[s])], offset |-> SlotOffset(NumTokens(s)),
      value |-> KVOf(s, NumTokens(s), NumTokens(s) - 1)]}

Writes(prefills, decodes) ==
    (UNION {PrefillWrites(s) : s \in Elems(prefills)})
      \cup (UNION {DecodeWrites(s) : s \in Elems(decodes)})

\* __getstate__: the tokens of s that a worker rank gets with the call; the last
\* one travels apart and is all that a decode needs.
SnapshotTokens(s) == IF IsPrefill(s) THEN tokens[s] ELSE <<>>

\* seq[start:end], the input of a prefill sequence on a rank that has these tokens.
PrefillInput(s, known) ==
    LET end == cached[s] + scheduled[s] IN
    SubSeq(known, cached[s] + 1, IF end < Len(known) THEN end ELSE Len(known))

\* All writes of the step land together.
RunStep(writes) ==
    kv' = [b \in Blocks |-> [o \in 1 .. BlockSize |->
              IF \E w \in writes : w.block = b /\ w.offset = o
              THEN (CHOOSE w \in writes : w.block = b /\ w.offset = o).value
              ELSE kv[b][o]]]

\* What is published under a hash is the KV of exactly those tokens, whoever
\* computed it and whatever was preempted or evicted since: a later request
\* that hits the block reads the KV of its own prefix.
PublishedKVIsRight ==
    \A b \in Blocks : hash[b] # NoHash =>
        \A o \in 1 .. BlockSize :
            kv[b][o] = SubSeq(hash[b], 1, Len(hash[b]) - BlockSize + o)

\* num_computed_tokens: the cached tokens of a sequence have their KV written.
CachedKVIsWritten == \A s \in Seqs : ContextReady(s, cached[s])
=============================================================================
