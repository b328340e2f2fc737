------------------------------ MODULE Scheduling ------------------------------
(***************************************************************************)
(* What the two local scheduling modes of nanovllm/engine/scheduler.py     *)
(* have in common: adding requests, preemption, the execution of a batch   *)
(* and postprocess, in the order of LLMEngine.step.                        *)
(*                                                                         *)
(* One iteration of a scheduling loop is one action; pc says which loop    *)
(* the engine thread is in.  ContinuousBatching and LegacyScheduling add   *)
(* the loops, LocalScheduler the choice between them.                      *)
(***************************************************************************)
EXTENDS StepExecution, GraphReplay

CONSTANTS
    Configs,            \* the configurations an engine may be started with
    Eos                 \* eos, in Token if it can be sampled

ASSUME ConfigAssumption ==
    \A c \in Configs :
        /\ {c.maxNumSeqs, c.maxBatchedTokens} \subseteq Nat \ {0}
        /\ {c.continuous, c.chunked, c.eager} \subseteq BOOLEAN
        /\ c.requests \subseteq Seqs

VARIABLES
    config,         \* this engine's configuration, and the requests users make
    pc,             \* "idle", a scheduling loop: "running" and "waiting" of the
                    \* continuous mode, "prefill" and "decode" of the legacy mode,
                    \* "execute", "post", or "failed": an exception ended the engine
    status,         \* of each sequence; "NEW" before it is added
    waiting,        \* the waiting queue
    running,        \* the running queue
    taken,          \* what the loop has scheduled: decode_scheduled, scheduled_seqs
    prefills,       \* the prefill part of the batch
    decodes,        \* the decode part of the batch
    batched,        \* num_batched_tokens
    todo            \* what postprocess has not reached of output.seqs

MaxNumSeqs           == config.maxNumSeqs            \* max_num_seqs
MaxBatchedTokens     == config.maxBatchedTokens      \* max_num_batched_tokens
Continuous           == config.continuous            \* enable_continuous_batching
EnableChunkedPrefill == config.chunked               \* enable_chunked_prefill

queueVars == <<waiting, running, status>>
batchVars == <<taken, prefills, decodes, batched, todo>>
vars      == <<pc, queueVars, batchVars, bmVars, scheduled, kv, config>>

TypeOK ==
    /\ config \in Configs
    /\ BlockTypeOK /\ KVTypeOK
    /\ pc \in {"idle", "running", "waiting", "prefill", "decode", "execute", "post", "failed"}
    /\ status \in [Seqs -> {"NEW", "WAITING", "RUNNING", "FINISHED"}]
    /\ \A q \in {waiting, running, taken, prefills, decodes, todo} : q \in Seq(Seqs)
    /\ batched \in 0 .. MaxBatchedTokens

Init ==
    /\ config \in Configs
    /\ BlockInit /\ KVInit
    /\ pc = "idle"
    /\ status = [s \in Seqs |-> "NEW"]
    /\ waiting = <<>> /\ running = <<>>
    /\ taken = <<>> /\ prefills = <<>> /\ decodes = <<>>
    /\ batched = 0 /\ todo = <<>>

-----------------------------------------------------------------------------
Add(s) ==
    /\ pc = "idle"
    /\ s \in config.requests /\ status[s] = "NEW"
    /\ status' = [status EXCEPT ![s] = "WAITING"]
    /\ waiting' = Append(waiting, s)
    /\ UNCHANGED <<pc, running, batchVars, bmVars, scheduled, kv, config>>

\* schedule() is called and enters the first loop of its mode.
BeginStep ==
    /\ pc = "idle"
    /\ waiting # <<>> \/ running # <<>>
    /\ pc' = IF Continuous THEN "running" ELSE "prefill"
    /\ taken' = <<>> /\ prefills' = <<>> /\ decodes' = <<>>
    /\ batched' = 0
    /\ UNCHANGED <<queueVars, todo, bmVars, scheduled, kv, config>>

Smaller(m, n) == IF m < n THEN m ELSE n
Remaining     == MaxBatchedTokens - batched

NextRunning(loop, s) == pc = loop /\ running # <<>> /\ s = Head(running)

\* The next token of s is scheduled, with a block for it.
Decode(s) ==
    /\ CanAppend(s) /\ MayAppend(s)
    /\ scheduled' = [scheduled EXCEPT ![s] = 1]
    /\ decodes' = Append(decodes, s)
    /\ taken' = Append(taken, s)
    /\ running' = Tail(running)
    /\ UNCHANGED <<pc, waiting, status, prefills, todo, tokens, cached, kv, config>>

\* Mutant of PreemptSeq: the sequence is not put back into waiting.
PreemptSeqLost(v) ==
    /\ Deallocate(v, hash)
    /\ cached' = [cached EXCEPT ![v] = 0]
    /\ status' = [status EXCEPT ![v] = "WAITING"]
    /\ UNCHANGED <<waiting, tokens, hash, index>>

\* preempt(v): v goes back to the front of waiting and loses its blocks.
PreemptSeq(v) ==
    /\ Deallocate(v, hash)
    /\ cached' = [cached EXCEPT ![v] = 0]
    /\ status' = [status EXCEPT ![v] = "WAITING"]
    /\ waiting' = <<v>> \o waiting
    /\ UNCHANGED <<tokens, hash, index>>

\* No block for the next token of s: the last running sequence gives way, s
\* itself when it is the last.
PreemptLast(s) ==
    /\ ~CanAppend(s)
    /\ PreemptSeq(running[Len(running)])
    /\ running' = SubSeq(running, 1, Len(running) - 1)
    /\ UNCHANGED <<pc, batchVars, scheduled, kv, config>>

\* schedule() returns the batch, or raises.
EndLoop(loop) ==
    /\ pc = loop
    /\ pc' = IF prefills = <<>> /\ decodes = <<>> THEN "failed" ELSE "execute"

\* run_model replays a graph for a batch of decodes only.
UsesGraph ==
    /\ prefills = <<>> /\ decodes # <<>> /\ ~config.eager
    /\ Len(decodes) <= MaxGraphBatch

\* What the rows behind the batch write.
PaddingWrites ==
    IF UsesGraph /\ PaddingSlot # -1 /\ Len(decodes) < ReplayedRows(Len(decodes), MaxNumSeqs)
    THEN {[block |-> PaddingSlot \div BlockSize, offset |-> (PaddingSlot % BlockSize) + 1,
           value |-> Garbage]}
    ELSE {}

\* The model runs the batch, prefills first ...
Execute ==
    /\ pc = "execute"
    /\ UsesGraph => GraphFits(Len(decodes), MaxNumSeqs)
    /\ RunStep(Writes(prefills, decodes) \cup PaddingWrites)
    /\ todo' = prefills \o decodes
    /\ pc' = "post"
    /\ UNCHANGED <<queueVars, taken, prefills, decodes, batched, bmVars, scheduled, config>>

\* ... or finds no graph for it: StopIteration ends the engine.
ExecuteFails ==
    /\ pc = "execute"
    /\ UsesGraph /\ ~GraphFits(Len(decodes), MaxNumSeqs)
    /\ pc' = "failed"
    /\ UNCHANGED <<queueVars, batchVars, bmVars, scheduled, kv, config>>

-----------------------------------------------------------------------------
(* postprocess *)

NextPost(s) == pc = "post" /\ todo # <<>> /\ s = Head(todo)

\* What was computed is published and counted ...
Computed(s) ==
    /\ HashBlocks(s, scheduled[s])
    /\ scheduled' = [scheduled EXCEPT ![s] = 0]
    /\ todo' = Tail(todo)
    /\ UNCHANGED <<pc, waiting, taken, prefills, decodes, batched, kv, config>>

\* Mutant of StillPrefill: the last prompt token is not waited for.
StillPrefillEarly(s) == cached[s] + scheduled[s] < NumPrompt(s) - 1

StillPrefill(s) == cached[s] + scheduled[s] < NumPrompt(s)

\* ... nothing is emitted while the prompt is not finished ...
PostChunk(s) ==
    /\ NextPost(s) /\ StillPrefill(s)
    /\ Computed(s)
    /\ cached' = [cached EXCEPT ![s] = @ + scheduled[s]]
    /\ UNCHANGED <<running, status, tokens, table, reserved, free, ref>>

Ends(s, token) == token = Eos \/ NumCompletion(s) + 1 = MaxTokens[s]

\* ... the sampled token is appended otherwise ...
PostToken(s, token) ==
    /\ NextPost(s) /\ ~StillPrefill(s) /\ ~Ends(s, token)
    /\ Computed(s)
    /\ cached' = [cached EXCEPT ![s] = @ + scheduled[s]]
    /\ tokens' = [tokens EXCEPT ![s] = Append(@, token)]
    /\ UNCHANGED <<running, status, table, reserved, free, ref>>

\* ... and a finished sequence lets go of its blocks.
PostFinish(s, token) ==
    /\ NextPost(s) /\ ~StillPrefill(s) /\ Ends(s, token)
    /\ Computed(s)
    /\ Deallocate(s, hash')
    /\ cached' = [cached EXCEPT ![s] = 0]
    /\ tokens' = [tokens EXCEPT ![s] = Append(@, token)]
    /\ status' = [status EXCEPT ![s] = "FINISHED"]
    /\ running' = Kept(running, Seqs \ {s})

EndStep ==
    /\ pc = "post" /\ todo = <<>>
    /\ pc' = "idle"
    /\ UNCHANGED <<queueVars, batchVars, bmVars, scheduled, kv, config>>

RunBatch ==
    \/ BeginStep \/ Execute \/ ExecuteFails \/ EndStep
    \/ \E s \in Seqs :
         \/ PostChunk(s)
         \/ \E token \in Token : PostToken(s, token) \/ PostFinish(s, token)

-----------------------------------------------------------------------------
(* Properties of both modes                                                *)

\* Blocks are written by one sequence at a time and never after they were
\* published: sharing and preemption inside the step leave no two writers.
WritesArePrivate ==
    pc = "execute" =>
        \A s \in Elems(prefills \o decodes) :
            \A w \in IF s \in Elems(prefills) THEN PrefillWrites(s) ELSE DecodeWrites(s) :
                /\ hash[w.block] = NoHash
                /\ Holders(w.block) = {s}

\* The worker ranks get the tokens they are to compute: what the snapshot leaves
\* out of a sequence is nothing that prepare_inputs takes from it there, so that
\* every rank feeds the same rows to its model.
WorkersGetTheirInput ==
    pc = "execute" =>
        \A s \in Elems(prefills) :
            PrefillInput(s, SnapshotTokens(s)) = PrefillInput(s, tokens[s])

\* A token is only sampled from the whole sequence: when postprocess appends it,
\* the KV of every token before it was read from the cache, and a token sampled
\* after a partial chunk was discarded.
TokensFromFullContext ==
    [][\A s \in Seqs : tokens'[s] # tokens[s] =>
          ContextReady(s, Len(tokens[s])) /\ cached[s] + scheduled[s] = Len(tokens[s])]_vars
=============================================================================
