--------------------------- MODULE LegacyScheduling ---------------------------
(***************************************************************************)
(* Scheduler._schedule_legacy of nanovllm/engine/scheduler.py: a step is a *)
(* prefill batch if any waiting sequence can be scheduled, otherwise a     *)
(* decode batch.  A prompt that does not fit into the token budget stays   *)
(* at the head of waiting, with its blocks, until its last chunk.          *)
(***************************************************************************)
EXTENDS Scheduling

\* num_tokens_needed.
Needed(s) ==
    NumTokens(s) - IF table[s] = <<>> THEN NumHits(s) * BlockSize ELSE cached[s]

\* Only the first sequence of a batch may be scheduled in part.
FitsBudget(s) ==
    Remaining >= Needed(s) \/ (EnableChunkedPrefill /\ taken = <<>>)

MaySchedulePrefill ==
    /\ waiting # <<>> /\ Len(taken) < MaxNumSeqs
    /\ Remaining > 0
    /\ table[Head(waiting)] = <<>> => CanAllocate(Head(waiting))
    /\ FitsBudget(Head(waiting))

\* Blocks for a sequence that has none.
EnsureBlocks(s) ==
    \/ table[s] = <<>> /\ Allocate(s)
    \/ table[s] # <<>> /\ UNCHANGED <<table, cached, blockVars>>

Runs(s) ==
    /\ status' = [status EXCEPT ![s] = "RUNNING"]
    /\ waiting' = Tail(waiting)
    /\ running' = Append(running, s)

\* Mutant of PlaceAfter: an unfinished prompt goes to the back of waiting.
PlaceAfterRequeue(s, done) ==
    \/ done = NumTokens(s) /\ Runs(s)
    \/ done # NumTokens(s) /\ waiting' = Append(Tail(waiting), s) /\ UNCHANGED <<running, status>>

\* With done of its tokens computed s runs or stays at the head of waiting.
PlaceAfter(s, done) ==
    \/ done = NumTokens(s) /\ Runs(s)
    \/ done # NumTokens(s) /\ UNCHANGED queueVars

SchedulePrefill(s) ==
    /\ pc = "prefill" /\ MaySchedulePrefill /\ s = Head(waiting)
    /\ EnsureBlocks(s)
    /\ LET chunk == Smaller(Needed(s), Remaining) IN
       /\ scheduled' = [scheduled EXCEPT ![s] = chunk]
       /\ batched' = batched + chunk
       /\ PlaceAfter(s, cached'[s] + chunk)
    /\ taken' = Append(taken, s)
    /\ prefills' = Append(prefills, s)
    /\ UNCHANGED <<pc, decodes, todo, tokens, reserved, kv, config>>

EndPrefill ==
    /\ pc = "prefill" /\ ~MaySchedulePrefill
    /\ pc' = IF taken # <<>> THEN "execute" ELSE "decode"
    /\ UNCHANGED <<queueVars, batchVars, bmVars, scheduled, kv, config>>

LegacyDecode(s) ==
    /\ NextRunning("decode", s) /\ Len(taken) < MaxNumSeqs
    /\ Decode(s)
    /\ UNCHANGED batched

LegacyPreempt(s) ==
    /\ NextRunning("decode", s) /\ Len(taken) < MaxNumSeqs
    /\ PreemptLast(s)

EndDecode ==
    /\ EndLoop("decode")
    /\ running = <<>> \/ Len(taken) >= MaxNumSeqs
    /\ running' = taken \o running
    /\ UNCHANGED <<waiting, status, batchVars, bmVars, scheduled, kv, config>>

LegacyStep ==
    \/ EndPrefill \/ EndDecode
    \/ \E s \in Seqs : SchedulePrefill(s) \/ LegacyDecode(s) \/ LegacyPreempt(s)
=============================================================================
