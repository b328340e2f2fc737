-------------------------- MODULE ContinuousBatching --------------------------
(***************************************************************************)
(* Scheduler._schedule_continuous_batching of nanovllm/engine/scheduler.py.*)
(*                                                                         *)
(* A step first takes the running sequences (one token each, or the next   *)
(* chunk of an unfinished prompt), preempting from the tail of the queue   *)
(* when blocks run out, and then fills what is left of the token budget    *)
(* with chunks of waiting sequences.                                       *)
(***************************************************************************)
EXTENDS Scheduling

\* The step is full.  Sequences the loop finds then would be left out; that this
\* cannot happen, and needs no action, is the property NobodyIsSkipped.
RunningFull ==
    \/ Len(taken) + Len(prefills) >= MaxNumSeqs
    \/ batched >= MaxBatchedTokens

\* Mutant of ContinuePrefill: the rest of the prompt, whatever the budget.
ContinuePrefillWhole(s) ==
    /\ NextRunning("running", s) /\ ~RunningFull /\ IsPrefill(s)
    /\ scheduled' = [scheduled EXCEPT ![s] = PrefillLeft(s)]
    /\ batched' = batched + PrefillLeft(s)
    /\ prefills' = Append(prefills, s)
    /\ taken' = Append(taken, s)
    /\ running' = Tail(running)
    /\ UNCHANGED <<pc, waiting, status, decodes, todo, bmVars, kv, config>>

\* A prompt under way advances by a chunk; it counts in two lists.
ContinuePrefill(s) ==
    /\ NextRunning("running", s) /\ ~RunningFull /\ IsPrefill(s)
    /\ LET chunk == Smaller(PrefillLeft(s), Remaining) IN
       /\ scheduled' = [scheduled EXCEPT ![s] = chunk]
       /\ batched' = batched + chunk
    /\ prefills' = Append(prefills, s)
    /\ taken' = Append(taken, s)
    /\ running' = Tail(running)
    /\ UNCHANGED <<pc, waiting, status, decodes, todo, bmVars, kv, config>>

ScheduleDecode(s) ==
    /\ NextRunning("running", s) /\ ~RunningFull /\ ~IsPrefill(s)
    /\ Decode(s)
    /\ batched' = batched + 1

Preempt(s) ==
    /\ NextRunning("running", s) /\ ~RunningFull /\ ~IsPrefill(s)
    /\ PreemptLast(s)

EndRunning ==
    /\ pc = "running" /\ running = <<>>
    /\ running' = taken
    /\ pc' = "waiting"
    /\ UNCHANGED <<waiting, status, batchVars, bmVars, scheduled, kv, config>>

\* Mutant of MayAdmit: max_num_seqs is not looked at.
MayAdmitAnyNumber ==
    /\ waiting # <<>>
    /\ Remaining > 0
    /\ CanAllocate(Head(waiting))

\* Phase 2 looks at the head of waiting, which never has blocks here.
MayAdmit ==
    /\ waiting # <<>>
    /\ Remaining > 0
    /\ Len(prefills) + Len(decodes) < MaxNumSeqs
    /\ CanAllocate(Head(waiting))

Admit(s) ==
    /\ pc = "waiting" /\ MayAdmit /\ s = Head(waiting)
    /\ Allocate(s)
    /\ LET chunk == Smaller(NumTokens(s) - cached'[s], Remaining) IN
       /\ scheduled' = [scheduled EXCEPT ![s] = chunk]
       /\ batched' = batched + chunk
    /\ status' = [status EXCEPT ![s] = "RUNNING"]
    /\ waiting' = Tail(waiting)
    /\ running' = Append(running, s)
    /\ prefills' = Append(prefills, s)
    /\ UNCHANGED <<pc, taken, decodes, todo, tokens, reserved, kv, config>>

EndWaiting ==
    /\ EndLoop("waiting") /\ ~MayAdmit
    /\ UNCHANGED <<queueVars, batchVars, bmVars, scheduled, kv, config>>

ContinuousStep ==
    \/ EndRunning \/ EndWaiting
    \/ \E s \in Seqs :
         ContinuePrefill(s) \/ ScheduleDecode(s) \/ Preempt(s) \/ Admit(s)

-----------------------------------------------------------------------------
(* Properties                                                              *)

\* Every running sequence advances in every step: admission leaves room for the
\* next step's decodes, and of the sequences in phase 1 only the last can be in
\* its prompt, so that counting it twice excludes nobody.
NobodyIsSkipped == pc = "running" /\ running # <<>> => ~RunningFull
=============================================================================
