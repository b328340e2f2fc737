----------------------------- MODULE PDScheduler -----------------------------
(***************************************************************************)
(* The scheduler of one prefill or decode engine: _schedule_pd,            *)
(* postprocess, update_connector_output, cancel_request and shutdown of    *)
(* nanovllm/engine/scheduler.py with PullSchedulerConnector of             *)
(* nanovllm/distributed/kv_transfer/scheduler.py.                          *)
(*                                                                         *)
(* The worker connector is an environment that keeps to the contract of    *)
(* kv_transfer/base.py: it takes the commands of a step and reports each   *)
(* attempt's end in some later step, after its last access to the blocks.  *)
(* It may report an end again, which the scheduler has to ignore.          *)
(* NixlTransfer models what is behind it.                                  *)
(***************************************************************************)
EXTENDS StepExecution, KVDescriptors

CONSTANTS
    Configs,            \* the configurations an engine may be started with
    Requests,           \* request ids, which users may use again
    RequestId,          \* the request id of each sequence
    Transfers,          \* transfer ids
    Attempt,            \* the transfer id of each sequence, fresh on P (uuid4)
    NoSeq, NoRequest,   \* a missing entry of requests and of pending
    MaxModelLen, Eos

ASSUME ConfigAssumption ==
    \A c \in Configs :
        /\ c.role \in {"prefill", "decode"}
        /\ {c.maxNumSeqs, c.maxBatchedTokens} \subseteq Nat \ {0}
        /\ {c.mixed, c.chunked} \subseteq BOOLEAN
        /\ c.sequences \subseteq Seqs /\ c.users \subseteq {"cancel", "shutdown"}
ASSUME IdAssumption ==
    /\ RequestId \in [Seqs -> Requests] /\ Attempt \in [Seqs -> Transfers]
    /\ NoSeq \notin Seqs /\ NoRequest \notin Requests
    /\ \A r, s \in Seqs : Attempt[r] = Attempt[s] => r = s
ASSUME LimitAssumption == MaxModelLen \in Nat \ {0}

VARIABLES
    config,         \* this engine's configuration, and what users do
    pc,             \* "idle", "admit", "batch", "execute", "post", "events",
                    \* "closing", "closed"
    waiting, running, status,
    requests,       \* request id -> sequence
    remote,         \* the keys of remote_waiting
    cancelled,      \* cancelled request ids
    seen,           \* _seen_transfer_ids
    pending,        \* the connector's transfer id -> request id
    loads, sends, cancels,      \* its queued commands, as transfer ids
    claims,         \* the block ids each command names
    handoffs,       \* attempts given to the router
    failures,       \* attempts whose failure was reported
    active,         \* attempts the worker connector works on
    ended,          \* attempts it has reported
    events,         \* this step's ConnectorOutput: transfer id -> outcome
    fresh,          \* what update_connector_output has not reached of it
    prefills, decodes, budget,  \* the batch
    todo            \* what the present loop has not reached

queueVars   == <<waiting, running, status>>
requestVars == <<requests, remote, cancelled, seen, handoffs, failures>>
commandVars == <<pending, loads, sends, cancels, claims>>
workerVars  == <<active, ended, events, fresh>>
batchVars   == <<prefills, decodes, budget, todo>>
vars == <<pc, queueVars, requestVars, commandVars, workerVars, batchVars, bmVars,
          scheduled, kv, config>>

Decodes          == config.role = "decode"
MaxNumSeqs       == config.maxNumSeqs          \* max_num_seqs
MaxBatchedTokens == config.maxBatchedTokens    \* max_num_batched_tokens
Mixed            == config.mixed               \* enable_continuous_batching
Chunked          == config.chunked             \* enable_chunked_prefill

Outcomes == {"ok", "failed", "cancelled"}    \* ok: received on D, sent on P

\* Types, and the limits of the configuration: the token budget of a step, and the slots,
\* which running requests and those that wait for their KV share.
TypeOK ==
    /\ config \in Configs
    /\ BlockTypeOK /\ KVTypeOK
    /\ pc \in {"idle", "admit", "batch", "execute", "post", "events", "closing", "closed"}
    /\ \A q \in {waiting, running, prefills, decodes, todo} : q \in Seq(Seqs)
    /\ status \in [Seqs -> {"NEW", "WAITING", "REMOTE", "RUNNING", "FINISHED"}]
    /\ requests \in [Requests -> Seqs \cup {NoSeq}]
    /\ remote \subseteq Requests /\ cancelled \subseteq Requests
    /\ pending \in [Transfers -> Requests \cup {NoRequest}]
    /\ \A c \in {seen, loads, sends, cancels, handoffs, failures, active, ended, fresh} :
          c \subseteq Transfers
    /\ claims \in [Transfers -> Seq(Blocks)]
    /\ DOMAIN events \subseteq Transfers /\ \A t \in DOMAIN events : events[t] \in Outcomes
    /\ budget \in 0 .. MaxBatchedTokens
    /\ Len(running) + Cardinality(remote) <= MaxNumSeqs

Init ==
    /\ config \in Configs
    /\ BlockInit /\ KVInit
    /\ pc = "idle"
    /\ waiting = <<>> /\ running = <<>> /\ status = [s \in Seqs |-> "NEW"]
    /\ requests = [r \in Requests |-> NoSeq]
    /\ remote = {} /\ cancelled = {} /\ seen = {} /\ handoffs = {} /\ failures = {}
    /\ pending = [t \in Transfers |-> NoRequest]
    /\ loads = {} /\ sends = {} /\ cancels = {}
    /\ claims = [t \in Transfers |-> <<>>]
    /\ active = {} /\ ended = {} /\ events = <<>> /\ fresh = {}
    /\ prefills = <<>> /\ decodes = <<>> /\ budget = 0 /\ todo = <<>>

-----------------------------------------------------------------------------
(* Between steps *)

\* Mutant of TotalBlocks: only the prompt is reserved.
TotalBlocksPrompt(s) == CeilDiv(NumPrompt(s), BlockSize)

Footprint(s)   == NumPrompt(s) + IF Decodes THEN MaxTokens[s] ELSE 0
TotalBlocks(s) == CeilDiv(Footprint(s), BlockSize)

\* add(s) raises nothing.
Acceptable(s) ==
    /\ requests[RequestId[s]] = NoSeq
    /\ Decodes => Attempt[s] \notin seen
    /\ Footprint(s) <= MaxModelLen /\ TotalBlocks(s) <= NumBlocks
    /\ Decodes \/ Chunked \/ NumPrompt(s) <= MaxBatchedTokens

Add(s) ==
    /\ pc = "idle" /\ s \in config.sequences /\ status[s] = "NEW"
    /\ Acceptable(s)
    /\ requests' = [requests EXCEPT ![RequestId[s]] = s]
    /\ seen' = IF Decodes THEN seen \cup {Attempt[s]} ELSE seen
    /\ status' = [status EXCEPT ![s] = "WAITING"]
    /\ waiting' = Append(waiting, s)
    /\ UNCHANGED <<pc, running, remote, cancelled, handoffs, failures, commandVars,
                   workerVars, batchVars, bmVars, scheduled, kv, config>>

\* _release_pd(s).
Release(s) ==
    /\ remote' = remote \ {RequestId[s]}
    /\ requests' = [requests EXCEPT ![RequestId[s]] = NoSeq]
    /\ cancelled' = cancelled \ {RequestId[s]}
    /\ status' = [status EXCEPT ![s] = "FINISHED"]
    /\ Deallocate(s, hash)

PendingOf(r) == {t \in Transfers : pending[t] = r}
Without(q, s) == Kept(q, Seqs \ {s})

\* Mutant of CancelPending: the request is released at once.
CancelReleases(s) ==
    /\ Release(s)
    /\ cached' = [cached EXCEPT ![s] = 0]
    /\ cancels' = cancels \cup PendingOf(RequestId[s])

\* A pending transfer keeps the blocks; only its cancel is queued ...
CancelPending(s) ==
    /\ cancelled' = cancelled \cup {RequestId[s]}
    /\ cancels' = cancels \cup PendingOf(RequestId[s])
    /\ UNCHANGED <<requests, remote, status, cached, table, reserved, free, ref>>

\* ... any other request goes at once.
CancelRequest(r) ==
    /\ "cancel" \in config.users
    /\ pc = "idle" /\ requests[r] # NoSeq
    /\ LET s == requests[r] IN
       /\ waiting' = Without(waiting, s) /\ running' = Without(running, s)
       /\ IF PendingOf(r) # {}
          THEN CancelPending(s)
          ELSE /\ Release(s)
               /\ cached' = [cached EXCEPT ![s] = 0]
               /\ UNCHANGED cancels
    /\ UNCHANGED <<pc, seen, handoffs, failures, pending, loads, sends, claims,
                   workerVars, batchVars, tokens, hash, index, scheduled, kv, config>>

\* shutdown, after the worker connector's shutdown has succeeded: no transfer is
\* left.  Every request is released, then the connector's state is dropped.
BeginShutdown ==
    /\ "shutdown" \in config.users
    /\ pc = "idle"
    /\ pc' = "closing"
    /\ waiting' = <<>> /\ running' = <<>>
    /\ active' = {} /\ ended' = ended \cup active
    /\ UNCHANGED <<status, requestVars, commandVars, events, fresh, batchVars, bmVars,
                   scheduled, kv, config>>

ReleaseAtShutdown(r) ==
    /\ pc = "closing" /\ requests[r] # NoSeq
    /\ Release(requests[r])
    /\ cached' = [cached EXCEPT ![requests[r]] = 0]
    /\ UNCHANGED <<pc, waiting, running, seen, handoffs, failures, commandVars,
                   workerVars, batchVars, tokens, hash, index, scheduled, kv, config>>

EndShutdown ==
    /\ pc = "closing" /\ \A r \in Requests : requests[r] = NoSeq
    /\ pc' = "closed"
    /\ pending' = [t \in Transfers |-> NoRequest]
    /\ loads' = {} /\ sends' = {} /\ cancels' = {}
    /\ UNCHANGED <<queueVars, requestVars, claims, workerVars, batchVars, bmVars,
                   scheduled, kv, config>>

-----------------------------------------------------------------------------
(* _schedule_pd *)

IsFinished ==
    /\ waiting = <<>> /\ running = <<>> /\ remote = {}
    /\ \A t \in Transfers : pending[t] = NoRequest
    /\ cancels = {}

BeginStep ==
    /\ pc = "idle" /\ ~IsFinished
    /\ pc' = "admit"
    /\ todo' = waiting
    /\ prefills' = <<>> /\ decodes' = <<>> /\ budget' = MaxBatchedTokens
    /\ UNCHANGED <<queueVars, requestVars, commandVars, workerVars, bmVars, scheduled, kv, config>>

NextAdmit(s) == pc = "admit" /\ todo # <<>> /\ s = Head(todo)

\* Mutant of SlotFree: requests that wait for their KV take no slot.
SlotFreeLocal == Len(running) < MaxNumSeqs

SlotFree == Len(running) + Cardinality(remote) < MaxNumSeqs

Admissible(s) == SlotFree /\ CanAllocateExclusive(TotalBlocks(s))

\* Mutant of AdmitSkip: a request without blocks is not put back.
AdmitSkipLost(s) ==
    /\ NextAdmit(s) /\ ~Admissible(s)
    /\ waiting' = IF SlotFree THEN Tail(waiting) ELSE Append(Tail(waiting), s)
    /\ todo' = Tail(todo)
    /\ UNCHANGED <<pc, running, status, requestVars, commandVars, workerVars, prefills,
                   decodes, budget, bmVars, scheduled, kv, config>>

\* One waiting request, in order; the others do not wait for it.
AdmitSkip(s) ==
    /\ NextAdmit(s) /\ ~Admissible(s)
    /\ waiting' = Append(Tail(waiting), s)
    /\ todo' = Tail(todo)
    /\ UNCHANGED <<pc, running, status, requestVars, commandVars, workerVars, prefills,
                   decodes, budget, bmVars, scheduled, kv, config>>

Admit(s) ==
    /\ NextAdmit(s) /\ Admissible(s)
    /\ AllocateExclusive(s, TotalBlocks(s))
    /\ waiting' = Tail(waiting)
    /\ todo' = Tail(todo)
    /\ UNCHANGED <<pc, requests, cancelled, seen, handoffs, failures, sends, cancels,
                   workerVars, prefills, decodes, budget, tokens, cached, scheduled, kv, config>>

AdmitPrompt(s) ==
    /\ ~Decodes
    /\ Admit(s)
    /\ status' = [status EXCEPT ![s] = "RUNNING"]
    /\ running' = Append(running, s)
    /\ UNCHANGED <<remote, pending, loads, claims>>

\* D loads the prompt's KV into the blocks of its table first.
AdmitRemote(s) ==
    /\ Decodes
    /\ Admit(s)
    /\ status' = [status EXCEPT ![s] = "REMOTE"]
    /\ remote' = remote \cup {RequestId[s]}
    /\ pending' = [pending EXCEPT ![Attempt[s]] = RequestId[s]]
    /\ loads' = loads \cup {Attempt[s]}
    /\ claims' = [claims EXCEPT ![Attempt[s]] = table'[s]]
    /\ UNCHANGED running

\* Ready decodes come first, each phase in the order of running.
Candidates ==
    LET prompts == {s \in Seqs : IsPrefill(s)} IN
    Kept(running, Seqs \ prompts) \o Kept(running, prompts)

EndAdmit ==
    /\ pc = "admit" /\ todo = <<>>
    /\ pc' = "batch"
    /\ todo' = Candidates
    /\ UNCHANGED <<queueVars, requestVars, commandVars, workerVars, prefills, decodes,
                   budget, bmVars, scheduled, kv, config>>

NextCandidate(s) == pc = "batch" /\ budget > 0 /\ todo # <<>> /\ s = Head(todo)

Need(s) == IF IsPrefill(s) THEN PrefillLeft(s) ELSE 1

\* s may join the batch: phases do not mix, prompts are not cut, unless enabled.
Joins(s) ==
    /\ ~Mixed /\ prefills \o decodes # <<>> => (IsPrefill(s) <=> prefills # <<>>)
    /\ IsPrefill(s) /\ ~Chunked => Need(s) <= budget

BatchSkip(s) ==
    /\ NextCandidate(s) /\ ~Joins(s)
    /\ todo' = Tail(todo)
    /\ UNCHANGED <<pc, queueVars, requestVars, commandVars, workerVars, prefills, decodes,
                   budget, bmVars, scheduled, kv, config>>

Chunk(s) == IF Need(s) < budget THEN Need(s) ELSE budget

\* s is scheduled and goes to the end of running.
BatchJoin(s) ==
    /\ NextCandidate(s) /\ Joins(s)
    /\ scheduled' = [scheduled EXCEPT ![s] = Chunk(s)]
    /\ budget' = budget - Chunk(s)
    /\ IF IsPrefill(s)
       THEN /\ prefills' = Append(prefills, s)
            /\ UNCHANGED <<decodes, table, reserved, blockVars>>
       ELSE /\ MayAppend(s)
            /\ decodes' = Append(decodes, s)
            /\ UNCHANGED prefills
    /\ running' = Append(Without(running, s), s)
    /\ todo' = Tail(todo)
    /\ UNCHANGED <<pc, waiting, status, requestVars, commandVars, workerVars, tokens,
                   cached, kv, config>>

EndBatch ==
    /\ pc = "batch" /\ (budget = 0 \/ todo = <<>>)
    /\ pc' = "execute"
    /\ UNCHANGED <<queueVars, requestVars, commandVars, workerVars, batchVars, bmVars,
                   scheduled, kv, config>>

-----------------------------------------------------------------------------
(* execute_step: the worker connector gets the queued commands, the batch  *)
(* is run, and the ends of some attempts are reported.                     *)

\* One region of the engine's KV cache, as its worker registers it.
Cache == [address |-> 0, regions |-> 1, capacity |-> NumBlocks, blockSize |-> BlockSize]

\* A received prompt is where the descriptors of the claimed blocks point; after
\* any other end nothing is known about that memory.
TransferWrites(reported) ==
    UNION {LET s == CHOOSE q \in Seqs : Attempt[q] = t IN
           {[block  |-> read.address \div BlockSize,
             offset |-> (read.address % BlockSize) + 1,
             value  |-> IF reported[t] = "ok" THEN SubSeq(Prompt[s], 1, read.token)
                        ELSE Garbage]
              : read \in TokensRead(Cache, claims[t], NumPrompt(s), 0)}
           : t \in DOMAIN reported}

Execute ==
    /\ pc = "execute"
    /\ \E finished \in SUBSET (active \cup loads \cup sends), again \in SUBSET ended :
       \E reported \in [finished \cup again -> Outcomes] :
          /\ events' = reported
          /\ fresh' = finished \cup again
          /\ active' = (active \cup loads \cup sends) \ finished
          /\ ended' = ended \cup finished
          /\ RunStep(Writes(prefills, decodes) \cup
                IF Decodes THEN TransferWrites([t \in finished |-> reported[t]]) ELSE {})
    /\ loads' = {} /\ sends' = {} /\ cancels' = {}
    /\ todo' = prefills \o decodes
    /\ pc' = "post"
    /\ UNCHANGED <<queueVars, requestVars, pending, claims, prefills, decodes, budget,
                   bmVars, scheduled, config>>

-----------------------------------------------------------------------------
(* postprocess, which publishes no prefixes here *)

NextPost(s) == pc = "post" /\ todo # <<>> /\ s = Head(todo)

Computed(s) == cached[s] + scheduled[s]

\* Mutant of StillPrefill: off by one.
StillPrefillEarly(s) == Computed(s) < NumPrompt(s) - 1

StillPrefill(s) == Computed(s) < NumPrompt(s)

Counted(s) ==
    /\ scheduled' = [scheduled EXCEPT ![s] = 0]
    /\ todo' = Tail(todo)
    /\ UNCHANGED <<pc, waiting, workerVars, prefills, decodes, budget, seen, failures,
                   loads, cancels, hash, index, kv, config>>

PostChunk(s) ==
    /\ NextPost(s) /\ StillPrefill(s)
    /\ Counted(s)
    /\ cached' = [cached EXCEPT ![s] = Computed(s)]
    /\ UNCHANGED <<running, status, requests, remote, cancelled, handoffs, pending, sends,
                   claims, tokens, table, reserved, free, ref>>

\* P is done with the prompt: its blocks are handed off, and kept.
PostHandoff(s) ==
    /\ NextPost(s) /\ ~StillPrefill(s) /\ ~Decodes
    /\ Counted(s)
    /\ cached' = [cached EXCEPT ![s] = Computed(s)]
    /\ running' = Without(running, s)
    /\ status' = [status EXCEPT ![s] = "FINISHED"]
    /\ pending' = [pending EXCEPT ![Attempt[s]] = RequestId[s]]
    /\ sends' = sends \cup {Attempt[s]}
    /\ claims' = [claims EXCEPT ![Attempt[s]] = table[s]]
    /\ handoffs' = handoffs \cup {Attempt[s]}
    /\ UNCHANGED <<requests, remote, cancelled, tokens, table, reserved, free, ref>>

Ends(s, token) == token = Eos \/ NumCompletion(s) + 1 = MaxTokens[s]

PostToken(s, token) ==
    /\ NextPost(s) /\ ~StillPrefill(s) /\ Decodes
    /\ ~Ends(s, token)
    /\ Counted(s)
    /\ cached' = [cached EXCEPT ![s] = Computed(s)]
    /\ tokens' = [tokens EXCEPT ![s] = Append(@, token)]
    /\ UNCHANGED <<running, status, requests, remote, cancelled, handoffs, pending, sends,
                   claims, table, reserved, free, ref>>

PostFinish(s, token) ==
    /\ NextPost(s) /\ ~StillPrefill(s) /\ Decodes
    /\ Ends(s, token)
    /\ Counted(s)
    /\ Release(s)
    /\ cached' = [cached EXCEPT ![s] = 0]
    /\ tokens' = [tokens EXCEPT ![s] = Append(@, token)]
    /\ running' = Without(running, s)
    /\ UNCHANGED <<handoffs, pending, sends, claims>>

EndPost ==
    /\ pc = "post" /\ todo = <<>>
    /\ pc' = "events"
    /\ UNCHANGED <<queueVars, requestVars, commandVars, workerVars, batchVars, bmVars,
                   scheduled, kv, config>>

-----------------------------------------------------------------------------
(* update_connector_output *)

\* The live request an event is about, or none for a late or repeated event.
SeqOf(t) == IF pending[t] = NoRequest THEN NoSeq ELSE requests[pending[t]]

NextEvent(t) == pc = "events" /\ t \in fresh

eventUnchanged == <<pc, waiting, seen, handoffs, commandVars, active, ended, events,
                    batchVars, tokens, hash, index, scheduled, kv, config>>

EventStale(t) ==
    /\ NextEvent(t) /\ SeqOf(t) = NoSeq
    /\ fresh' = fresh \ {t}
    /\ UNCHANGED <<running, status, requests, remote, cancelled, failures, cached, table,
                   reserved, free, ref, eventUnchanged>>

\* Mutant of MayStart: any end of the transfer starts the request.
MayStartAnyway(t) == Decodes /\ pending[t] \notin cancelled

\* Mutant of MayStart: a cancelled request starts too.
MayStartCancelled(t) == Decodes /\ events[t] = "ok"

MayStart(t) == Decodes /\ events[t] = "ok" /\ pending[t] \notin cancelled

\* The prompt is there; its last token is computed again, for its logits.
EventReceived(t) ==
    /\ NextEvent(t) /\ SeqOf(t) # NoSeq /\ MayStart(t)
    /\ LET s == SeqOf(t) IN
       /\ remote' = remote \ {RequestId[s]}
       /\ cached' = [cached EXCEPT ![s] = NumPrompt(s) - 1]
       /\ status' = [status EXCEPT ![s] = "RUNNING"]
       /\ running' = Append(running, s)
    /\ fresh' = fresh \ {t}
    /\ UNCHANGED <<requests, cancelled, failures, table, reserved, free, ref, eventUnchanged>>

EventEnds(t) ==
    /\ NextEvent(t) /\ SeqOf(t) # NoSeq /\ ~MayStart(t)
    /\ failures' = IF events[t] = "failed" THEN failures \cup {t} ELSE failures
    /\ Release(SeqOf(t))
    /\ cached' = [cached EXCEPT ![SeqOf(t)] = 0]
    /\ fresh' = fresh \ {t}
    /\ UNCHANGED <<running, eventUnchanged>>

\* The connector forgets the attempts that ended.
EndEvents ==
    /\ pc = "events" /\ fresh = {}
    /\ pc' = "idle"
    /\ pending' = [t \in Transfers |-> IF t \in DOMAIN events THEN NoRequest ELSE pending[t]]
    /\ events' = <<>>
    /\ UNCHANGED <<queueVars, requestVars, loads, sends, cancels, claims, active, ended,
                   fresh, batchVars, bmVars, scheduled, kv, config>>

-----------------------------------------------------------------------------
EngineStep ==
    \/ BeginStep \/ EndAdmit \/ EndBatch \/ Execute \/ EndPost \/ EndEvents
    \/ \E s \in Seqs :
         \/ AdmitSkip(s) \/ AdmitPrompt(s) \/ AdmitRemote(s)
         \/ BatchSkip(s) \/ BatchJoin(s)
         \/ PostChunk(s) \/ PostHandoff(s)
         \/ \E token \in Token : PostToken(s, token) \/ PostFinish(s, token)
    \/ \E t \in Transfers : EventStale(t) \/ EventReceived(t) \/ EventEnds(t)

Next ==
    \/ EngineStep
    \/ \E s \in Seqs : Add(s)
    \/ \E r \in Requests : CancelRequest(r) \/ ReleaseAtShutdown(r)
    \/ BeginShutdown \/ EndShutdown

Spec == Init /\ [][Next]_vars

\* engine_loop steps while there is work, and the worker connector reports the
\* end of every attempt it was given.
FairSpec ==
    /\ Spec /\ WF_vars(EngineStep)
    /\ \A t \in Transfers :
          SF_vars(t \in (active \cup loads \cup sends) \ ended /\ Execute /\ t \in ended')

-----------------------------------------------------------------------------
(* Properties                                                              *)

\* While a transfer is queued or under way its request is the one the connector
\* remembers, and it alone holds the blocks the worker was told about, which are
\* as many different ones as the prompt fills (_validate_blocks raises otherwise): neither
\* cancels, repeated events nor other requests with the same id take them away.
\* Only shutdown does, when the worker has ended them all.
TransfersKeepBlocks ==
    pc # "closing" => \A t \in loads \cup sends \cup active :
        LET s == SeqOf(t) IN
        /\ s # NoSeq /\ Attempt[s] = t
        /\ ValidBlocks(Cache, claims[t], NumPrompt(s))
        /\ claims[t] = SubSeq(table[s], 1, Len(claims[t]))
        /\ \A b \in Elems(claims[t]) : Holders(b) = {s}

\* Blocks belong to live requests only, and after shutdown to nobody: whatever
\* way a request ended, nothing of its reservation is left behind.
OnlyLiveRequestsOwnBlocks ==
    /\ \A s \in Seqs : table[s] \o reserved[s] # <<>> =>
          requests[RequestId[s]] = s /\ status[s] # "WAITING"
    /\ RefCountsHolders
    /\ pc = "closed" => Elems(free) = Blocks

\* A cancelled request never gets into a batch again, not even if its KV arrives
\* after the cancel.
CancelledNeverRuns ==
    \A s \in Elems(running \o prefills \o decodes) :
        pc \in {"batch", "execute", "post"} => RequestId[s] \notin cancelled

\* "PD never preempts": blocks are taken from the pool at admission only, so that
\* no decode step can find it empty.
NoLateAllocation == [][Len(free') < Len(free) => pc = "admit"]_vars

\* What P handed off is the KV of the whole prompt, and stays that until the
\* transfer has ended.
HandoffIsComplete ==
    ~Decodes /\ pc # "closing" =>
        \A t \in sends \cup active : ContextReady(SeqOf(t), NumPrompt(SeqOf(t)))

\* D samples from the prompt's received KV and its own, all of it.
TokensFromFullContext ==
    [][\A s \in Seqs : tokens'[s] # tokens[s] =>
          ContextReady(s, Len(tokens[s])) /\ Computed(s) = Len(tokens[s])]_vars

\* Every accepted request ends: one that finds no slot or no blocks, while smaller
\* ones pass it, is put back and admitted later, decodes do not starve prompts, and
\* no transfer is forgotten.  Requests are finitely many: the code keeps no blocks
\* for a large request, and nothing is said of an endless stream of small ones.
EveryRequestEnds ==
    \A s \in Seqs : status[s] = "WAITING" ~> (requests[RequestId[s]] # s \/ pc = "closed")
=============================================================================
