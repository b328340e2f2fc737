# Verification of nano-vllm-chunked

TLA+ models of the parts of nano-vllm that are hard to test: the paged KV-cache
allocator with its prefix cache, the schedulers (continuous batching, legacy, and that
of disaggregated prefill and decode) with chunked prefill and preemption, the transport
that hands the KV of a prompt from a prefill engine (P) to a decode engine (D), the router
that owns these engines, the broadcast from rank 0 to the worker ranks, and the model
split over the ranks: its weights, its forward pass and the routing of tokens to experts.
TLC checks small instances; TLAPS proves, for instances of any size, the safety properties
of the transport, of the allocator and its prefix cache, of the local schedulers, and of the
broadcast, the central ones of the PD scheduler, those of the router and of the routing to
experts, and facts about the arithmetic of graphs, descriptors and expert ranges.
Paths below are relative to the repository; unless said otherwise they are under
`nanovllm/`.

## The system

| Part | State | Operations | Talks to |
|---|---|---|---|
| Block manager (`engine/block_manager.py`) | ref counts, hashes and tokens of blocks, evictable queue, hash index, reservations | can_allocate, allocate, allocate_exclusive, can_append, may_append, hash_blocks, deallocate | called by the scheduler |
| Sequence (`engine/sequence.py`) | tokens, num_cached_tokens, num_scheduled_tokens, block table, status | append_token, derived counts | shared by scheduler, block manager, model runner |
| Scheduler (`engine/scheduler.py`) | waiting, running, requests, remote_waiting, cancelled | add, three schedule modes (continuous batching, legacy, PD), preempt, postprocess, update_connector_output, cancel_request, shutdown | block manager, scheduler connector |
| Scheduler connector (`distributed/kv_transfer/scheduler.py`) | pending attempts, queued commands | request_finished, update_state_after_alloc, build_connector_meta, cancel_request | its commands travel with a step to the worker connector |
| Worker connector (`distributed/kv_transfer/nixl.py`) | P: published records; D: loads, control tasks, NIXL handles | start_load_kv, get_finished, _control, _acquire, _ack, shutdown | HTTP between engines, NIXL, a thread pool |
| Model runner and attention (`engine/model_runner.py`, `layers/attention.py`) | KV cache, CUDA graphs, shared buffer and events | prepare_inputs, run_model, execute_step, read_shm, write_shm | executes what was scheduled; rank 0 broadcasts to the other ranks |
| Engine (`engine/llm_engine.py`) | engine loop, handoffs | add_request, step, generate, exit | drives all of the above |
| Router and benchmark (`examples/qwen3_pd.py`, `examples/bench_pd.py`) | results, handoffs seen, engine processes | add, drain and stop commands; ready, handoff, done, drained, stopped and error events | pipes to the engine processes |
| Experts (`layers/moe_permute.py`, `layers/moe_grouped.py`, `models/qwen3_moe.py`) | routing plan, buffers of one layer | counting sort, grouped GEMMs, combination, all_reduce | the ranks of a group |
| Sharded layers, loader, models (`layers/linear.py`, `embed_head.py`, `awq.py`, `activation.py`, `utils/loader.py`, `models/`) | parameters of each rank | weight_loader, load_model, forward | checkpoint tensors in, collectives between the ranks |
| Sampler, normalisation, rotary embedding, options | none | forward passes on replicated values, validation | numerics |

What is hard, and where the project looks for it:

* *Interleaving.* P's engine loop and its HTTP handler threads share the published
  records under a lock; D's engine loop polls tasks of a pool of four control threads.
  Leases, expiry, cancellation and shutdown race with each other.
* *Failure.* A control message may be lost, or be handled after its client gave up; a
  READ may fail, time out or refuse to be cancelled; a peer may die; a user may cancel.
* *Stale state.* A cached block that nobody uses is in the prefix index and in the
  eviction queue at once. A preempted sequence loses its blocks but keeps its tokens.
* *Ordering without acknowledgement.* Rank 0 reuses one buffer and one event per worker and
  never hears that a call was read; GPU lanes take positions of a bucket in any order.
* *Limits.* The pool runs out in the middle of a scheduling pass; the token budget
  splits a prompt anywhere; a decode batch has to fit one of the captured CUDA graphs.
* *Two copies of one thing.* Worker ranks act on a snapshot of the sequences; every rank
  has to cut, place and combine its slices of a weight as all others do.

`PROJECT.json` lists each hazard at its line with the properties that cover it.

## Modules

| Module | Models |
|---|---|
| `KVLease` | the contract of a connector, abstractly: source blocks are retained, granted to at most one reader, accessed under the grant, freed when nobody accesses them (`kv_transfer/base.py`) |
| `NixlTransfer` | the transport of `nixl.py` for one P and any number of Ds, with the scheduler's part of retaining, reserving and releasing blocks |
| `NixlTransferProofs` | its inductive invariants and the proofs |
| `BlockManager` | the allocator and prefix cache, as fragments of actions |
| `BlockClient` | a most general client of it |
| `BlockManagerProofs` | what each fragment does to the pool whoever uses it, and the client's inductive invariant |
| `StepExecution` | what a forward pass reads and writes in the paged KV cache, and the snapshot of a sequence that worker ranks get |
| `GraphReplay` | which CUDA graphs are captured and which is replayed, with how many rows (`model_runner.py`) |
| `Scheduling` | what the local modes share: `add`, `preempt`, the run of a batch, `postprocess` |
| `ContinuousBatching` | the loops of `_schedule_continuous_batching` |
| `LegacyScheduling` | the loops of `_schedule_legacy` |
| `LocalScheduler` | `LLMEngine.step` and `generate` over either mode |
| `LocalSchedulerProofs` | its inductive invariant and the proofs, and which `max_num_seqs` never meet a batch without a graph |
| `PDScheduler` | the scheduler of a P or a D engine with its scheduler connector: `add`, `_schedule_pd`, `postprocess`, `update_connector_output`, `cancel_request`, `shutdown` |
| `PDSchedulerProofs` | its inductive invariants and the proofs |
| `KVDescriptors` | the memory a transfer names (`nixl.py`, `metadata.py`) |
| `KVDescriptorsProofs` | that descriptors lie inside the cache and do not overlap |
| `PDRouter` | a router process and its two engine processes (`examples/qwen3_pd.py`, `examples/bench_pd.py`) |
| `PDRouterProofs` | that P is stopped last and waves do not mix, with the inductive invariants |
| `WorkerBroadcast` | rank 0 and the workers over shared memory and events (`model_runner.py`) |
| `WorkerBroadcastProofs` | its inductive invariant and the proofs |
| `ExpertParallel` | counting sort, grouped expert GEMMs and combination of a mixture-of-experts layer under expert parallelism (`layers/moe_permute.py`, `layers/moe_grouped.py`, `models/qwen3_moe.py`) |
| `ParallelModel` | loading and forward pass of a dense or mixture-of-experts model on several ranks (`utils/loader.py`, `layers/`, `models/`) |
| `ExpertParallelProofs` | that the ranks' expert ranges partition the experts, that the routing plan of a rank is a sort, and that every route is computed once by its expert |
| `MC...` | the values of constants TLC uses |

`LocalScheduler` EXTENDS both modes, these `Scheduling`, this `StepExecution`, and this
`BlockManager`; `PDScheduler` EXTENDS `StepExecution` as well. `Scheduling` uses
`GraphReplay`, `PDScheduler` uses `KVDescriptors`, and `ParallelModel` EXTENDS
`ExpertParallel`. `NixlTransfer` instantiates `KVLease` under its refinement mapping.
Between `PDScheduler` and `NixlTransfer` lies the worker connector's interface:
`PDScheduler` takes from it that every attempt ends, at any time and with any outcome, and
may be reported late or twice; `NixlTransfer` takes from the scheduler that blocks are
retained and reserved until the end is reported. `PDRouter` in turn abstracts a whole engine
to what these two say of a request. Operators named "Mutant of ..." are wrong on purpose:
each is a plausible bug, and substituting it for the definition it mutates makes TLC report
the property that `PROJECT.json` pairs it with.

### NixlTransfer

State is split as in the code: P's records (`published`, `reader`, `released`,
`pCancelled`), P's scheduler (`handed`, `retained`, the queued commands `sends` and
`pCancels`), and for every load, that is a pair of reader and transfer id, D's record
(`stage`, `future`, `error`, `handle`, `dCancelled`) and D's scheduler (`dest`, `aborted`,
`dCancels`). `late` holds requests that a handler thread of P has yet to handle although
the client gave up.

* The engine thread's work is one action per record and stage: other threads run
  between any two records that `get_finished` visits, so a record's visit is the atomic
  unit. While the engine is up, the event and the scheduler's reaction to it
  (`update_connector_output`) are one action, because nothing but this thread touches
  what they change and user calls come between steps only. During `shutdown` the events
  are dropped, as in the code, and the blocks come back in `PClosed` and `DClosed`.
* `_control` runs under P's lock and is one action. If the client is still waiting, the
  answer arrives or is lost; if not, it has no receiver.
* A deadline is an action that may fire whenever the code would test it. This is
  sound for safety and says nothing about how long anything takes.
* `FinishRead` covers both attempts of `_finish_read` in one pass of `get_finished`.
* NIXL is external: a posted READ completes or fails by itself. The READ is taken to
  have copied the prompt's KV only if P still retains the blocks at that moment.
* Layout signatures are abstracted to which readers are compatible; the descriptors of a
  READ are in `KVDescriptors`.
* The variable `environment`, chosen once from the constant `Environments`, says which
  handoffs there are, which readers have P's layout, and what may happen from outside, so
  that one run affords several combinations; the proofs hold for all of it together.

### BlockManager and StepExecution

A prefix hash is the sequence of tokens it was computed from, so two hashes are equal
exactly if the prefixes are; collisions of the 64-bit hash are left out (the code
compares the tokens of the last block as well). The blocks listed under one hash are a
set in the code, and which of several copies is found is left open. A list comprehension
that filters a queue or a table is `Kept`, defined by the places it keeps and without
recursion, so that the proofs can reason about it.

`StepExecution` gives the KV cache a meaning. The KV of a token depends on every token
before it, so a slot holds the sequence of tokens its value was computed from, or
`Garbage` if it was never written or was computed while its context was incomplete.
Whether a scheduling decision was right then shows in the cache.

Worker ranks do not see rank 0's sequences but a pickled snapshot (`__getstate__`).
`SnapshotTokens` is what it has, and `PrefillInput` the slice `prepare_inputs` takes of it.

`GraphReplay` adds the rows behind a decode batch that a replayed graph executes: their slot
is -1, for which the store kernel returns. It is used by the local scheduler; a PD
engine's decode batches would add nothing to it.

### LocalScheduler

One iteration of each loop of a scheduler is an action. `pc` names the loop:
"running" and "waiting" are phases 1 and 2 of the continuous mode, "prefill" and
"decode" the loops of the legacy mode; then "execute", then "post" for `postprocess`.
"failed" is the RuntimeError "nothing scheduled", or the StopIteration of `run_model` when
no captured graph holds a decode batch. The engine is single-threaded, so requests are added
between steps only.

The variable `config` is the configuration the engine was started with and the requests
its users make. It never changes; `Init` chooses it from the constant `Configs`, so that one run
covers several modes and budgets, each with the requests that make it interesting.

### PDScheduler

`config` likewise gives the role. A step is "admit" (waiting requests, in order),
"batch" (the token budget shared out), "execute", "post" (one sequence per action),
"events" (one reported transfer per action). Users cancel and shut down between steps.
Transfers are external here: an attempt that has started ends with an outcome, is reported
in some later step, and may be reported again; what a D attempt writes to its
destination blocks happens at any time between. Several sequences may come under one
request id, one after the other.

### WorkerBroadcast

A call is its number. Writing it is two steps (the buffer is torn in between), so is
reading (length, then content). Events are set one by one, in any order. A step is done
for rank 0 when all workers entered its collectives, since the logits are gathered from
all ranks; a worker does not wait for anything but its event. NCCL, the barrier, and the
event object are external. The model takes every step to have a batch: the local schedulers
raise otherwise, and a PD engine, whose steps may be empty, has a single rank.

### PDRouter

`program` is one of the two router programs: `run_pd`, which sends one wave of requests, and
the benchmark, which sends several with the same request ids, drains the engines between
them, and wants to hear that they stopped. `pc` is where the router waits: for both to be
ready, for events, for both to be drained, for a process to end. Commands and events are
FIFO pipes. An engine is reduced to what the router can tell: a request waits, is held
by P for D, is loaded, runs; P's lease on it is open, taken by D or over. What
`PDScheduler` and `NixlTransfer` show allows this: a handoff ends on both sides, and an
engine's exit raises if a READ does not end. Crashes, timeouts, expired leases, failed
transfers and failed exits may happen at any time and are noted in `faults`, so that
`RouterEnds` can say that all results arrive unless something did go wrong. Not in the
model: the "first" events and measurements of the benchmark, its other modes, and the
capacity of the pipes.

### ExpertParallel

Values are terms: `<<e, t>>` is what expert `e` makes of token `t`, and a row of a buffer is
the set of values its tiles store, so a row without a tile, with two, or of the wrong
expert shows in what a token receives. Lanes of the scatter kernel take their positions
in any order; the other kernels are functions of their input (the additions of the
count kernel commute, tiles store disjoint rows or the model shows it). Kernels of a
rank run in stream order. Ranks share nothing until `all_reduce`, so the model runs
them one after the other. A layer gets at least one token, since the schedulers run no
empty batch. The module has no specification of its own: `ParallelModel` runs its steps in
the layer of a model with expert parallelism.

### ParallelModel

A weight is a set of slices along the dimension it is split in, and a value is the term of
the slices it was computed from: an attention term names the column of `o_proj`, the query
head, the kv head and the value column that meet there. The sum of an `all_reduce` is the
set of the ranks' terms tagged by rank, so a term that is missing, doubled or made of slices
that do not belong together differs from the unsharded model's. Each rank's `weight` is
filled by `Load`, one checkpoint tensor at a time, in any order within a module as
`load_model` meets them in files; offsets and sizes are those of the packed layers'
`weight_loader`s, with AWQ's packed words. The collectives are the steps of the forward
pass; one layer stands for all, since every layer is built alike. Without expert parallelism
the router's argsort breaks ties in any way, the same on all ranks: they run the same kernel
on the same input. A parameter that no tensor was loaded into is read as "uninitialized".
Normalisation, rotary embedding, biases and the residual stream act on values every rank has
and are left out.

## Runs

| Run | Instance | Shows |
|---|---|---|
| `nixl_safety` | 1 transfer; 2 readers with lost and late messages and cancels, or one of them without the layout, with crashes and shutdowns | types, LeaseSafety, AgreedOutcome, DestinationSafety, ReceivedIsComplete, QuietAfterClose, the refinement of KVLease |
| `nixl_liveness` | 1 reader with one control thread, losses and crashes; 2 transfers, or 1 with cancels and shutdowns as well | RetainedOnlyIfPeerLost; every load and every handoff ends unless the peer is lost |
| `nixl_late_acquire` | 1 transfer, 1 reader, late messages | violation, see Findings |
| `block_manager` | 3 requests, 4 blocks of 2 tokens, with prefix cache or with reservations | every block is free, referenced or reserved as often as it is held (BlocksAccounted); index, hashes and tables agree (HashesAgree) |
| `local_scheduler` | 6 configurations, 2 or 3 requests, 5 blocks of 2 tokens | no stall, nobody skipped or lost, private writes, published and cached KV right, full context |
| `split_recompute` | both modes, 2 long requests, budget 3 | violation, see Findings |
| `worker_snapshot` | continuous mode, 2 long requests | violation, see Findings |
| `pd_safety` | P and two D configurations, 2 or 3 requests, 4 blocks | types and slots, ownership of blocks, descriptors, reservations, cancellation, handoffs, full context |
| `pd_liveness` | P and D with 4 blocks for 2 or 3 requests of different sizes, D with one slot | every accepted request ends, one that finds no slot or no blocks while smaller ones pass it too |
| `worker_broadcast` | 3 workers, 3 calls | order and wholeness of calls, signals, life of the segment, exit |
| `model_parallel` | 6 models, 3 tokens, 1 or 2 ranks, 2 of 4 experts each, tiles of 2 rows | the ranks together compute what the whole model computes; the expert plan is a sort, every route is computed once by its expert |
| `pd_router` | both programs, 2 requests, 2 waves, 1 slot on D | waves do not meet, P stops last, every run ends |

The configurations of `local_scheduler` are: a budget that cuts prompts (2 tokens), with
graphs; two long requests that preempt each other until a victim's prefix is evicted, with a
budget that recomputes one in a step; fewer slots than requests; the legacy mode with
chunks; without chunks but with graphs; and an engine with two slots and a graph for one row
only, which fails as soon as two requests decode together. Graphs are captured for 1 row and
multiples of 3, up to 6, where the code has 1, 2, 4, 8 and multiples of 16 up to 512; with 3
slots a batch of two is replayed with three rows, so that one is padding. Those of
`pd_safety` are: P with chunks and request ids used again; D with one slot and ids used
again; D with two requests and phases that do not mix. Those of `pd_liveness` are:
P, and D, with slots for three requests but blocks for some of them only (they take 2, 1 and
3 of four blocks on P, 3, 1 and 4 on D), so that one waits while a smaller one behind it is
admitted; two of these requests with cancels, on P and on D; and D with a single slot. Its P
has no chunks and a budget for one of the longer prompts and no second one; its D does not
mix phases, so that a prompt waits for decodes. Those of `model_parallel` are a dense
model on two ranks, on one with tied embeddings, with twice the heads, and with AWQ (words
of 2 columns instead of 8); and a model of four experts with tensor and with expert
parallelism. Their batches are one chunk or two, with and without decodes, and decodes only.

Why the bounds are enough for what is asked: a lease conflict takes two readers, a shortage
of control threads takes two transfers and one thread, a prefix is shared by two requests
and taken from them by a third, a chunk boundary falls inside a block when a decode leaves
one token of the budget and blocks hold two, and a victim's prefix is evicted only if the
survivor grows by as many blocks as the victim had. A stale transfer event takes two
sequences under one request id. A request is passed by a smaller one when a first holds
blocks it needs, which takes three of them. A lost signal takes two calls and one slow worker; the third
call and worker let two workers lag differently and a step follow before exit. Three tokens
fill an expert's tile and a half, and leave other experts or a whole rank empty. Two ranks
with two kv heads or four tell the offset of a shard from its size and from the whole
model's, and a head from its group. Two waves, two requests and one slot on D make a request
wait while another is loaded and its id come back. Token 2 is the end of sequence, so
requests end early or at `max_tokens` (in `pd_liveness` at `max_tokens` only). No counter is unbounded: tokens are bounded by
`max_tokens`, calls by `MaxCalls`, waves by `Waves`, transfer ids are never reused. Each set
of environments with symmetry is closed under permutations of the readers. Deadlock checking
is off because every instance ends: all requests finish, all engines are closed, the logits
are computed, or rank 0 makes no further call. The largest instances are `model_parallel`
with 440,000 distinct states and `nixl_safety`, `block_manager` and `pd_safety` with 330,000
to 360,000; `pd_router` has 56,000.

**Fairness.** The engine loop steps as long as there is work (`is_finished` includes
`has_pending_work`, `generate` and `engine_loop` loop on it), threads keep running, time
passes, and NIXL completes or fails what it was given. Two actions need strong fairness: a
queued task competes with others for a pool thread (`StartTask`), and a task passes
through the point where it tests its deadline again and again without staying there
(`GiveUp`). Releasing a handle may raise any number of times but not for ever, which is
an assumption about NIXL. Cancels, shutdowns, crashes and lost or late messages are never
owed. `LocalScheduler` only needs that the engine keeps taking steps. In
`PDScheduler` the engine loop keeps stepping while there is work, and each
pending attempt's end is reported (strong fairness: it can be reported only during a
step), which is what `EveryLoadEnds` and `EveryHandoffEnds` show of the
transport. In `WorkerBroadcast` each process goes on with what it does; rank 0 owes no call.
In `PDRouter` the router and both engine processes run, and each engine goes on with every
request, as its step loop visits them all. No fault is owed while nothing went wrong; after a
fault the waits do have their timeouts, which the code gives to all of them.

Every instance has finitely many requests, and the liveness properties say no more than that.
In particular `EveryRequestEnds` does not say that a PD engine is fair to large requests: the
scan of `_schedule_pd` lets smaller ones pass on purpose and keeps no blocks for the one that
was put back, so an endless stream of small requests can keep a large one waiting for ever.

## Findings

* `nixl_late_acquire`: a request whose client timed out is not withdrawn from P. An acquire
  handled after the reader's release (which P answered "ok" and ignored, the record being
  unclaimed) claims the record for a reader that has forgotten it. Claimed records never
  expire, so P's blocks stay retained and P's shutdown raises, although no peer died and the
  release was confirmed.
* `split_recompute`: a preempted request is admitted again with its prompt and generated
  tokens to recompute. If the token budget cuts this in two after the prompt, or in the
  prompt, the continuous mode never computes the rest of the generated tokens: the next step
  counts prompt tokens only. The legacy mode leaves such a request at the head of `waiting`
  until all its tokens are computed, but `postprocess` takes a chunk that ends behind the
  prompt for a complete prefill and appends the token sampled from it. In both modes tokens
  are sampled from an incomplete context, and the prefix cache may publish blocks whose KV
  was not written.
* `worker_snapshot`: a preempted request whose prompt is still in the prefix cache is
  admitted with `num_cached_tokens` at or beyond its prompt and several generated tokens to
  recompute. It is scheduled as a prefill but is not `is_prefill`, and so its snapshot for
  the worker ranks leaves its tokens out (`engine/sequence.py:181-183`). On a worker the
  slice `seq[start:end]` of the batch is then empty, and its input has fewer rows than rank
  0's.

  The configurations of `local_scheduler` recompute in one step or have requests too short
  to be cut behind the prompt, and follow rank 0's view, so that they show what holds apart
  from these two.

## Proofs

### Transport

`NixlTransferProofs` proves, for every value of the constants that satisfies the three
named assumptions of `NixlTransfer` (NoReader is no reader, the pool has a thread, the
environments are made of handoffs, readers and events):

* `TypeCorrect`: `Spec => []TypeOK`;
* `LeaseIsSafe`: `Spec => []LeaseSafety`;
* `TransferRefinesLease`: `Spec => ImplementsLease`.

LeaseSafety is not inductive: that a handle exists says nothing about the release that a
control thread will send. The invariant `IInv` adds what the code relies on:

* `Retention`: a published or queued handoff is retained, and retained only if handed out;
* `LeaseHeld`: a load between the success of its acquire and its ack has the record, unreleased;
* `HandleInUse`: a handle exists only in those stages (or after a raising submission);
* `NoEarlyRelease`: a release, waiting with a pool thread, in flight or late, exists only for a
  load past its READ; and the same reader has no other load of the transfer;
* `TaskOfStage`: what a record's control task is doing fits the stage.

Each action is shown to preserve each part it can disturb; actions that leave the lease
alone are dispatched by one lemma (`LocalStep`). The refinement maps every step to a step
of `KVLease` or a stutter, with `IInv` supplying the guards of `BeginAccess` and `Free`.

The other promises are about how an attempt ends, several stages after what they rest on.
`AttemptInv` carries this along, `IInv` and six parts, each inductive with those before it:

* `DestHeld`: the destination stays reserved from the admission until the load is reported;
* `Drained`: an engine closes with nothing published or under way, and begins nothing after;
* `ReadLanded`: a load that reaches its ack with neither an error nor a cancel has landed, and
  only such a load is reported as received;
* `ClaimedOnce`: a record has one reader for good, claimed while it was published, and is
  released by that reader only, past its READ;
* `Settled`: what P reported is never published again, "failed" was never claimed, "sent" was
  released;
* `ReleaseConfirmed`: without late requests a release that P confirmed ends the lease.

From these follow

* `DestinationIsSafe`: `Spec => []DestinationSafety`;
* `ReceivedPromptIsComplete`: `Spec => []ReceivedIsComplete`;
* `EnginesAgree`: `Spec => []AgreedOutcome`;
* `ClosedEnginesAreQuiet`: `Spec => []QuietAfterClose`;
* `LeasesAreReturned`: `Spec => []("late" \notin environment.events => RetainedOnlyIfPeerLost)`.
  The hypothesis is needed: with late requests the property is false, which is the finding
  of `nixl_late_acquire`. The run `nixl_liveness`, which checks the property, has none.

### Allocator and prefix cache

`BlockManagerProofs` proves, for any pool, block size, token ids and set of requests (finite or
not) with nonempty prompts and positive limits (`PoolAssumption`, `RequestAssumption`),

* `BlocksAreAccounted`: `Spec => []BlocksAccounted`;
* `HashesAreCurrent`: `Spec => []HashesAgree`,

`Spec` being that of `BlockClient`, whose steps are all calls of the allocator in any order
its preconditions allow. The argument has two layers. `PoolInv` is about counting, and is
preserved by each operation whoever calls it (`AllocatePool`, `AllocateExclusivePool`,
`MayAppendPool`, `DeallocatePool`; the proofs of both schedulers cite the same lemmas):

* `FreeIsUnreferenced`: the queue lists exactly the blocks with count 0, each once;
* `RefsCount`: a block's count is the number of sequences that have it in their table or
  reservation, which are finitely many;
* `TablesDistinct`: no sequence has a block twice.

BlocksAccounted is nearly that; HashesAgree is not inductive. `ClientInv` adds `SeqInv`: the
full blocks of a sequence up to `num_cached_tokens` carry the hashes of its prefixes, and no
other block of its own carries one; `SharedIsHashed`: two sequences share published blocks
only, so that appending to a block changes nobody else's; `IndexIsCurrent`: the index lists
exactly the hashes blocks have, so that a block leaves it when it is reused. Without the
client's own bookkeeping this is `AllocInv`, which each operation keeps whatever state the
caller is in, and which the local scheduler's invariant contains.

The last section of the module is about slots: which block and offset a token goes to
(`SlotFacts`), that `ContextReady` is a statement on the memory and one table (`Stored`), and
what changes of the memory or of a table leave it true (`StoredKept`, `SlotAfter`).

### Local scheduler

`LocalSchedulerProofs` is about an engine with any pool, block size, token ids, set of requests
and set of configurations (`PoolAssumption`, `RequestAssumption`, `ConfigAssumption`,
`GraphAssumption`), in either mode, with preemption at any point of a loop. It proves

* `NobodySkipped`: `Spec => []NobodyIsSkipped`;
* `UnsplitEngineSafe`: `Spec /\ NoSplit => []P` for `TypeOK`, `QueuesAgree`,
  `WritesArePrivate`, `NeverStalls`, `BlocksAccounted` and `HashesAgree`, where `NoSplit` says
  that the mode is continuous batching or the legacy one without chunks;
* `EngineInvariant`, `EngineTypes`, `EngineQueuesAgree`, `EngineWritesArePrivate`,
  `EngineNeverStalls`: `Spec /\ []PartsArePrompts => []P` for the invariant and the first four.

`PartsArePrompts` is needed in the legacy mode with chunks only. There the code may sample a
token from a part of a recomputed request, which then grows at the head of `waiting`, beyond
its block table: that is what `split_recompute` reports, and no invariant about its blocks can
hold after it. The theorems say that this is the only way to break them. The configurations
of `local_scheduler` satisfy it.

None of the properties is inductive, since what a loop has passed is spread over the queue
it walks, the list it builds and the batch. `LInv` is

* `AllocInv`, the allocator's invariant;
* `QueueInv`: the queues, put together with what the loop has passed (`Queue`), list the
  sequences of their status once. Preemption takes the last of the line, which may be the
  sequence the loop is at, but is never one it has passed;
* `HoldOK`: a running sequence has blocks; another one has some only in legacy mode with
  chunks, at the head of `waiting`, and then all it needs, since nothing gets in front of it:
  the decode loop, which preempts, is not entered while it can be scheduled;
* `LengthOK`: a table lacks at most the block of the token sampled last, and none in a prompt;
* `BatchInv`: what is scheduled has the blocks of all its tokens, and something to compute
  (`Ready`); the batch is what the loop has passed;
* `CountInv`, for continuous batching: only the last running sequence can be in its prompt,
  because a prompt stays unfinished only if it used up the token budget; so there are never
  more running sequences than the budget has tokens, nor than slots.

WritesArePrivate follows from the hashes: a slot behind the computed tokens is in a block
that was not published (`SeqInv`), and such a block has one holder (`SharedIsHashed`).
NobodyIsSkipped follows from `CountInv`. NeverStalls needs `StallInv` as well: a loop is
entered with something to schedule. When a loop ends with an empty batch nothing is running
that it passed, so every block is free or held by the one sequence at the head of `waiting`
(`AllFree`, `LoneHolder`), and that the request fits alone (`HeadFits`) contradicts the
condition that ended the loop (`WaitingFinds`, `PrefillFinds`, `DecodeFinds`); a sequence
that preempts itself leaves another one running or would have found a block (`PreemptLeaves`).

About the contents of the blocks it proves

* `EngineCachesWhatItCounts`, `EnginePublishesWhatItHolds`, `EngineSamplesWhole`:
  `Spec /\ []WholeSampled => P` for `[]CachedKVIsWritten`, `[]PublishedKVIsRight` and
  `TokensFromFullContext`;
* `UnchunkedEngineStores`: all three for every execution of an engine with continuous batching
  and chunked prefill both off;
* `OneStepEngineSafe`, `AmpleEngineSafe`: `TypeOK`, `QueuesAgree`, `WritesArePrivate`,
  `NeverStalls` and all three for every execution of an engine whose configuration is
  `OneStepEach` or `AmplePool`, below.

`WholeSampled` says that postprocess comes to a sequence either in its prompt or with
all of its tokens computed. It is what `split_recompute` shows the code not to ensure, in either
mode: a preempted request that already sampled may be computed again in parts, and
`is_prefill`, which compares with the prompt, takes the first of these for the last. All that
follows is then wrong, the published blocks too, so that nothing about contents can be
proved without it. It implies `PartsArePrompts`, and `TokensFromFullContext` contains it,
so that the configurations of `local_scheduler` satisfy it, those with preemption among them.

The invariant is `LInv /\ KVInv`. `KVInv` says that a sequence finds in its own table the KV
of what it has computed (`DoneIsStored`), where between the model's step and its postprocess
this includes what is not counted yet; that published blocks hold what they are published
under; and how far each sequence is (`ProgressInv`): one waiting in the legacy mode lacks some
tokens even after its chunk, a decode and a running sequence past its prompt lack the last
token. A step stores the KV of each scheduled token into a slot of its own: the
slot's block has one holder, whose table names it once (`NewSlotUnique`), and is not published,
so that neither another sequence's tokens nor a published block are touched (`ExecuteStored`).
A hit is right because the block's hash is the prefix of the tokens that look it up
(`HashedSlot`, `AllocateStored`), a block that is handed out again loses its hash first
(`PublishedFrame`), and a block is published when all of it is stored (`FilledRight`).

The last two theorems assume nothing of the execution. They name configurations that keep
the finding of `split_recompute` from happening, and can be read as advice on how to run the
engine until it is repaired:

* `OneStepEach`: the legacy mode, chunked or not, with `num_prompt_tokens + max_tokens <=
  max_num_batched_tokens + 1` for every request. The first prefill of a step has the whole
  budget and the later ones are only scheduled when they fit (`WholeChunk`), so that nothing
  waits with a part computed (`NothingWaits`), also after a preemption.
* `AmplePool`: continuous batching, whatever its budget cuts, with a pool of `max_num_seqs`
  times the blocks of the largest request. Its at most `max_num_seqs` running sequences
  (`CountInv`) hold all the blocks in use, so that one that needs a block finds it by
  counting places in block tables (`FewerPlaces`, `AlwaysAppends`); nothing is preempted, and
  what is in its prompt has no other tokens yet (`NothingAgain`).

### PD scheduler

`PDSchedulerProofs` proves, for any requests, transfer ids, pool and set of configurations,
P's and D's, with cancels, shutdown, early, late and repeated events, and request ids that
come back,

* `EngineTypes`: `Spec => []TypeOK`, which has the token budget of a step and the
  slots that running and remote requests share;
* `ClaimsAreHeld`: `Spec => []TransfersKeepBlocks`;
* `BlocksHaveLiveOwners`: `Spec => []OnlyLiveRequestsOwnBlocks`;
* `CancelledRequestsStayOut`: `Spec => []CancelledNeverRuns`;
* `AllocationIsAtAdmission`: `Spec => NoLateAllocation`, an action property;
* `HandoffsAreComplete`: `Spec => []HandoffIsComplete`;
* `TokensAreFromFullContext`: `Spec => TokensFromFullContext`, an action property.

`ConfigAssumption`, `IdAssumption` and `LimitAssumption` say that options are positive, that
a missing entry is no request, and that no two sequences have one transfer id (the code takes
a fresh uuid for each). Each property alone is far from inductive: who owns the blocks of a
transfer depends on where its request is in its life, which is spread over two queues, the
request table, the connector's sets, the batch and the allocator. `PDInv` ties these together
by the status of a request (the table at the head of the module):

* `OwnInv`: `PoolInv`; no block has two owners; owners are alive and admitted;
* `EntriesInv`, `LifeInv`: the table has each live request under its id; only a request in
  transfer can be both cancelled and alive;
* `SizeInv`: an admitted request has all blocks it will ever need, in its table or reserved,
  which is why decoding takes none from the queue (`NoLateAllocation`) and why `may_append`
  finds a reserved block;
* `QueueInv`, `BatchInv`: each queue lists the requests of its status once; the loops' rests
  and the batch are parts of the running queue, without cancelled ones;
* `TransferInv`: a transfer is under way exactly while its request is remote or handed off,
  and then names that request and its table;
* `EventInv`: reported transfers have ended, also those reported twice or too late.

A closing engine has no active transfer; a closed one has no request and no queued transfer.
There is one lemma for each kind of step that changes a part, and `NextPDInv` has a case for
each action.

The last two are about the contents of the blocks. `KVInv` (`ComputedIsStored`) adds to
`PDInv` that the slots of each request hold the KV of the tokens it counts as computed; that a
handed off request has computed its whole prompt; that the prompt of a remote request is there
between a report "ok" and its event; and, from the end of a step to `postprocess`, that what
the batch computes is there before it is counted. Every step but `Execute` leaves the cache
alone, and only has to keep tables and counts in line with it. `Execute` stores for the batch
and for the ended transfers at once. Three facts make it right: a store of the batch, or of a
transfer that went well, is the KV of the token whose slot it hits (`BatchWrites`,
`FetchWrites`, the latter from what the descriptors of the claimed blocks read); a slot is that
of one token of one request (`SlotUnique`, from `OwnInv`), so that a failed transfer spoils no
slot but its own; and no slot that is counted afterwards is left out (`AllBatched`,
`AllFetched`).

### Broadcast

`WorkerBroadcastProofs` proves, for any set of workers and any number of calls,
`Spec => []P` for `TypeOK`, `CallsInOrder`, `NoSignalLost` and
`SegmentOutlivesUsers`. The inductive invariant says where every worker stands
relative to rank 0 (`Progress`): between calls it has cleared its event and entered the
last call; while a call is written, and until its event is set, it is exactly one
behind; then it is in one of five stages of taking the call. `Announced` adds what rank 0
has written, `Barriers` what the barriers of start and exit separate.

### Router

`PDRouterProofs` proves `EnginesStopInOrder`, `Spec => []PStopsLast`, for any finite set of
request ids, any number of waves and slots, and any faults. `IInv` adds to `PStopsLast` the
shapes of the variables (`Shape`) and that the router is at its first engine until it
stops, and at its second only when D's process has ended (`InTurn`): a stop command for P
is sent from there only, and once D has ended it stays so.

`WavesAreApart` proves `Spec => []WavesDoNotMix`, likewise. Ids come back with the next wave,
so what separates two waves is only that both engines said "drained". `WaveInv` adds, for
each engine while the router works with it, that its pipes and requests are of this wave
(`Current`), that outside "drain" nobody asked it and it has no answer on the way
(`Undrained`), and that in "drain" the question is behind all its commands, and behind its
answer it delivers nothing (`Drains`).

### Arithmetic

* `CoveredEnginesReplay`: if `max_num_seqs` is at most the largest of the small captured
  sizes, or the number of rows (`max_num_seqs`, at most 512) is a multiple of the stride,
  every decode batch that `run_model` replays has a graph. In the code these are 1 to 8, the
  multiples of 16, and everything from 512 on; 12 and 20 are not among them, and
  the configuration `NoGraph` of `local_scheduler` shows an engine failing for that.
* `DescriptorsStayInside` and `DescriptorsAreDisjoint`: for a cache of any shape and any block
  list that passes the checks of `metadata.py`, the descriptors of a transfer lie within
  the registered memory and do not overlap.
* `EveryExpertHasOneRank`: for any number of experts and any number of ranks that divides it,
  `get_local_expert_range` puts every expert on exactly one rank.

### Experts

`RoutesAreSorted` proves `Spec => []PlanIsSorted` for the specification of `ParallelModel`, for
any number of tokens, experts and ranks. `PlanInv` says, between the scan and the
combination, that the counts are those of the routes (`Counted`), and that a cursor stands
past the start of its expert's slice by the number of lanes of this expert that have run, each
of which holds one of the positions passed (`Placed`). That two lanes never get the same
position, nor one outside their slice, follows from the prefix sums: `CumSumFacts` and
`SumRanges` show that `CumSum` adds up the counts and that its values cut the positions
into consecutive slices. They are inductions over the experts; `UpTo` makes these out of the
well-foundedness of strict inclusion among the subsets of a finite set, as the library's
induction theorems cannot be used here.

`RoutesRunOnce` proves `Spec => []EveryRouteOnce`, also for any size of tiles. The tiles of the
experts follow each other like the slices, so the same lemmas apply to `TilesSum`;
`TileFacts` shows that the grid, made from the capacity alone, has room for all of them
(each expert leaves at most `TileRows - 1` rows of its last tile empty), `TileExpertIs` that a
tile finds its expert, and `OneTile` that a row of a slice is in exactly one tile with work.
`LayerInv` adds to `PlanInv` what the rows hold after each launch (`RowsDone`) and that the sum
has the rows of the ranks that have combined, each of the routes whose expert it has
(`TotalDone`); `EveryExpertHasOneRank` makes these the routes no other rank has.

### Only model-checked

* Liveness (`EveryLoadEnds`, `EveryHandoffEnds`, `EveryRequestEnds`, `EveryRequestFinishes`,
  `EveryCallIsTaken`, `RouterEnds`) is out of the prover's reach, as is ENABLED.
* `BlocksAreWhole` and `LogitsAreWhole` of the sharded model: sums over the shapes of packed
  parameters and over the lengths of a batch, and functions put together tensor by tensor.

## Not modelled, and the plan

In order:

1. that a rank's `weight` is the part of the checkpoint it stands for, the first half of
   `BlocksAreWhole`;
2. the composition of `PDScheduler` and `NixlTransfer`: that what one promises of the worker
   connector's interface is what the other assumes, as a refinement of a common contract;
3. the other modes of the benchmark, and the sizing of the cache at start (`warmup_model`,
   `allocate_kv_cache`).

Left out for good: tensor numerics (normalisation, rotary embedding, sampling, the arithmetic
inside a kernel), file access and the validation of options, the wording of messages,
physical time, the sizes of pickled batches and the capacity of pipes.
