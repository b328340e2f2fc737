---------------------------- MODULE NixlTransfer ----------------------------
(***************************************************************************)
(* The pull transport of nanovllm/distributed/kv_transfer/nixl.py between  *)
(* one prefill engine P and several decode engines, with the part of each  *)
(* engine's scheduler that retains or reserves KV blocks for a transfer.   *)
(*                                                                         *)
(* P publishes the blocks of a finished prompt under a transfer id.  A     *)
(* decode engine acquires a read lease over HTTP, reads the blocks through *)
(* NIXL, lets go of the NIXL handle and only then confirms a release over  *)
(* HTTP.  P frees the blocks when the lease has been released, or when     *)
(* nobody ever claimed it.                                                 *)
(*                                                                         *)
(* Three kinds of threads interleave: the engine loops (start_load_kv,     *)
(* get_finished, the scheduler), P's HTTP handler threads (_control, under *)
(* P's lock) and each D's control pool (_acquire, _ack).  Time is          *)
(* abstract: a deadline that has not been met may pass at any moment.      *)
(***************************************************************************)
EXTENDS Integers, FiniteSets

CONSTANTS
    Transfers,      \* transfer ids: one per handoff attempt, never reused
    Readers,        \* decode engines (an engine id lives for one process)
    NoReader,       \* record['reader'] is None
    PoolSize,       \* control threads of a decode engine (4 in the code)
    Environments    \* what the engines may meet: which handoffs there are, the readers
                    \* whose model and KV layout match P's, and which events of
                    \* "cancel" (a user cancels), "stop" (an engine is shut down),
                    \* "lost" and "late" (a control message is), "crash" (a reader dies)

ASSUME NoReaderAssumption == NoReader \notin Readers
ASSUME PoolSizeAssumption == PoolSize \in Nat \ {0}
ASSUME EnvironmentAssumption ==
    \A e \in Environments :
        /\ e.handoffs \subseteq Transfers /\ e.compatible \subseteq Readers
        /\ e.events \subseteq {"cancel", "stop", "lost", "late", "crash"}

VARIABLES
    environment,    \* one of Environments
    \* the prefill engine
    handed,         \* transfers whose handoff went to the router
    sends,          \* handoffs queued in the connector's commands
    pCancels,       \* cancels queued in the connector's commands
    published,      \* keys of _published
    reader,         \* record['reader'], kept after the record is deleted
    released,       \* keys whose record['released'] was set
    pCancelled,     \* keys whose record['cancelled'] was set
    retained,       \* transfers whose source blocks the scheduler still owns
    pOutcome,       \* the terminal event P's worker reported
    pStatus,        \* "up", "closing", "closed", or "failed" by a raising shutdown
    \* the decode engines, by <<reader, transfer>>
    stage,          \* of the record in _loads; "queued" before, "gone" after
    future,         \* the control task submitted last
    error,          \* record['error'] is set
    handle,         \* state of the NIXL request, "none" without a handle
    landed,         \* the whole prompt KV was copied from retained blocks
    dest,           \* destination blocks: "free", "reserved" or "ready" to run
    dCancels,       \* cancels queued in the connector's commands
    dCancelled,     \* the worker's _cancelled
    aborted,        \* the scheduler's cancelled
    dStatus,        \* as pStatus, or "dead" after a crash
    \* the control channel
    late            \* requests whose client gave up and P has yet to handle

pVars == <<handed, sends, pCancels, published, reader, released, pCancelled, retained,
           pOutcome, pStatus>>
dVars == <<stage, future, error, handle, landed, dest, dCancels, dCancelled,
           aborted, dStatus>>
vars  == <<environment, pVars, dVars, late>>

\* A load is one reader's attempt at one transfer.
Loads     == Readers \X Transfers
Engine(l) == l[1]
Key(l)    == l[2]
Calls     == {"acquire", "release"} \X Loads

Stages    == {"none", "queued", "acquire", "read", "ack", "gone"}
Futures   == {"none", "queued", "idle", "calling", "ok", "error", "failed"}
Handles   == {"none", "PROC", "DONE", "ERR"}
Outcomes  == {"none", "sent", "failed", "cancelled"}

TypeOK ==
    /\ environment \in Environments
    /\ handed \in SUBSET Transfers
    /\ sends \in SUBSET Transfers
    /\ pCancels \in SUBSET Transfers
    /\ published \in SUBSET Transfers
    /\ reader \in [Transfers -> Readers \cup {NoReader}]
    /\ released \in SUBSET Transfers
    /\ pCancelled \in SUBSET Transfers
    /\ retained \in SUBSET Transfers
    /\ pOutcome \in [Transfers -> Outcomes]
    /\ pStatus \in {"up", "closing", "closed", "failed"}
    /\ stage \in [Loads -> Stages]
    /\ future \in [Loads -> Futures]
    /\ error \in SUBSET Loads
    /\ handle \in [Loads -> Handles]
    /\ landed \in SUBSET Loads
    /\ dest \in [Loads -> {"free", "reserved", "ready"}]
    /\ dCancels \in SUBSET Loads
    /\ dCancelled \in SUBSET Loads
    /\ aborted \in SUBSET Loads
    /\ dStatus \in [Readers -> {"up", "closing", "closed", "failed", "dead"}]
    /\ late \in SUBSET Calls

Init ==
    /\ environment \in Environments
    /\ handed = {} /\ sends = {} /\ pCancels = {} /\ published = {}
    /\ reader = [t \in Transfers |-> NoReader]
    /\ released = {} /\ pCancelled = {} /\ retained = {}
    /\ pOutcome = [t \in Transfers |-> "none"]
    /\ pStatus = "up"
    /\ stage = [l \in Loads |-> "none"]
    /\ future = [l \in Loads |-> "none"]
    /\ error = {}
    /\ handle = [l \in Loads |-> "none"]
    /\ landed = {}
    /\ dest = [l \in Loads |-> "free"]
    /\ dCancels = {} /\ dCancelled = {} /\ aborted = {}
    /\ dStatus = [d \in Readers |-> "up"]
    /\ late = {}

-----------------------------------------------------------------------------
(* P: the scheduler and the worker's engine-loop thread.                   *)

\* request_finished: the prompt is computed, its blocks stay retained, the
\* handoff goes to the router and the registration is queued.
RequestFinished(t) ==
    /\ pStatus = "up"
    /\ t \in environment.handoffs \ handed
    /\ handed' = handed \cup {t}
    /\ retained' = retained \cup {t}
    /\ sends' = sends \cup {t}
    /\ UNCHANGED <<environment, pCancels, published, reader, released, pCancelled,
                   pOutcome, pStatus, dVars, late>>

\* cancel_request of a pending handoff only queues the cancel.
PCancel(t) ==
    /\ "cancel" \in environment.events
    /\ pStatus = "up"
    /\ t \in retained /\ t \notin pCancels \cup pCancelled
    /\ pCancels' = pCancels \cup {t}
    /\ UNCHANGED <<environment, handed, sends, published, reader, released, pCancelled,
                   retained, pOutcome, pStatus, dVars, late>>

\* start_load_kv: publish the queued handoffs, then mark the cancelled ones.
PStartLoadKV ==
    /\ pStatus = "up"
    /\ sends \cup pCancels # {}
    /\ published' = published \cup sends
    /\ pCancelled' = pCancelled \cup (pCancels \cap published')
    /\ sends' = {} /\ pCancels' = {}
    /\ UNCHANGED <<environment, handed, reader, released, retained, pOutcome, pStatus,
                   dVars, late>>

\* Mutant of Unclaimed: the deadline ends a claimed record too.
UnclaimedOrNot == published

Unclaimed == {t \in published : reader[t] = NoReader}

\* Mutant of Ended: a cancel ends a claimed record too.
EndedByCancel(expired) ==
    (published \cap released) \cup expired \cup (published \cap pCancelled)

\* The records get_finished deletes when the deadlines of `expired` are over.
Ended(expired) ==
    (published \cap released) \cup expired \cup (Unclaimed \cap pCancelled)

ReportP(t, expired) ==
    IF t \in pCancelled THEN "cancelled"
    ELSE IF t \in expired THEN "failed" ELSE "sent"

\* get_finished, P's loop, under the lock; while up, the scheduler frees the
\* source blocks of every event in the same step (update_connector_output).
PGetFinished ==
    /\ pStatus \in {"up", "closing"}
    /\ \E expired \in SUBSET Unclaimed :
         LET ended == Ended(expired) IN
         /\ ended # {}
         /\ published' = published \ ended
         /\ IF pStatus = "up"
            THEN /\ pOutcome' = [t \in Transfers |->
                        IF t \in ended THEN ReportP(t, expired) ELSE pOutcome[t]]
                 /\ retained' = retained \ ended
            ELSE UNCHANGED <<pOutcome, retained>>
    /\ UNCHANGED <<environment, handed, sends, pCancels, reader, released, pCancelled,
                   pStatus, dVars, late>>

\* shutdown: cancel everything, then drive get_finished ...
PShutdown ==
    /\ "stop" \in environment.events
    /\ pStatus = "up"
    /\ pStatus' = "closing"
    /\ pCancelled' = pCancelled \cup published
    /\ UNCHANGED <<environment, handed, sends, pCancels, published, reader, released,
                   retained, pOutcome, dVars, late>>

\* ... until nothing is published: the server stops, the memory is
\* unregistered and the scheduler takes all its blocks back ...
PClosed ==
    /\ pStatus = "closing"
    /\ published = {}
    /\ pStatus' = "closed"
    /\ retained' = {} /\ sends' = {} /\ pCancels' = {}
    /\ UNCHANGED <<environment, handed, published, reader, released, pCancelled,
                   pOutcome, dVars, late>>

\* ... or until the deadline, when it raises and reclaims nothing.
PShutdownRaises ==
    /\ pStatus = "closing"
    /\ published # {}
    /\ pStatus' = "failed"
    /\ UNCHANGED <<environment, handed, sends, pCancels, published, reader, released,
                   pCancelled, retained, pOutcome, dVars, late>>

-----------------------------------------------------------------------------
(* P's HTTP handler threads: _control, under the lock.                     *)

Serving == pStatus # "closed"

\* Mutant of AcquireReply: who claimed the record does not matter.
AcquireReplyAnyone(l) ==
    IF Key(l) \notin published THEN "wait"
    ELSE IF Key(l) \in released \cup pCancelled \/ Engine(l) \notin environment.compatible
         THEN "error"
         ELSE "ok"

AcquireReply(l) ==
    IF Key(l) \notin published THEN "wait"
    ELSE IF \/ Key(l) \in released \cup pCancelled
            \/ reader[Key(l)] \notin {NoReader, Engine(l)}
            \/ Engine(l) \notin environment.compatible
         THEN "error"
         ELSE "ok"

\* Mutant of Control: a cancelled record takes no release.
ControlCancelled(op, l) ==
    /\ reader' = IF op = "acquire" /\ AcquireReply(l) = "ok"
                 THEN [reader EXCEPT ![Key(l)] = Engine(l)] ELSE reader
    /\ released' = IF /\ op = "release" /\ Key(l) \in published \ pCancelled
                      /\ reader[Key(l)] = Engine(l)
                   THEN released \cup {Key(l)} ELSE released

\* What _control changes in P's record.
Control(op, l) ==
    /\ reader' = IF op = "acquire" /\ AcquireReply(l) = "ok"
                 THEN [reader EXCEPT ![Key(l)] = Engine(l)] ELSE reader
    /\ released' = IF op = "release" /\ Key(l) \in published /\ reader[Key(l)] = Engine(l)
                   THEN released \cup {Key(l)} ELSE released

pUncontrolled == <<handed, sends, pCancels, published, pCancelled, retained, pOutcome,
                   pStatus>>

\* A request its client still waits for: the answer arrives, or is lost and
\* the client tries again.
Answer(l, op, result) ==
    /\ Serving
    /\ future[l] = "calling"
    /\ Control(op, l)
    /\ \/ future' = [future EXCEPT ![l] = result]
       \/ /\ "lost" \in environment.events
          /\ future' = [future EXCEPT ![l] = "idle"]
    /\ UNCHANGED <<environment, pUncontrolled, stage, error, handle, landed, dest,
                   dCancels, dCancelled, aborted, dStatus, late>>

HandleAcquire(l) ==
    /\ stage[l] = "acquire"
    /\ Answer(l, "acquire",
              IF AcquireReply(l) = "wait" THEN "idle" ELSE AcquireReply(l))

\* Mutant of HandleRelease: answered like an acquire that has to wait.
HandleReleaseWaits(l) ==
    /\ stage[l] = "ack"
    /\ Answer(l, "release", "wait")

HandleRelease(l) ==
    /\ stage[l] = "ack"
    /\ Answer(l, "release", "ok")

\* A handler thread gets to a request whose client has given up on it.
HandleLate(op, l) ==
    /\ Serving
    /\ <<op, l>> \in late
    /\ Control(op, l)
    /\ late' = late \ {<<op, l>>}
    /\ UNCHANGED <<environment, pUncontrolled, dVars>>

-----------------------------------------------------------------------------
(* D's control pool: the loops of _acquire and _ack.                       *)

dUncontrolled == <<stage, error, handle, landed, dest, dCancels, dCancelled,
                   aborted, dStatus>>

Alive(d) == dStatus[d] \in {"up", "closing", "failed"}

LoadsOf(d) == {d} \X Transfers

Running(d) == {l \in LoadsOf(d) : future[l] \in {"idle", "calling"}}

\* A pool thread takes a task.  The pool is first-in first-out; any order is
\* allowed here, and fairness keeps a queued task from waiting forever.
StartTask(l) ==
    /\ Alive(Engine(l))
    /\ future[l] = "queued"
    /\ Cardinality(Running(Engine(l))) < PoolSize
    /\ future' = [future EXCEPT ![l] = "idle"]
    /\ UNCHANGED <<environment, pVars, dUncontrolled, late>>

\* _rpc: the request leaves.
Call(l) ==
    /\ Alive(Engine(l))
    /\ future[l] = "idle"
    /\ future' = [future EXCEPT ![l] = "calling"]
    /\ UNCHANGED <<environment, pVars, dUncontrolled, late>>

\* The call fails: nobody listens, or the client's timeout fires first.  The
\* request is then dropped, or stays with a handler thread of P.
CallFails(l) ==
    /\ Alive(Engine(l))
    /\ future[l] = "calling"
    /\ future' = [future EXCEPT ![l] = "idle"]
    /\ \/ /\ ~Serving \/ "lost" \in environment.events
          /\ UNCHANGED late
       \/ /\ "late" \in environment.events
          /\ late' = late \cup
               {<<IF stage[l] = "acquire" THEN "acquire" ELSE "release", l>>}
    /\ UNCHANGED <<environment, pVars, dUncontrolled>>

\* The loop finds its deadline passed: _acquire returns an error, _ack raises.
GiveUp(l) ==
    /\ Alive(Engine(l))
    /\ future[l] = "idle"
    /\ future' = [future EXCEPT ![l] =
                     IF stage[l] = "acquire" THEN "error" ELSE "failed"]
    /\ UNCHANGED <<environment, pVars, dUncontrolled, late>>

-----------------------------------------------------------------------------
(* D: the scheduler and the worker's engine-loop thread.                   *)

\* update_state_after_alloc: destination blocks reserved, the load queued.
\* Any decode engine may have been given the handoff.
Admit(l) ==
    /\ dStatus[Engine(l)] = "up"
    /\ stage[l] = "none"
    /\ Key(l) \in handed
    /\ stage' = [stage EXCEPT ![l] = "queued"]
    /\ dest' = [dest EXCEPT ![l] = "reserved"]
    /\ UNCHANGED <<environment, pVars, future, error, handle, landed, dCancels,
                   dCancelled, aborted, dStatus, late>>

\* Mutant of DCancel: the destination blocks are freed at once.
DCancelAtOnce(l) ==
    /\ "cancel" \in environment.events
    /\ dStatus[Engine(l)] = "up"
    /\ stage[l] \notin {"none", "gone"} /\ l \notin aborted
    /\ aborted' = aborted \cup {l}
    /\ dCancels' = dCancels \cup {l}
    /\ dest' = [dest EXCEPT ![l] = "free"]
    /\ UNCHANGED <<environment, pVars, stage, future, error, handle, landed, dCancelled,
                   dStatus, late>>

\* cancel_request of a pending load only queues the cancel.
DCancel(l) ==
    /\ "cancel" \in environment.events
    /\ dStatus[Engine(l)] = "up"
    /\ stage[l] \notin {"none", "gone"} /\ l \notin aborted
    /\ aborted' = aborted \cup {l}
    /\ dCancels' = dCancels \cup {l}
    /\ UNCHANGED <<environment, pVars, stage, future, error, handle, landed, dest,
                   dCancelled, dStatus, late>>

\* start_load_kv: submit an acquire for each queued load, record the cancels.
DStartLoadKV(d) ==
    /\ dStatus[d] = "up"
    /\ LET loads == {l \in LoadsOf(d) : stage[l] = "queued"} IN
       /\ loads \cup (dCancels \cap LoadsOf(d)) # {}
       /\ stage' = [l \in Loads |-> IF l \in loads THEN "acquire" ELSE stage[l]]
       /\ future' = [l \in Loads |-> IF l \in loads THEN "queued" ELSE future[l]]
    /\ dCancelled' = dCancelled \cup (dCancels \cap LoadsOf(d))
    /\ dCancels' = dCancels \ LoadsOf(d)
    /\ UNCHANGED <<environment, pVars, error, handle, landed, dest, aborted, dStatus,
                   late>>

Polling(d) == dStatus[d] \in {"up", "closing"}

\* _finish_read, and its second call from the except clause: the handle is
\* released (at once, or after a first attempt that raised and left an error)
\* and the ack submitted, or both attempts raise and everything is retained.
\* `failing` is the error known before the first attempt.
FinishRead(l, failing) ==
    LET raises == handle[l] \in {"PROC", "ERR"} IN
    \/ /\ handle' = [handle EXCEPT ![l] = "none"]
       /\ stage' = [stage EXCEPT ![l] = "ack"]
       /\ future' = [future EXCEPT ![l] = "queued"]
       /\ \/ error' = IF failing THEN error \cup {l} ELSE error
          \/ raises /\ error' = error \cup {l}
    \/ /\ raises
       /\ error' = error \cup {l}
       /\ UNCHANGED <<handle, stage, future>>

dUnread == <<landed, dest, dCancels, dCancelled, aborted, dStatus>>

\* Mutant of AbandonAcquire: a failed acquire needs no release.
AbandonAcquireSilently(l) ==
    /\ Polling(Engine(l))
    /\ stage[l] = "acquire" /\ future[l] = "error"
    /\ stage' = [stage EXCEPT ![l] = "gone"]
    /\ error' = error \cup {l}
    /\ dest' = [dest EXCEPT ![l] = "free"]
    /\ UNCHANGED <<environment, pVars, future, handle, landed, dCancels, dCancelled,
                   aborted, dStatus, late>>

\* get_finished on a record whose acquire is over but may not be read.
AbandonAcquire(l) ==
    /\ Polling(Engine(l))
    /\ stage[l] = "acquire" /\ future[l] \in {"ok", "error"}
    /\ \/ future[l] = "error"
       \/ l \in error
       \/ l \in dCancelled
    /\ FinishRead(l, l \in error \/ future[l] = "error")
    /\ UNCHANGED <<environment, pVars, dUnread, late>>

MayBeginRead(l) ==
    /\ Polling(Engine(l))
    /\ stage[l] = "acquire" /\ future[l] = "ok"
    /\ l \notin error \cup dCancelled

\* _begin_read: the NIXL READ is posted.
BeginRead(l) ==
    /\ MayBeginRead(l)
    /\ handle' = [handle EXCEPT ![l] = "PROC"]
    /\ stage' = [stage EXCEPT ![l] = "read"]
    /\ UNCHANGED <<environment, pVars, future, error, dUnread, late>>

\* _begin_read raises: before it has a handle, or after the submission failed.
\* The except clause calls _finish_read once, which may raise in turn.
BeginReadRaises(l) ==
    /\ MayBeginRead(l)
    /\ error' = error \cup {l}
    /\ \/ /\ stage' = [stage EXCEPT ![l] = "ack"]
          /\ future' = [future EXCEPT ![l] = "queued"]
          /\ UNCHANGED handle
       \/ /\ handle' = [handle EXCEPT ![l] = "ERR"]
          /\ UNCHANGED <<stage, future>>
    /\ UNCHANGED <<environment, pVars, dUnread, late>>

\* get_finished on a record being read: a finished, failed, timed out or
\* cancelled READ is ended; any other is left alone until the next step.
PollRead(l) ==
    /\ Polling(Engine(l))
    /\ stage[l] = "read"
    /\ \E timedOut \in BOOLEAN :
         LET failing == l \in error \/ handle[l] = "ERR" \/ timedOut IN
         /\ handle[l] # "PROC" \/ failing \/ l \in dCancelled
         /\ FinishRead(l, failing)
    /\ UNCHANGED <<environment, pVars, dUnread, late>>

\* Mutant of Outcome: an error noted before the ack is forgotten.
OutcomeOfAck(l) ==
    IF future[l] = "failed" THEN "failed"
    ELSE IF l \in dCancelled THEN "cancelled" ELSE "received"

Outcome(l) ==
    IF future[l] = "failed" THEN "failed"
    ELSE IF l \in dCancelled THEN "cancelled"
         ELSE IF l \in error THEN "failed" ELSE "received"

\* Mutant of ReportLoad: an ack that failed is not reported.
ReportLoadConfirmed(l) ==
    /\ Polling(Engine(l))
    /\ stage[l] = "ack" /\ future[l] = "ok"
    /\ stage' = [stage EXCEPT ![l] = "gone"]
    /\ dCancelled' = dCancelled \ {l}
    /\ IF dStatus[Engine(l)] = "up"
       THEN /\ dest' = [dest EXCEPT ![l] =
                  IF Outcome(l) = "received" /\ l \notin aborted
                  THEN "ready" ELSE "free"]
            /\ aborted' = aborted \ {l}
       ELSE UNCHANGED <<dest, aborted>>
    /\ UNCHANGED <<environment, pVars, future, error, handle, landed, dCancels, dStatus,
                   late>>

\* get_finished on a record whose ack is over: report it and forget it; while
\* up, the scheduler starts the request or frees the destination blocks.
ReportLoad(l) ==
    /\ Polling(Engine(l))
    /\ stage[l] = "ack" /\ future[l] \in {"ok", "failed"}
    /\ stage' = [stage EXCEPT ![l] = "gone"]
    /\ dCancelled' = dCancelled \ {l}
    /\ IF dStatus[Engine(l)] = "up"
       THEN /\ dest' = [dest EXCEPT ![l] =
                  IF Outcome(l) = "received" /\ l \notin aborted
                  THEN "ready" ELSE "free"]
            /\ aborted' = aborted \ {l}
       ELSE UNCHANGED <<dest, aborted>>
    /\ UNCHANGED <<environment, pVars, future, error, handle, landed, dCancels, dStatus,
                   late>>

Pending(d) == {l \in LoadsOf(d) : stage[l] \in {"acquire", "read", "ack"}}

dUncrashed == <<stage, error, handle, landed, dest, dCancels, dCancelled, aborted>>

DShutdown(d) ==
    /\ "stop" \in environment.events
    /\ dStatus[d] = "up"
    /\ dStatus' = [dStatus EXCEPT ![d] = "closing"]
    /\ dCancelled' = dCancelled \cup Pending(d)
    /\ UNCHANGED <<environment, pVars, stage, future, error, handle, landed, dest,
                   dCancels, aborted, late>>

\* Mutant of DClosed: loads under way are not waited for.
DClosedEarly(d) ==
    /\ dStatus[d] = "closing"
    /\ dStatus' = [dStatus EXCEPT ![d] = "closed"]
    /\ dest' = [l \in Loads |-> IF l \in LoadsOf(d) THEN "free" ELSE dest[l]]
    /\ dCancels' = dCancels \ LoadsOf(d)
    /\ aborted' = aborted \ LoadsOf(d)
    /\ UNCHANGED <<environment, pVars, stage, future, error, handle, landed, dCancelled,
                   late>>

DClosed(d) ==
    /\ dStatus[d] = "closing"
    /\ Pending(d) = {}
    /\ dStatus' = [dStatus EXCEPT ![d] = "closed"]
    /\ dest' = [l \in Loads |-> IF l \in LoadsOf(d) THEN "free" ELSE dest[l]]
    /\ dCancels' = dCancels \ LoadsOf(d)
    /\ aborted' = aborted \ LoadsOf(d)
    /\ UNCHANGED <<environment, pVars, stage, future, error, handle, landed, dCancelled,
                   late>>

DShutdownRaises(d) ==
    /\ dStatus[d] = "closing"
    /\ Pending(d) # {}
    /\ dStatus' = [dStatus EXCEPT ![d] = "failed"]
    /\ UNCHANGED <<environment, pVars, dUncrashed, future, late>>

\* The process dies; what NIXL still does with its memory is not assumed.
DCrash(d) ==
    /\ "crash" \in environment.events
    /\ dStatus[d] # "closed" /\ dStatus[d] # "dead"
    /\ dStatus' = [dStatus EXCEPT ![d] = "dead"]
    /\ UNCHANGED <<environment, pVars, dUncrashed, future, late>>

\* NIXL, external: a posted READ completes or fails by itself.  What it copied
\* is the prompt's KV only if P still retains the blocks.
ReadCompletes(l) ==
    /\ handle[l] = "PROC"
    /\ handle' = [handle EXCEPT ![l] = "DONE"]
    /\ landed' = IF Key(l) \in retained THEN landed \cup {l} ELSE landed
    /\ UNCHANGED <<environment, pVars, stage, future, error, dest, dCancels, dCancelled,
                   aborted, dStatus, late>>

ReadFails(l) ==
    /\ handle[l] = "PROC"
    /\ handle' = [handle EXCEPT ![l] = "ERR"]
    /\ UNCHANGED <<environment, pVars, stage, future, error, landed, dest, dCancels,
                   dCancelled, aborted, dStatus, late>>

-----------------------------------------------------------------------------
PStep ==
    \/ \E t \in Transfers : RequestFinished(t) \/ PCancel(t)
    \/ PStartLoadKV \/ PGetFinished
    \/ PShutdown \/ PClosed \/ PShutdownRaises

LoadStep(l) ==
    \/ HandleAcquire(l) \/ HandleRelease(l)
    \/ \E op \in {"acquire", "release"} : HandleLate(op, l)
    \/ StartTask(l) \/ Call(l) \/ CallFails(l) \/ GiveUp(l)
    \/ Admit(l) \/ DCancel(l)
    \/ AbandonAcquire(l) \/ BeginRead(l) \/ BeginReadRaises(l)
    \/ PollRead(l) \/ ReportLoad(l)
    \/ ReadCompletes(l) \/ ReadFails(l)

EngineStep(d) == DStartLoadKV(d) \/ DShutdown(d) \/ DClosed(d) \/ DShutdownRaises(d)
                 \/ DCrash(d)

\* Once P has closed and every reader stopped there is nothing left to do.
Next ==
    \/ PStep
    \/ \E d \in Readers : EngineStep(d)
    \/ \E l \in Loads : LoadStep(l)

Spec == Init /\ [][Next]_vars

(* Fairness: each engine loop keeps stepping while it has pending work     *)
(* (has_pending_work keeps is_finished false), each thread keeps running,  *)
(* time passes, and NIXL completes, fails or at last cancels what it was   *)
(* given.  Shutting down, cancelling, losing and delaying are never owed.  *)
Fairness ==
    /\ WF_vars(PStartLoadKV) /\ WF_vars(PGetFinished)
    /\ \A d \in Readers : WF_vars(DStartLoadKV(d))
    /\ \A l \in Loads :
         /\ SF_vars(StartTask(l)) /\ WF_vars(Call(l))
         /\ WF_vars(HandleAcquire(l) \/ HandleRelease(l) \/ CallFails(l))
         /\ SF_vars(GiveUp(l))
         /\ WF_vars(ReadCompletes(l) \/ ReadFails(l))
         /\ WF_vars(BeginRead(l) \/ BeginReadRaises(l))
         /\ SF_vars((AbandonAcquire(l) \/ PollRead(l)) /\ stage'[l] = "ack")
         /\ WF_vars(ReportLoad(l))

FairSpec == Spec /\ Fairness

-----------------------------------------------------------------------------
(* Properties                                                              *)

\* No READ touches blocks that P took back: as long as a reader has a NIXL
\* handle, P retains the source blocks under a live lease of that reader.
\* (get_finished deletes a claimed record only once it was released, and
\* _finish_read submits the release only when the handle is gone.)
LeaseSafety ==
    \A l \in Loads : handle[l] # "none" =>
        /\ Key(l) \in retained \cap published
        /\ reader[Key(l)] = Engine(l) /\ Key(l) \notin released

\* No READ writes into blocks D gave away or is computing on: the destination
\* stays reserved for the load as long as NIXL holds a handle, whatever was
\* cancelled, timed out or failed meanwhile.
DestinationSafety ==
    \A l \in Loads : handle[l] # "none" => dest[l] = "reserved"

\* A request starts on received KV only if the whole prompt was copied from
\* blocks P still retained, and no error was noted on the way.
ReceivedIsComplete ==
    \A l \in Loads : dest[l] = "ready" => l \in landed \ error

\* The two ends never disagree about a read that took place: if D computes on
\* the KV of t, P has not reported t as expired without a reader, and if P
\* reported t as sent, its reader is past the READ.
AgreedOutcome ==
    \A l \in Loads :
        /\ dest[l] = "ready" => pOutcome[Key(l)] # "failed"
        /\ pOutcome[Key(l)] = "sent" /\ reader[Key(l)] = Engine(l) => stage[l] \in {"ack", "gone"}

\* WorkerConnector.shutdown: an engine unregisters its KV cache only when no
\* transfer can reach it, not even one of a dead or failed peer.
QuietAfterClose ==
    /\ pStatus = "closed" => \A l \in Loads : handle[l] = "none"
    /\ \A d \in Readers : dStatus[d] = "closed" =>
          \A l \in LoadsOf(d) : handle[l] = "none" /\ dest[l] = "free"

\* The peer cannot confirm the release of a lease it may hold: it is dead or
\* failed to shut down, or its ack gave up unconfirmed.
PeerLost(l) ==
    \/ dStatus[Engine(l)] \in {"failed", "dead"}
    \/ stage[l] = "gone" /\ future[l] = "failed"

\* Only a dead peer or a lost release confirmation retains P's blocks: a load
\* that ended with a confirmed release leaves no lease behind.
RetainedOnlyIfPeerLost ==
    \A l \in Loads :
        Key(l) \in published \ released /\ reader[Key(l)] = Engine(l) /\ stage[l] = "gone"
        => PeerLost(l)

\* Every load D submitted ends, whatever P or the network does, unless D's own
\* engine is shut down or dies; no task waits forever for a pool thread.
EveryLoadEnds ==
    \A l \in Loads :
        stage[l] = "acquire" ~> stage[l] = "gone" \/ dStatus[Engine(l)] # "up"

\* P gets the blocks of every published handoff back, unless P shuts down or
\* the reader that claimed it is lost.
EveryHandoffEnds ==
    \A t \in Transfers :
        t \in published ~> \/ t \notin published
                           \/ pStatus # "up"
                           \/ \E l \in Loads :
                                Key(l) = t /\ reader[t] = Engine(l) /\ PeerLost(l)

\* NixlTransfer implements the lease: its retained blocks, the reader a record
\* was claimed by and the handles NIXL holds go through the steps of KVLease.
LeaseSource == [t \in Transfers |-> IF t \notin handed THEN "computing"
                                    ELSE IF t \in retained THEN "retained" ELSE "freed"]
LeaseReading == {l \in Loads : handle[l] # "none"}

Lease == INSTANCE KVLease WITH
    source <- LeaseSource, granted <- reader, reading <- LeaseReading

ImplementsLease == Lease!LeaseSpec
=============================================================================
