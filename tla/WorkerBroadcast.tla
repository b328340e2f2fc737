--------------------------- MODULE WorkerBroadcast ---------------------------
(***************************************************************************)
(* Tensor parallelism in nanovllm/engine/model_runner.py: rank 0 writes    *)
(* each method call into one shared buffer and sets an event per worker    *)
(* (write_shm, call); each worker waits for its event, reads the buffer,   *)
(* clears the event and makes the same call (read_shm, loop).              *)
(*                                                                         *)
(* Nothing in the buffer says that it was read.  What keeps rank 0 from    *)
(* overwriting a call is that it gets the tokens of a step only when every *)
(* worker has entered the collectives of that step, which NCCL (external)  *)
(* matches across the ranks.  Calls are numbered in the order of issue.    *)
(***************************************************************************)
EXTENDS Integers

CONSTANTS
    Workers,        \* the ranks but 0
    MaxCalls        \* bound: calls of rank 0, "exit" included

ASSUME BoundAssumption == MaxCalls \in Nat

VARIABLES
    pc,             \* rank 0: "start", "barrier", "idle", "write", "signal", "run",
                    \* "closing", "unlink", "join", "done"
    issued,         \* calls rank 0 has made
    exiting,        \* whether the last of them is exit
    shm,            \* the segment: "none", "linked", "unlinked"
    buffer,         \* the call in it; Torn while it is being written
    unsignalled,    \* the workers whose event rank 0 has yet to set
    event,          \* the workers whose event is set
    wpc,            \* each worker: "start", "barrier", "open", "wait", "read",
                    \* "clear", "call", "closing", "done"
    seen,           \* the call whose length it has read
    got,            \* the call it has unpickled last
    reads,          \* how many calls it has taken
    ran             \* the last call whose collectives it has entered

rank0Vars  == <<pc, issued, exiting, shm, buffer, unsignalled>>
workerVars == <<wpc, seen, got, reads, ran>>
vars == <<rank0Vars, event, workerVars>>

Torn  == -1
Calls == 0 .. MaxCalls

TypeOK ==
    /\ pc \in {"start", "barrier", "idle", "write", "signal", "run", "closing", "unlink",
               "join", "done"}
    /\ issued \in Calls /\ exiting \in BOOLEAN
    /\ shm \in {"none", "linked", "unlinked"}
    /\ buffer \in Calls \cup {Torn}
    /\ unsignalled \subseteq Workers /\ event \subseteq Workers
    /\ wpc \in [Workers -> {"start", "barrier", "open", "wait", "read", "clear", "call",
                            "closing", "done"}]
    /\ seen \in [Workers -> Calls \cup {Torn}] /\ got \in [Workers -> Calls \cup {Torn}]
    /\ reads \in [Workers -> Calls] /\ ran \in [Workers -> Calls \cup {Torn}]

Init ==
    /\ pc = "start" /\ issued = 0 /\ exiting = FALSE
    /\ shm = "none" /\ buffer = 0 /\ unsignalled = {} /\ event = {}
    /\ wpc = [w \in Workers |-> "start"]
    /\ seen = [w \in Workers |-> 0] /\ got = [w \in Workers |-> 0]
    /\ reads = [w \in Workers |-> 0] /\ ran = [w \in Workers |-> 0]

-----------------------------------------------------------------------------
(* Rank 0 *)

\* The segment is created before the barrier.
CreateShm ==
    /\ pc = "start"
    /\ pc' = "barrier" /\ shm' = "linked"
    /\ UNCHANGED <<issued, exiting, buffer, unsignalled, event, workerVars>>

LeaveStart ==
    /\ pc = "barrier" /\ \A w \in Workers : wpc[w] # "start"
    /\ pc' = "idle"
    /\ UNCHANGED <<issued, exiting, shm, buffer, unsignalled, event, workerVars>>

\* call("execute_step", ...) or call("exit"): write_shm begins to write.
Call(exit) ==
    /\ pc = "idle" /\ issued < MaxCalls
    /\ pc' = "write"
    /\ issued' = issued + 1 /\ exiting' = exit
    /\ buffer' = Torn
    /\ UNCHANGED <<shm, unsignalled, event, workerVars>>

\* Mutant of EndWrite: rank 0 makes exit without telling the workers.
EndWriteExitUnsent ==
    /\ pc = "write"
    /\ pc' = "signal"
    /\ buffer' = issued /\ unsignalled' = IF exiting THEN {} ELSE Workers
    /\ UNCHANGED <<issued, exiting, shm, event, workerVars>>

EndWrite ==
    /\ pc = "write"
    /\ pc' = "signal"
    /\ buffer' = issued /\ unsignalled' = Workers
    /\ UNCHANGED <<issued, exiting, shm, event, workerVars>>

SetEvent(w) ==
    /\ pc = "signal" /\ w \in unsignalled
    /\ event' = event \cup {w}
    /\ unsignalled' = unsignalled \ {w}
    /\ UNCHANGED <<pc, issued, exiting, shm, buffer, workerVars>>

\* Rank 0 makes the call itself; exit closes the segment and enters a barrier.
EndSignal ==
    /\ pc = "signal" /\ unsignalled = {}
    /\ pc' = IF exiting THEN "closing" ELSE "run"
    /\ UNCHANGED <<issued, exiting, shm, buffer, unsignalled, event, workerVars>>

\* Mutant of StepDone: rank 0 does not wait for the tokens.
StepDoneAtOnce == TRUE

\* The tokens are there: the last collective, the gather of the logits, needed
\* every rank.
StepDone == \A w \in Workers : ran[w] = issued

FinishStep ==
    /\ pc = "run" /\ StepDone
    /\ pc' = "idle"
    /\ UNCHANGED <<issued, exiting, shm, buffer, unsignalled, event, workerVars>>

\* Mutant of LeaveExit: rank 0 does not wait in the barrier.
LeaveExitAtOnce ==
    /\ pc = "closing"
    /\ pc' = "unlink"
    /\ UNCHANGED <<issued, exiting, shm, buffer, unsignalled, event, workerVars>>

LeaveExit ==
    /\ pc = "closing" /\ \A w \in Workers : wpc[w] \in {"closing", "done"}
    /\ pc' = "unlink"
    /\ UNCHANGED <<issued, exiting, shm, buffer, unsignalled, event, workerVars>>

Unlink ==
    /\ pc = "unlink"
    /\ pc' = "join" /\ shm' = "unlinked"
    /\ UNCHANGED <<issued, exiting, buffer, unsignalled, event, workerVars>>

Join ==
    /\ pc = "join" /\ \A w \in Workers : wpc[w] = "done"
    /\ pc' = "done"
    /\ UNCHANGED <<issued, exiting, shm, buffer, unsignalled, event, workerVars>>

Rank0Step ==
    \/ CreateShm \/ LeaveStart \/ EndWrite \/ EndSignal \/ FinishStep
    \/ LeaveExit \/ Unlink \/ Join
    \/ \E w \in Workers : SetEvent(w)

-----------------------------------------------------------------------------
(* Worker w *)

Goes(w, from, to) == wpc[w] = from /\ wpc' = [wpc EXCEPT ![w] = to]

Arrive(w) ==
    /\ Goes(w, "start", "barrier")
    /\ UNCHANGED <<rank0Vars, event, seen, got, reads, ran>>

LeaveWorker(w) ==
    /\ Goes(w, "barrier", "open")
    /\ pc # "start" /\ \A v \in Workers : wpc[v] # "start"
    /\ UNCHANGED <<rank0Vars, event, seen, got, reads, ran>>

Open(w) ==
    /\ Goes(w, "open", "wait")
    /\ UNCHANGED <<rank0Vars, event, seen, got, reads, ran>>

\* The event is set; the length of the call is read ...
Wake(w) ==
    /\ w \in event
    /\ Goes(w, "wait", "read")
    /\ seen' = [seen EXCEPT ![w] = buffer]
    /\ UNCHANGED <<rank0Vars, event, got, reads, ran>>

\* ... and so many bytes of the call.
Read(w) ==
    /\ Goes(w, "read", "clear")
    /\ got' = [got EXCEPT ![w] = IF buffer = seen[w] THEN buffer ELSE Torn]
    /\ reads' = [reads EXCEPT ![w] = @ + 1]
    /\ UNCHANGED <<rank0Vars, event, seen, ran>>

\* Mutant of Clear: the event stays set.
ClearNothing(w) ==
    /\ Goes(w, "clear", "call")
    /\ UNCHANGED <<rank0Vars, event, seen, got, reads, ran>>

Clear(w) ==
    /\ Goes(w, "clear", "call")
    /\ event' = event \ {w}
    /\ UNCHANGED <<rank0Vars, seen, got, reads, ran>>

IsExit(w) == exiting /\ got[w] = issued

\* The worker's part of a step; it does not wait for its result.
Execute(w) ==
    /\ Goes(w, "call", "wait") /\ ~IsExit(w)
    /\ ran' = [ran EXCEPT ![w] = got[w]]
    /\ UNCHANGED <<rank0Vars, event, seen, got, reads>>

\* exit: the worker closes the segment and enters the barrier.
Close(w) ==
    /\ Goes(w, "call", "closing") /\ IsExit(w)
    /\ UNCHANGED <<rank0Vars, event, seen, got, reads, ran>>

Exit(w) ==
    /\ Goes(w, "closing", "done")
    /\ pc \in {"closing", "unlink", "join"}
    /\ \A v \in Workers : wpc[v] \in {"closing", "done"}
    /\ UNCHANGED <<rank0Vars, event, seen, got, reads, ran>>

WorkerStep(w) ==
    \/ Arrive(w) \/ LeaveWorker(w) \/ Open(w)
    \/ Wake(w) \/ Read(w) \/ Clear(w) \/ Execute(w) \/ Close(w) \/ Exit(w)

Next ==
    \/ Rank0Step
    \/ \E exit \in BOOLEAN : Call(exit)
    \/ \E w \in Workers : WorkerStep(w)

Spec == Init /\ [][Next]_vars

\* Every process goes on with what it does; rank 0 need not call.
FairSpec == Spec /\ WF_vars(Rank0Step) /\ \A w \in Workers : WF_vars(WorkerStep(w))

-----------------------------------------------------------------------------
(* Properties                                                              *)

\* The n-th call a worker takes is the n-th call of rank 0, and whole: no call is
\* lost, made twice, or read while it is overwritten, although a worker may
\* still be busy with one step when rank 0 has finished it.
CallsInOrder ==
    \A w \in Workers : wpc[w] \in {"clear", "call", "wait"} => got[w] = reads[w]

\* An event is cleared for the call it was set for: rank 0 never sets it again
\* between a worker's read and its clear, which would lose the next call.
NoSignalLost == \A w \in Workers : wpc[w] \in {"read", "clear"} => issued = reads[w] +
                    IF wpc[w] = "read" THEN 1 ELSE 0

\* The segment exists from before the first worker opens it until after the last
\* has closed it.
SegmentOutlivesUsers ==
    \A w \in Workers : wpc[w] \in {"open", "wait", "read", "clear", "call"} => shm = "linked"

\* Every call reaches every worker, and after exit all processes end.
EveryCallIsTaken ==
    /\ \A n \in 1 .. MaxCalls : issued >= n ~> \A w \in Workers : reads[w] >= n
    /\ exiting ~> pc = "done" /\ \A w \in Workers : wpc[w] = "done"
=============================================================================
