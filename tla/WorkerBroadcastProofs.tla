------------------------ MODULE WorkerBroadcastProofs ------------------------
(***************************************************************************)
(* The safety of WorkerBroadcast for any set of workers and any number of  *)
(* calls.                                                                  *)
(*                                                                         *)
(* None of the properties is inductive: that no call is overwritten        *)
(* depends on where every worker stands when rank 0 makes the next one.    *)
(* Progress says it: between calls every worker has cleared its event and  *)
(* entered all it was told to; during a call a worker is one behind until  *)
(* its event is set, and then in one of the stages of taking the call.     *)
(***************************************************************************)
EXTENDS WorkerBroadcast, TLAPS

CaughtUp(w, n) ==
    /\ w \notin event
    /\ wpc[w] \in {"start", "barrier", "open", "wait"}
    /\ reads[w] = n /\ got[w] = n /\ ran[w] = n

\* What worker w does with the call since its event was set.
Signalled(w) ==
    /\ w \in event /\ wpc[w] \in {"barrier", "open", "wait"}
    /\ reads[w] = issued - 1 /\ got[w] = issued - 1 /\ ran[w] = issued - 1

Reading(w) ==
    /\ w \in event /\ wpc[w] = "read" /\ seen[w] = issued
    /\ reads[w] = issued - 1 /\ ran[w] = issued - 1

Taken(w) ==
    /\ \/ w \in event /\ wpc[w] = "clear"
       \/ w \notin event /\ wpc[w] = "call"
    /\ reads[w] = issued /\ got[w] = issued /\ ran[w] = issued - 1

Made(w) == ~exiting /\ wpc[w] = "wait" /\ CaughtUp(w, issued)

Left(w) == exiting /\ wpc[w] \in {"closing", "done"}

Takes(w) == Signalled(w) \/ Reading(w) \/ Taken(w) \/ Made(w) \/ Left(w)

Between == pc \in {"start", "barrier", "idle"}

Progress ==
    \A w \in Workers :
        IF Between THEN CaughtUp(w, issued)
        ELSE IF pc = "write" \/ w \in unsignalled THEN CaughtUp(w, issued - 1)
        ELSE Takes(w)

\* Rank 0: what holds of its call at each point.
Announced ==
    /\ pc # "signal" => unsignalled = {}
    /\ ~Between => issued > 0
    /\ ~Between /\ pc # "write" => buffer = issued
    /\ pc = "run" => ~exiting
    /\ pc \in {"closing", "unlink", "join", "done"} => exiting

\* The barriers around the life of the segment.
Barriers ==
    /\ pc = "start" => \A w \in Workers : wpc[w] \in {"start", "barrier"}
    /\ pc \notin {"start", "barrier"} => \A w \in Workers : wpc[w] # "start"
    /\ pc \in {"unlink", "join", "done"} => \A w \in Workers : wpc[w] \in {"closing", "done"}
    /\ pc \notin {"start", "join", "done"} => shm = "linked"

IInv == TypeOK /\ Announced /\ Progress /\ Barriers

LEMMA InitIInv == Init => IInv
<1> SUFFICES ASSUME Init PROVE IInv OBVIOUS
<1>1. 0 \in Calls BY BoundAssumption DEF BoundAssumption, Calls
<1>2. TypeOK BY <1>1 DEF Init, TypeOK, Torn
<1>3. Announced BY DEF Init, Announced, Between
<1>4. Progress BY DEF Init, Progress, Between, CaughtUp
<1>5. Barriers BY DEF Init, Barriers
<1> QED BY <1>2, <1>3, <1>4, <1>5 DEF IInv

\* Every step of rank 0 keeps the invariant.
LEMMA Rank0Keeps ==
    ASSUME IInv, Rank0Step \/ \E exit \in BOOLEAN : Call(exit)
    PROVE  IInv'
<1> USE BoundAssumption DEF BoundAssumption, IInv, TypeOK, Announced, Progress, Barriers, Between, CaughtUp,
    Calls, Torn, workerVars
<1>1. CASE CreateShm BY <1>1 DEF CreateShm
<1>2. CASE LeaveStart BY <1>2 DEF LeaveStart
<1>3. CASE \E exit \in BOOLEAN : Call(exit) BY <1>3 DEF Call
<1>4. CASE EndWrite BY <1>4 DEF EndWrite
<1>5. ASSUME NEW w \in Workers, SetEvent(w)
      PROVE  IInv'
  BY <1>5 DEF SetEvent, Takes, Signalled, Reading, Taken, Made, Left
<1>6. CASE EndSignal BY <1>6 DEF EndSignal, Takes, Signalled, Reading, Taken, Made, Left
<1>7. CASE FinishStep BY <1>7 DEF FinishStep, StepDone, Takes, Signalled, Reading, Taken, Made, Left
<1>8. CASE LeaveExit BY <1>8 DEF LeaveExit, Takes, Signalled, Reading, Taken, Made, Left
<1>9. CASE Unlink BY <1>9 DEF Unlink, Takes, Signalled, Reading, Taken, Made, Left
<1>10. CASE Join BY <1>10 DEF Join, Takes, Signalled, Reading, Taken, Made, Left
<1> QED BY <1>1, <1>2, <1>3, <1>4, <1>5, <1>6, <1>7, <1>8, <1>9, <1>10 DEF Rank0Step

\* Every step of a worker keeps it.
LEMMA WorkerKeeps ==
    ASSUME IInv, NEW w \in Workers, WorkerStep(w)
    PROVE  IInv'
<1> USE BoundAssumption DEF BoundAssumption, IInv, TypeOK, Announced, Progress, Barriers, Between, CaughtUp,
    Takes, Signalled, Reading, Taken, Made, Left, Calls, Torn, rank0Vars, Goes
<1>1. CASE Arrive(w) BY <1>1 DEF Arrive
<1>2. CASE LeaveWorker(w) BY <1>2 DEF LeaveWorker
<1>3. CASE Open(w) BY <1>3 DEF Open
<1>4. CASE Wake(w) BY <1>4 DEF Wake
<1>5. CASE Read(w) BY <1>5 DEF Read
<1>6. CASE Clear(w) BY <1>6 DEF Clear
<1>7. CASE Execute(w) BY <1>7 DEF Execute, IsExit
<1>8. CASE Close(w) BY <1>8 DEF Close, IsExit
<1>9. CASE Exit(w) BY <1>9 DEF Exit
<1> QED BY <1>1, <1>2, <1>3, <1>4, <1>5, <1>6, <1>7, <1>8, <1>9 DEF WorkerStep

LEMMA Invariance == Spec => []IInv
<1>1. IInv /\ [Next]_vars => IInv'
  <2> SUFFICES ASSUME IInv, [Next]_vars PROVE IInv' OBVIOUS
  <2>1. CASE UNCHANGED vars
    BY <2>1 DEF vars, rank0Vars, workerVars, IInv, TypeOK, Announced, Progress, Barriers,
        Between, CaughtUp, Takes, Signalled, Reading, Taken, Made, Left
  <2> QED BY <2>1, Rank0Keeps, WorkerKeeps DEF Next
<1> QED BY <1>1, InitIInv, PTL DEF Spec

\* Every state has its types: no worker takes more calls than rank 0 made.
THEOREM TypeCorrect == Spec => []TypeOK
BY Invariance, PTL DEF IInv

\* read_shm and write_shm: the n-th call a worker unpickles is rank 0's n-th, whole.
THEOREM CallsAreTakenInOrder == Spec => []CallsInOrder
<1>1. IInv => CallsInOrder
  BY DEF IInv, TypeOK, Progress, CaughtUp, Takes, Signalled, Reading, Taken, Made, Left,
      CallsInOrder
<1> QED BY <1>1, Invariance, PTL

\* event.clear in read_shm: it never clears the signal of a later call.
THEOREM SignalsAreKept == Spec => []NoSignalLost
<1>1. IInv => NoSignalLost
  BY DEF IInv, TypeOK, Calls, Progress, CaughtUp, Takes, Signalled, Reading, Taken, Made, Left,
      NoSignalLost
<1> QED BY <1>1, Invariance, PTL

\* The barriers of __init__ and exit: the segment exists while a worker uses it.
THEOREM SegmentIsThere == Spec => []SegmentOutlivesUsers
<1>1. IInv => SegmentOutlivesUsers
  BY DEF IInv, TypeOK, Barriers, SegmentOutlivesUsers
<1> QED BY <1>1, Invariance, PTL
=============================================================================
