------------------------- MODULE NixlTransferProofs -------------------------
(***************************************************************************)
(* Proofs about NixlTransfer for any set of transfers and readers, any     *)
(* pool size and any environment.                                          *)
(***************************************************************************)
EXTENDS NixlTransfer, TLAPS

(***************************************************************************)
(* The inductive invariant.  LeaseSafety alone is not inductive: a READ    *)
(* begins on the strength of an answer received earlier, so the lease has  *)
(* to be followed from the answer on, and no release, not even a late one, *)
(* may be under way before the handle is gone.                             *)
(***************************************************************************)

\* A published record is backed by retained blocks, a queued one too.
Retention ==
    /\ sends \subseteq retained /\ published \subseteq retained
    /\ retained \subseteq handed
    /\ sends \cap published = {}

\* The load holds the answer that lets it read, or is reading.
UsesLease(l) == stage[l] = "read" \/ (stage[l] = "acquire" /\ future[l] = "ok")

\* Such a load is the reader of P's record, which was not released.
LeaseHeld ==
    \A l \in Loads : UsesLease(l) =>
        Key(l) \in published \ released /\ reader[Key(l)] = Engine(l)

\* NIXL has a handle only in those states; in stage "acquire" _begin_read and its
\* clean-up raised, which left an error: the READ is never begun twice.
HandleInUse ==
    \A l \in Loads : handle[l] # "none" =>
        UsesLease(l) /\ (stage[l] = "acquire" => l \in error)

\* A release is sent after the stage that needs the lease.
NoEarlyRelease ==
    \A l \in Loads : <<"release", l>> \in late => stage[l] \in {"ack", "gone"}

\* No control task runs outside the stage that submitted it.
TaskOfStage ==
    \A l \in Loads :
        /\ stage[l] = "read" => future[l] = "ok"
        /\ stage[l] \in {"none", "queued"} => future[l] = "none"

LeaseInv == LeaseHeld /\ HandleInUse /\ NoEarlyRelease /\ TaskOfStage

IInv == TypeOK /\ Retention /\ LeaseInv

\* A load is known by its engine and its key.
LEMMA LoadIdentity ==
    /\ \A l \in Loads : Engine(l) \in Readers /\ Key(l) \in Transfers
    /\ \A l, m \in Loads : Engine(l) = Engine(m) /\ Key(l) = Key(m) => l = m
  BY DEF Loads, Engine, Key

\* Every variable keeps its type: the states of records, tasks and handles the
\* code can be in are those TypeOK lists.
LEMMA TypeInvariant == TypeOK /\ [Next]_vars => TypeOK'
<1> SUFFICES ASSUME TypeOK, [Next]_vars PROVE TypeOK'
  OBVIOUS
<1> USE LoadIdentity DEF TypeOK, Calls, Stages, Futures, Handles, Outcomes
<1>1. CASE UNCHANGED vars
  BY <1>1 DEF vars, pVars, dVars
<1>2. CASE PStep
  <2>1. ASSUME NEW t \in Transfers, RequestFinished(t) PROVE TypeOK'
    BY <2>1 DEF RequestFinished, dVars
  <2>2. ASSUME NEW t \in Transfers, PCancel(t) PROVE TypeOK'
    BY <2>2 DEF PCancel, dVars
  <2>3. CASE PStartLoadKV
    BY <2>3 DEF PStartLoadKV, dVars
  <2>4. CASE PGetFinished
    <3>1. PICK expired \in SUBSET Unclaimed :
            /\ published' = published \ Ended(expired)
            /\ \/ UNCHANGED <<pOutcome, retained>>
               \/ /\ pOutcome' = [t \in Transfers |-> IF t \in Ended(expired)
                                    THEN ReportP(t, expired) ELSE pOutcome[t]]
                  /\ retained' = retained \ Ended(expired)
      BY <2>4 DEF PGetFinished
    <3>2. pOutcome' \in [Transfers -> Outcomes]
      BY <3>1 DEF ReportP
    <3>3. published' \subseteq Transfers /\ retained' \subseteq Transfers
      BY <3>1
    <3>4. QED
      BY <2>4, <3>2, <3>3 DEF PGetFinished, dVars
  <2>5. CASE PShutdown \/ PClosed \/ PShutdownRaises
    BY <2>5 DEF PShutdown, PClosed, PShutdownRaises, dVars
  <2>6. QED
    BY <1>2, <2>1, <2>2, <2>3, <2>4, <2>5 DEF PStep
<1>3. ASSUME NEW d \in Readers, EngineStep(d) PROVE TypeOK'
  <2>1. CASE DStartLoadKV(d)
    BY <2>1 DEF DStartLoadKV, LoadsOf, pVars
  <2>2. CASE DShutdown(d)
    BY <2>2 DEF DShutdown, Pending, LoadsOf, Loads, pVars
  <2>3. CASE DClosed(d)
    BY <2>3 DEF DClosed, LoadsOf, pVars
  <2>4. CASE DShutdownRaises(d) \/ DCrash(d)
    BY <2>4 DEF DShutdownRaises, DCrash, dUncrashed, pVars
  <2>5. QED
    BY <1>3, <2>1, <2>2, <2>3, <2>4 DEF EngineStep
<1>4. ASSUME NEW l \in Loads, LoadStep(l) PROVE TypeOK'
  <2>1. CASE HandleAcquire(l)
    BY <2>1 DEF HandleAcquire, Answer, Control, AcquireReply, pUncontrolled
  <2>2. CASE HandleRelease(l)
    BY <2>2 DEF HandleRelease, Answer, Control, pUncontrolled
  <2>3. ASSUME NEW op \in {"acquire", "release"}, HandleLate(op, l) PROVE TypeOK'
    BY <2>3 DEF HandleLate, Control, AcquireReply, pUncontrolled, dVars
  <2>4. CASE StartTask(l) \/ Call(l) \/ GiveUp(l)
    BY <2>4 DEF StartTask, Call, GiveUp, dUncontrolled, pVars
  <2>5. CASE CallFails(l)
    BY <2>5 DEF CallFails, dUncontrolled, pVars
  <2>6. CASE Admit(l) \/ DCancel(l)
    BY <2>6 DEF Admit, DCancel, pVars
  <2>7. CASE AbandonAcquire(l)
    BY <2>7 DEF AbandonAcquire, FinishRead, dUnread, pVars
  <2>8. CASE BeginRead(l) \/ BeginReadRaises(l)
    BY <2>8 DEF BeginRead, BeginReadRaises, MayBeginRead, dUnread, pVars
  <2>9. CASE PollRead(l)
    BY <2>9 DEF PollRead, FinishRead, dUnread, pVars
  <2>10. CASE ReportLoad(l)
    BY <2>10 DEF ReportLoad, pVars
  <2>11. CASE ReadCompletes(l) \/ ReadFails(l)
    BY <2>11 DEF ReadCompletes, ReadFails, pVars
  <2>12. QED
    BY <1>4, <2>1, <2>2, <2>3, <2>4, <2>5, <2>6, <2>7, <2>8, <2>9, <2>10, <2>11
       DEF LoadStep
<1>5. QED
  BY <1>1, <1>2, <1>3, <1>4 DEF Next

\* A step of an engine, of a thread or of NIXL keeps every record backed by
\* retained blocks (the first conjunct of the invariant that spans P's step).
LEMMA RetentionStep == TypeOK /\ Retention /\ [Next]_vars => Retention'
<1> SUFFICES ASSUME TypeOK, Retention, [Next]_vars PROVE Retention'
  OBVIOUS
<1> USE DEF TypeOK, Retention
<1>1. CASE UNCHANGED vars
  BY <1>1 DEF vars, pVars
<1>2. CASE PStep
  <2>1. ASSUME NEW t \in Transfers, RequestFinished(t) PROVE Retention'
    BY <2>1 DEF RequestFinished
  <2>2. ASSUME NEW t \in Transfers, PCancel(t) PROVE Retention'
    BY <2>2 DEF PCancel
  <2>3. CASE PStartLoadKV
    BY <2>3 DEF PStartLoadKV
  <2>4. CASE PGetFinished
    BY <2>4 DEF PGetFinished, Ended, Unclaimed
  <2>5. CASE PShutdown \/ PClosed \/ PShutdownRaises
    BY <2>5 DEF PShutdown, PClosed, PShutdownRaises
  <2>6. QED
    BY <1>2, <2>1, <2>2, <2>3, <2>4, <2>5 DEF PStep
<1>3. ASSUME NEW d \in Readers, EngineStep(d) PROVE Retention'
  BY <1>3 DEF EngineStep, DStartLoadKV, DShutdown, DClosed, DShutdownRaises, DCrash, pVars
<1>4. ASSUME NEW l \in Loads, LoadStep(l) PROVE Retention'
  BY <1>4 DEF LoadStep, HandleAcquire, HandleRelease, HandleLate, Answer, StartTask,
       Call, CallFails, GiveUp, Admit, DCancel, AbandonAcquire, BeginRead,
       BeginReadRaises, PollRead, ReportLoad, ReadCompletes, ReadFails, pVars,
       pUncontrolled
<1>5. QED
  BY <1>1, <1>2, <1>3, <1>4 DEF Next

\* A step that touches neither P's records nor another load keeps LeaseInv if
\* the load does not lay claim to a lease it did not have.
LEMMA LocalStep ==
    ASSUME LeaseInv, NEW l \in Loads,
           UNCHANGED <<published, released, reader>>,
           late' = late \/ (late' = late \cup {<<"acquire", l>>})
             \/ (stage[l] \in {"ack", "gone"} /\ late' = late \cup {<<"release", l>>}),
           \A m \in Loads : m # l =>
               stage'[m] = stage[m] /\ future'[m] = future[m] /\ handle'[m] = handle[m],
           UsesLease(l)' => UsesLease(l),
           error \subseteq error',
           handle'[l] # "none" =>
               UsesLease(l)' /\ (stage'[l] = "acquire" => l \in error'),
           stage[l] \in {"ack", "gone"} => stage'[l] \in {"ack", "gone"},
           stage'[l] = "read" => future'[l] = "ok",
           stage'[l] \in {"none", "queued"} => future'[l] = "none"
    PROVE  LeaseInv'
<1> USE DEF UsesLease
<1>1. LeaseHeld'
  BY DEF LeaseInv, LeaseHeld
<1>2. HandleInUse'
  BY DEF LeaseInv, HandleInUse
<1>3. NoEarlyRelease'
  BY DEF LeaseInv, NoEarlyRelease
<1>4. TaskOfStage'
  BY DEF LeaseInv, TaskOfStage
<1>5. QED
  BY <1>1, <1>2, <1>3, <1>4 DEF LeaseInv

\* What a load may do with its lease survives every step: the answer that lets
\* it read stays true until the load itself gives the lease up.
LEMMA LeaseStep == TypeOK /\ Retention /\ LeaseInv /\ [Next]_vars => LeaseInv'
<1> SUFFICES ASSUME TypeOK, Retention, LeaseInv, [Next]_vars PROVE LeaseInv'
  OBVIOUS
<1> USE LoadIdentity DEF TypeOK, UsesLease, LeaseInv, LeaseHeld, HandleInUse,
        NoEarlyRelease, TaskOfStage
<1>1. CASE UNCHANGED vars
  BY <1>1 DEF vars, pVars, dVars
<1>2. CASE PStep
  <2>1. ASSUME NEW t \in Transfers, RequestFinished(t) \/ PCancel(t)
   PROVE LeaseInv'
    BY <2>1 DEF RequestFinished, PCancel, dVars
  <2>3. CASE PStartLoadKV
    BY <2>3 DEF PStartLoadKV, dVars
  <2>4. CASE PGetFinished
    <3>1. ASSUME NEW l \in Loads, UsesLease(l) PROVE Key(l) \in published'
      <4>1. PICK expired \in SUBSET Unclaimed : published' = published \ Ended(expired)
        BY <2>4 DEF PGetFinished
      <4>2. Key(l) \in published \ released /\ reader[Key(l)] = Engine(l)
        BY <3>1
      <4>3. Key(l) \notin Unclaimed
        BY <4>2, NoReaderAssumption DEF Unclaimed
      <4>4. QED
        BY <4>1, <4>2, <4>3 DEF Ended
    <3>2. QED
      BY <2>4, <3>1 DEF PGetFinished, dVars
  <2>5. CASE PShutdown \/ PClosed \/ PShutdownRaises
    BY <2>5 DEF PShutdown, PClosed, PShutdownRaises, dVars
  <2>6. QED
    BY <1>2, <2>1, <2>3, <2>4, <2>5 DEF PStep
<1>3. ASSUME NEW d \in Readers, EngineStep(d)
 PROVE LeaseInv'
  <2>1. CASE DStartLoadKV(d)
    BY <2>1 DEF DStartLoadKV, LoadsOf, pVars
  <2>2. CASE DShutdown(d) \/ DClosed(d) \/ DShutdownRaises(d) \/ DCrash(d)
    BY <2>2 DEF DShutdown, DClosed, DShutdownRaises, DCrash, dUncrashed, pVars
  <2>3. QED
    BY <1>3, <2>1, <2>2 DEF EngineStep
<1>4. ASSUME NEW l \in Loads, LoadStep(l) PROVE LeaseInv'
  <2>13. ASSUME NEW m \in Loads, UsesLease(m), Control("acquire", l)
        PROVE  reader'[Key(m)] = Engine(m) /\ released' = released
    BY <2>13, NoReaderAssumption DEF Control, AcquireReply
  <2>14. ASSUME NEW m \in Loads, UsesLease(m), Control("release", l),
               stage[l] \in {"ack", "gone"}
        PROVE  reader' = reader /\ Key(m) \notin released'
    BY <2>14 DEF Control
  <2>1. CASE HandleAcquire(l)
    <3>1. UNCHANGED <<published, stage, handle, error, late>>
      BY <2>1 DEF HandleAcquire, Answer, pUncontrolled
    <3>2. stage[l] = "acquire" /\ future[l] = "calling" /\ Control("acquire", l)
      BY <2>1 DEF HandleAcquire, Answer
    <3>3. \A m \in Loads : m # l => future'[m] = future[m]
      BY <2>1 DEF HandleAcquire, Answer
    <3>4. future'[l] = "ok" =>
            Key(l) \in published \ released /\ reader'[Key(l)] = Engine(l)
      BY <2>1 DEF HandleAcquire, Answer, Control, AcquireReply
    <3>5. released' = released
      BY <3>2 DEF Control
    <3>6. LeaseHeld'
      BY <2>13, <3>1, <3>2, <3>3, <3>4, <3>5
    <3>7. QED
      BY <3>1, <3>2, <3>3, <3>6
  <2>2. CASE HandleRelease(l)
    BY <2>2, <2>14 DEF HandleRelease, Answer, pUncontrolled
  <2>3. ASSUME NEW op \in {"acquire", "release"}, HandleLate(op, l) PROVE LeaseInv'
    <3>1. op = "release" => stage[l] \in {"ack", "gone"}
      BY <2>3 DEF HandleLate
    <3>2. QED
      BY <2>3, <3>1, <2>13, <2>14 DEF HandleLate, pUncontrolled, dVars
  <2>4. CASE StartTask(l) \/ Call(l) \/ GiveUp(l)
    BY <2>4, LocalStep DEF StartTask, Call, GiveUp, dUncontrolled, pVars
  <2>5. CASE CallFails(l)
    BY <2>5, LocalStep DEF CallFails, Stages, dUncontrolled, pVars
  <2>6. CASE Admit(l) \/ DCancel(l)
    BY <2>6, LocalStep DEF Admit, DCancel, pVars
  <2>7. CASE AbandonAcquire(l)
    <3>1. UNCHANGED <<published, released, reader, late>>
      BY <2>7 DEF AbandonAcquire, pVars
    <3>2. \/ /\ handle' = [handle EXCEPT ![l] = "none"]
             /\ stage' = [stage EXCEPT ![l] = "ack"]
             /\ future' = [future EXCEPT ![l] = "queued"]
             /\ error \subseteq error'
          \/ /\ UNCHANGED <<handle, stage, future>>
             /\ error \subseteq error'
      BY <2>7 DEF AbandonAcquire, FinishRead
    <3>3. stage[l] \in {"acquire", "read"}
      BY <2>7 DEF AbandonAcquire
    <3>4. QED
      BY <3>1, <3>2, <3>3, LocalStep
  <2>8. CASE BeginRead(l) \/ BeginReadRaises(l)
    <3>1. UNCHANGED <<published, released, reader, late>>
      BY <2>8 DEF BeginRead, BeginReadRaises, pVars
    <3>2. stage[l] = "acquire" /\ future[l] = "ok"
      BY <2>8 DEF BeginRead, BeginReadRaises, MayBeginRead
    <3>3. CASE BeginRead(l)
      BY <3>1, <3>2, <3>3, LocalStep DEF BeginRead
    <3>4. CASE BeginReadRaises(l)
      <4>1. CASE handle' = handle /\ stage' = [stage EXCEPT ![l] = "ack"]
                 /\ future' = [future EXCEPT ![l] = "queued"]
        <5>1. handle[l] = "none"
          BY <3>2, <3>4 DEF BeginReadRaises, MayBeginRead
        <5>2. error \subseteq error'
          BY <3>4 DEF BeginReadRaises
        <5>3. QED
          BY <3>1, <3>2, <4>1, <5>1, <5>2, LocalStep
      <4>2. CASE handle' = [handle EXCEPT ![l] = "ERR"] /\ UNCHANGED <<stage, future>>
        <5>1. error' = error \cup {l}
          BY <3>4 DEF BeginReadRaises
        <5>2. QED
          BY <3>1, <3>2, <4>2, <5>1, LocalStep
      <4>3. QED
        BY <3>4, <4>1, <4>2 DEF BeginReadRaises
    <3>5. QED
      BY <2>8, <3>3, <3>4
  <2>9. CASE PollRead(l)
    <3>1. UNCHANGED <<published, released, reader, late>>
      BY <2>9 DEF PollRead, pVars
    <3>2. \/ /\ handle' = [handle EXCEPT ![l] = "none"]
             /\ stage' = [stage EXCEPT ![l] = "ack"]
             /\ future' = [future EXCEPT ![l] = "queued"]
             /\ error \subseteq error'
          \/ /\ UNCHANGED <<handle, stage, future>>
             /\ error \subseteq error'
      BY <2>9 DEF PollRead, FinishRead
    <3>3. stage[l] \in {"acquire", "read"}
      BY <2>9 DEF PollRead
    <3>4. QED
      BY <3>1, <3>2, <3>3, LocalStep
  <2>10. CASE ReportLoad(l)
    BY <2>10, LocalStep DEF ReportLoad, pVars
  <2>11. CASE ReadCompletes(l) \/ ReadFails(l)
    BY <2>11 DEF ReadCompletes, ReadFails, pVars
  <2>12. QED
    BY <1>4, <2>1, <2>2, <2>3, <2>4, <2>5, <2>6, <2>7, <2>8, <2>9, <2>10, <2>11
       DEF LoadStep
<1>5. QED
  BY <1>1, <1>2, <1>3, <1>4 DEF Next

\* Nothing is published, loaded or under way when the engines start.
LEMMA InitIInv == Init => IInv
  BY DEF Init, IInv, TypeOK, Retention, LeaseInv, LeaseHeld, HandleInUse,
         NoEarlyRelease, TaskOfStage, UsesLease, Loads, Calls, Stages, Futures,
         Handles, Outcomes

\* Every variable keeps its type in every behaviour.
THEOREM TypeCorrect == Spec => []TypeOK
<1>1. Init => TypeOK
  BY InitIInv DEF IInv
<1>2. QED
  BY <1>1, TypeInvariant, PTL DEF Spec

\* Types, retention and the lease invariants hold in every state of a behaviour.
THEOREM InductiveInvariant == Spec => []IInv
<1>1. IInv /\ [Next]_vars => IInv'
  BY TypeInvariant, RetentionStep, LeaseStep DEF IInv
<1>2. QED
  BY <1>1, InitIInv, PTL DEF Spec

\* A handle is only in use under the lease, and the lease retains the blocks.
LEMMA IInvImpliesLeaseSafety == IInv => LeaseSafety
  BY LoadIdentity DEF IInv, Retention, LeaseInv, LeaseHeld, HandleInUse, LeaseSafety

\* No READ ever touches blocks the prefill engine took back: the answer to the
\* README's rule that P frees retained blocks only after the release, for any
\* number of transfers and readers, with late, lost and crashed parties.
THEOREM LeaseIsSafe == Spec => []LeaseSafety
  BY InductiveInvariant, IInvImpliesLeaseSafety, PTL

-----------------------------------------------------------------------------
(***************************************************************************)
(* What becomes of a load and of a handoff.  Both ends follow one attempt  *)
(* through several stages, so each promise needs to be carried from the    *)
(* stage in which it is made to the one in which it is used.               *)
(***************************************************************************)

\* The destination stays reserved from the admission until the load is reported.
DestHeld ==
    \A l \in Loads :
        /\ \/ stage[l] \in {"acquire", "read", "ack"}
           \/ stage[l] = "queued" /\ dStatus[Engine(l)] = "up"
           => dest[l] = "reserved"
        /\ dest[l] = "ready" => stage[l] = "gone"

\* An engine closes with nothing published and nothing under way, and neither
\* begins anything afterwards.
Drained ==
    /\ pStatus = "closed" => published = {}
    /\ \A d \in Readers : dStatus[d] = "closed" =>
          Pending(d) = {} /\ \A l \in LoadsOf(d) : dest[l] = "free"

\* A load that reaches its ack with neither an error nor a cancel has landed.
ReadLanded ==
    \A l \in Loads :
        /\ stage[l] = "read" => handle[l] # "none"
        /\ handle[l] = "DONE" => l \in landed
        /\ stage[l] = "ack" /\ l \notin error \cup dCancelled => l \in landed
        /\ dest[l] = "ready" => l \in landed \ error

\* A record has one reader for good, claimed while it was published, and is
\* released by the one reader, which is past the READ.
ClaimedOnce ==
    /\ \A l \in landed : reader[Key(l)] = Engine(l)
    /\ \A l \in Loads : Key(l) \in released /\ reader[Key(l)] = Engine(l)
                        => stage[l] \in {"ack", "gone"}
    /\ \A t \in Transfers : reader[t] # NoReader => t \in handed \ sends
    /\ \A t \in released : reader[t] # NoReader

\* A handoff that P reported is never published again: nobody may claim it.
Settled ==
    \A t \in Transfers :
        /\ pOutcome[t] # "none" => t \in handed \ (published \cup sends)
        /\ pOutcome[t] = "failed" => reader[t] = NoReader
        /\ pOutcome[t] = "sent" => t \in released

\* A load that was reported ended its ack; with no request delayed beyond its
\* client's timeout, a confirmed release leaves the load without a lease.
ReleaseConfirmed ==
    /\ \A l \in Loads : stage[l] = "gone" => future[l] \in {"ok", "failed"}
    /\ "late" \notin environment.events =>
         /\ late = {}
         /\ \A l \in Loads : stage[l] \in {"ack", "gone"} /\ future[l] = "ok" =>
              ~(Key(l) \in published \ released /\ reader[Key(l)] = Engine(l))

\* Destination blocks are freed by the scheduler's report or by a drained shutdown.
LEMMA DestHeldStep == TypeOK /\ DestHeld /\ [Next]_vars => DestHeld'
<1> SUFFICES ASSUME TypeOK, DestHeld, [Next]_vars PROVE DestHeld'
  OBVIOUS
<1> USE LoadIdentity DEF TypeOK, DestHeld
<1>1. CASE UNCHANGED vars
  BY <1>1 DEF vars, dVars
<1>2. CASE PStep
  BY <1>2 DEF PStep, RequestFinished, PCancel, PStartLoadKV, PGetFinished, PShutdown,
       PClosed, PShutdownRaises, dVars
<1>3. ASSUME NEW d \in Readers, EngineStep(d) PROVE DestHeld'
  <2>1. CASE DStartLoadKV(d)
    BY <2>1 DEF DStartLoadKV, LoadsOf, Engine
  <2>2. CASE DShutdown(d) \/ DShutdownRaises(d) \/ DCrash(d)
    BY <2>2 DEF DShutdown, DShutdownRaises, DCrash, dUncrashed
  <2>3. CASE DClosed(d)
    <3>1. \A l \in Loads : Engine(l) = d <=> l \in LoadsOf(d)
      BY DEF LoadsOf, Engine, Loads
    <3>2. QED
      BY <2>3, <3>1 DEF DClosed, Pending
  <2>4. QED
    BY <1>3, <2>1, <2>2, <2>3 DEF EngineStep
<1>4. ASSUME NEW l \in Loads, LoadStep(l) PROVE DestHeld'
  <2>1. CASE \/ HandleAcquire(l) \/ HandleRelease(l) \/ StartTask(l) \/ Call(l)
             \/ CallFails(l) \/ GiveUp(l) \/ ReadCompletes(l) \/ ReadFails(l)
             \/ \E op \in {"acquire", "release"} : HandleLate(op, l)
    BY <2>1 DEF HandleAcquire, HandleRelease, HandleLate, Answer, StartTask, Call,
         CallFails, GiveUp, ReadCompletes, ReadFails, dUncontrolled, dVars
  <2>2. CASE Admit(l) \/ DCancel(l) \/ ReportLoad(l)
    BY <2>2 DEF Admit, DCancel, ReportLoad
  <2>3. CASE AbandonAcquire(l) \/ BeginRead(l) \/ BeginReadRaises(l) \/ PollRead(l)
    BY <2>3 DEF AbandonAcquire, BeginRead, BeginReadRaises, MayBeginRead, PollRead,
         FinishRead, dUnread
  <2>4. QED
    BY <1>4, <2>1, <2>2, <2>3 DEF LoadStep
<1>5. QED
  BY <1>1, <1>2, <1>3, <1>4 DEF Next

\* Handoffs are queued and loads admitted by engines that are up only.
LEMMA DrainedStep == TypeOK /\ Drained /\ [Next]_vars => Drained'
<1> SUFFICES ASSUME TypeOK, Drained, [Next]_vars PROVE Drained'
  OBVIOUS
<1> USE DEF TypeOK, Drained
<1>0. \A l \in Loads, d \in Readers : l \in LoadsOf(d) <=> Engine(l) = d
  BY DEF LoadsOf, Engine, Loads
<1>1. CASE UNCHANGED vars
  BY <1>1 DEF vars, pVars, dVars, Pending
<1>2. CASE PStep
  BY <1>2 DEF PStep, RequestFinished, PCancel, PStartLoadKV, PGetFinished, PShutdown,
       PClosed, PShutdownRaises, dVars, Pending
<1>3. ASSUME NEW d \in Readers, EngineStep(d) PROVE Drained'
  <2>1. CASE DStartLoadKV(d)
    BY <2>1, <1>0 DEF DStartLoadKV, pVars, Pending, LoadsOf, Loads
  <2>2. CASE DShutdown(d) \/ DShutdownRaises(d) \/ DCrash(d)
    BY <2>2 DEF DShutdown, DShutdownRaises, DCrash, dUncrashed, pVars, Pending
  <2>3. CASE DClosed(d)
    BY <2>3, <1>0 DEF DClosed, pVars, Pending, LoadsOf, Loads
  <2>4. QED
    BY <1>3, <2>1, <2>2, <2>3 DEF EngineStep
<1>4. ASSUME NEW l \in Loads, LoadStep(l) PROVE Drained'
  <2>0. pStatus' = pStatus /\ published' = published /\ dStatus' = dStatus
    BY <1>4 DEF LoadStep, HandleAcquire, HandleRelease, HandleLate, Answer, StartTask,
       Call, CallFails, GiveUp, Admit, DCancel, AbandonAcquire, BeginRead, dVars,
       BeginReadRaises, PollRead, ReportLoad, ReadCompletes, ReadFails, pVars,
       pUncontrolled, dUncontrolled, dUnread
  <2>1. CASE \/ HandleAcquire(l) \/ HandleRelease(l) \/ StartTask(l) \/ Call(l)
             \/ CallFails(l) \/ GiveUp(l) \/ ReadCompletes(l) \/ ReadFails(l) \/ DCancel(l)
             \/ \E op \in {"acquire", "release"} : HandleLate(op, l)
    BY <2>0, <2>1 DEF HandleAcquire, HandleRelease, HandleLate, Answer, StartTask, Call,
         CallFails, GiveUp, ReadCompletes, ReadFails, dUncontrolled, dVars, DCancel, Pending
  <2>2. CASE Admit(l) \/ ReportLoad(l)
    BY <2>0, <2>2, <1>0 DEF Admit, ReportLoad, Polling, Pending, LoadsOf, Loads
  <2>3. CASE AbandonAcquire(l) \/ BeginRead(l) \/ BeginReadRaises(l) \/ PollRead(l)
    BY <2>0, <2>3, <1>0 DEF AbandonAcquire, BeginRead, BeginReadRaises, MayBeginRead,
         PollRead, FinishRead, dUnread, Polling, Pending, LoadsOf, Loads
  <2>4. QED
    BY <1>4, <2>1, <2>2, <2>3 DEF LoadStep
<1>5. QED
  BY <1>1, <1>2, <1>3, <1>4 DEF Next

\* A READ completes under its lease, so what it copied is the prompt; every other
\* way to the ack leaves an error or a cancel, which the report looks at.
LEMMA ReadLandedStep ==
    IInv /\ ReadLanded /\ DestHeld /\ [Next]_vars => ReadLanded'
<1> SUFFICES ASSUME IInv, ReadLanded, DestHeld, [Next]_vars PROVE ReadLanded'
  OBVIOUS
<1> USE LoadIdentity DEF IInv, TypeOK, ReadLanded
<1>1. CASE UNCHANGED vars
  BY <1>1 DEF vars, dVars
<1>2. CASE PStep
  BY <1>2 DEF PStep, RequestFinished, PCancel, PStartLoadKV, PGetFinished, PShutdown,
       PClosed, PShutdownRaises, dVars
<1>3. ASSUME NEW d \in Readers, EngineStep(d) PROVE ReadLanded'
  BY <1>3 DEF EngineStep, DStartLoadKV, DShutdown, DShutdownRaises, DClosed, DCrash,
       dUncrashed
<1>4. ASSUME NEW l \in Loads, LoadStep(l) PROVE ReadLanded'
  <2>1. CASE \/ HandleAcquire(l) \/ HandleRelease(l) \/ StartTask(l) \/ Call(l)
             \/ CallFails(l) \/ GiveUp(l) \/ ReadFails(l) \/ Admit(l) \/ DCancel(l)
             \/ \E op \in {"acquire", "release"} : HandleLate(op, l)
    BY <2>1 DEF HandleAcquire, HandleRelease, HandleLate, Answer, StartTask, Call,
         CallFails, GiveUp, ReadFails, dUncontrolled, dVars, Admit, DCancel
  <2>2. CASE ReadCompletes(l)
    <3>1. Key(l) \in retained
      BY <2>2 DEF ReadCompletes, LeaseInv, HandleInUse, LeaseHeld, Retention
    <3>2. QED
      BY <2>2, <3>1 DEF ReadCompletes
  <2>3. CASE ReportLoad(l)
    BY <2>3 DEF ReportLoad, Outcome
  <2>4. CASE AbandonAcquire(l)
    BY <2>4 DEF AbandonAcquire, FinishRead, dUnread, DestHeld
  <2>5. CASE BeginRead(l) \/ BeginReadRaises(l)
    BY <2>5 DEF BeginRead, BeginReadRaises, MayBeginRead, dUnread, DestHeld
  <2>6. CASE PollRead(l)
    BY <2>6 DEF PollRead, FinishRead, dUnread, DestHeld, Handles
  <2>7. QED
    BY <1>4, <2>1, <2>2, <2>3, <2>4, <2>5, <2>6 DEF LoadStep
<1>5. QED
  BY <1>1, <1>2, <1>3, <1>4 DEF Next

\* What P's lock lets a request change: a record is claimed while it is published and
\* unclaimed, and released by its reader only.
LEMMA ControlEffect ==
    ASSUME TypeOK, NEW l \in Loads, NEW op \in {"acquire", "release"}, Control(op, l)
    PROVE  /\ \/ reader' = reader
              \/ /\ op = "acquire" /\ Key(l) \in published /\ reader[Key(l)] = NoReader
                 /\ reader' = [reader EXCEPT ![Key(l)] = Engine(l)]
                 /\ Key(l) \notin released
           /\ \/ released' = released
              \/ /\ op = "release" /\ Key(l) \in published /\ reader[Key(l)] = Engine(l)
                 /\ released' = released \cup {Key(l)}
  BY LoadIdentity DEF Control, AcquireReply, TypeOK

\* Claims and releases are P's answers; both leave a trace no later step removes.
LEMMA ClaimedOnceStep == IInv /\ ClaimedOnce /\ [Next]_vars => ClaimedOnce'
<1> SUFFICES ASSUME IInv, ClaimedOnce, [Next]_vars PROVE ClaimedOnce'
  OBVIOUS
<1> USE LoadIdentity DEF IInv, TypeOK, ClaimedOnce
<1>1. CASE UNCHANGED vars
  BY <1>1 DEF vars, pVars, dVars
<1>2. CASE PStep
  BY <1>2 DEF PStep, RequestFinished, PCancel, PStartLoadKV, PGetFinished, PShutdown,
       PClosed, PShutdownRaises, dVars
<1>3. ASSUME NEW d \in Readers, EngineStep(d) PROVE ClaimedOnce'
  BY <1>3 DEF EngineStep, DStartLoadKV, DShutdown, DShutdownRaises, DClosed, DCrash,
       dUncrashed, pVars
<1>4. ASSUME NEW l \in Loads, LoadStep(l) PROVE ClaimedOnce'
  <2>1. ASSUME NEW op \in {"acquire", "release"}, Control(op, l),
               op = "release" => stage[l] \in {"ack", "gone"},
               UNCHANGED <<published, sends, handed, stage, landed>>
        PROVE  ClaimedOnce'
    BY <2>1, ControlEffect, NoReaderAssumption DEF Retention
  <2>2. CASE HandleAcquire(l) \/ HandleRelease(l)
    BY <2>1, <2>2 DEF HandleAcquire, HandleRelease, Answer, pUncontrolled
  <2>3. ASSUME NEW op \in {"acquire", "release"}, HandleLate(op, l) PROVE ClaimedOnce'
    BY <2>1, <2>3 DEF HandleLate, pUncontrolled, dVars, LeaseInv, NoEarlyRelease
  <2>4. CASE \/ StartTask(l) \/ Call(l) \/ CallFails(l) \/ GiveUp(l) \/ ReadFails(l)
             \/ Admit(l) \/ DCancel(l) \/ ReportLoad(l)
    BY <2>4 DEF StartTask, Call, CallFails, GiveUp, ReadFails, dUncontrolled, pVars,
         Admit, DCancel, ReportLoad
  <2>5. CASE ReadCompletes(l)
    BY <2>5 DEF ReadCompletes, pVars, LeaseInv, HandleInUse, LeaseHeld
  <2>6. CASE AbandonAcquire(l) \/ BeginRead(l) \/ BeginReadRaises(l) \/ PollRead(l)
    BY <2>6 DEF AbandonAcquire, BeginRead, BeginReadRaises, MayBeginRead, PollRead,
         FinishRead, dUnread, pVars
  <2>7. QED
    BY <1>4, <2>2, <2>3, <2>4, <2>5, <2>6 DEF LoadStep
<1>5. QED
  BY <1>1, <1>2, <1>3, <1>4 DEF Next

\* A deadline ends unclaimed records only, and only a released one counts as sent.
LEMMA SettledStep == IInv /\ ClaimedOnce /\ Settled /\ [Next]_vars => Settled'
<1> SUFFICES ASSUME IInv, ClaimedOnce, Settled, [Next]_vars PROVE Settled'
  OBVIOUS
<1> USE LoadIdentity DEF IInv, TypeOK, Settled
<1>1. CASE UNCHANGED vars
  BY <1>1 DEF vars, pVars
<1>2. CASE PStep
  <2>1. CASE \/ \E t \in Transfers : RequestFinished(t) \/ PCancel(t)
             \/ PStartLoadKV \/ PShutdown \/ PClosed \/ PShutdownRaises
    BY <2>1 DEF RequestFinished, PCancel, PStartLoadKV, PShutdown, PClosed, PShutdownRaises
  <2>2. CASE PGetFinished
    <3>1. PICK expired \in SUBSET Unclaimed :
            /\ published' = published \ Ended(expired)
            /\ \/ UNCHANGED pOutcome
               \/ pOutcome' = [t \in Transfers |-> IF t \in Ended(expired)
                                THEN ReportP(t, expired) ELSE pOutcome[t]]
      BY <2>2 DEF PGetFinished
    <3>2. UNCHANGED <<handed, sends, reader, released>>
      BY <2>2 DEF PGetFinished
    <3>3. ASSUME NEW t \in Ended(expired)
          PROVE  /\ t \in handed \ sends
                 /\ ReportP(t, expired) = "failed" => reader[t] = NoReader
                 /\ ReportP(t, expired) = "sent" => t \in released
      BY <3>3 DEF Ended, Unclaimed, ReportP, Retention
    <3>4. QED
      BY <3>1, <3>2, <3>3
  <2>3. QED
    BY <1>2, <2>1, <2>2 DEF PStep
<1>3. ASSUME NEW d \in Readers, EngineStep(d) PROVE Settled'
  BY <1>3 DEF EngineStep, DStartLoadKV, DShutdown, DShutdownRaises, DClosed, DCrash, pVars
<1>4. ASSUME NEW l \in Loads, LoadStep(l) PROVE Settled'
  <2>1. CASE \/ HandleAcquire(l) \/ HandleRelease(l)
             \/ \E op \in {"acquire", "release"} : HandleLate(op, l)
    <3>1. PICK op \in {"acquire", "release"} : Control(op, l)
      BY <2>1 DEF HandleAcquire, HandleRelease, HandleLate, Answer
    <3>2. UNCHANGED <<handed, sends, published, pOutcome>>
      BY <2>1 DEF HandleAcquire, HandleRelease, HandleLate, Answer, pUncontrolled
    <3>3. QED
      BY <3>1, <3>2, ControlEffect
  <2>2. CASE ~(\/ HandleAcquire(l) \/ HandleRelease(l)
               \/ \E op \in {"acquire", "release"} : HandleLate(op, l))
    BY <1>4, <2>2 DEF LoadStep, StartTask, Call, CallFails, GiveUp, Admit, DCancel,
         AbandonAcquire, BeginRead, BeginReadRaises, PollRead, ReportLoad, ReadCompletes,
         ReadFails, pVars
  <2>3. QED
    BY <2>1, <2>2
<1>5. QED
  BY <1>1, <1>2, <1>3, <1>4 DEF Next

\* The answer "ok" to a release means that P has no lease of this load any more.
LEMMA ReleaseConfirmedStep ==
    IInv /\ ClaimedOnce /\ ReleaseConfirmed /\ [Next]_vars => ReleaseConfirmed'
<1> SUFFICES ASSUME IInv, ClaimedOnce, ReleaseConfirmed, [Next]_vars
             PROVE  ReleaseConfirmed'
  OBVIOUS
<1> USE LoadIdentity DEF IInv, TypeOK, ReleaseConfirmed
<1>1. CASE UNCHANGED vars
  BY <1>1 DEF vars, pVars, dVars
<1>2. CASE PStep
  BY <1>2, NoReaderAssumption DEF PStep, RequestFinished, PCancel, PStartLoadKV,
       PGetFinished, PShutdown, PClosed, PShutdownRaises, dVars, ClaimedOnce
<1>3. ASSUME NEW d \in Readers, EngineStep(d) PROVE ReleaseConfirmed'
  BY <1>3 DEF EngineStep, DStartLoadKV, DShutdown, DShutdownRaises, DClosed, DCrash,
       dUncrashed, pVars
<1>4. ASSUME NEW l \in Loads, LoadStep(l) PROVE ReleaseConfirmed'
  <2>1. CASE HandleAcquire(l)
    <3>1. PICK result : /\ stage[l] = "acquire" /\ Control("acquire", l)
                        /\ future' = [future EXCEPT ![l] = result]
      BY <2>1 DEF HandleAcquire, Answer
    <3>2. UNCHANGED <<environment, published, stage, late>>
      BY <2>1 DEF HandleAcquire, Answer, pUncontrolled
    <3>3. \A m \in Loads : /\ reader'[Key(m)] = Engine(m) /\ reader[Key(m)] # Engine(m)
                           => m = l
      BY <3>1, ControlEffect
    <3>4. released' = released
      BY <3>1, ControlEffect
    <3>5. QED
      BY <3>1, <3>2, <3>3, <3>4
  <2>2. CASE HandleRelease(l)
    <3>1. UNCHANGED <<environment, published, stage, late, reader>>
      BY <2>2, ControlEffect DEF HandleRelease, Answer, pUncontrolled
    <3>2. /\ released \subseteq released' /\ stage[l] = "ack"
          /\ Key(l) \in published /\ reader[Key(l)] = Engine(l) => Key(l) \in released'
      BY <2>2, ControlEffect DEF HandleRelease, Answer, Control
    <3>3. \A m \in Loads : m # l => future'[m] = future[m]
      BY <2>2 DEF HandleRelease, Answer
    <3>4. QED
      BY <3>1, <3>2, <3>3
  <2>3. ASSUME NEW op \in {"acquire", "release"}, HandleLate(op, l)
        PROVE  ReleaseConfirmed'
    BY <2>3 DEF HandleLate, dVars
  <2>4. CASE StartTask(l) \/ Call(l) \/ GiveUp(l) \/ ReadCompletes(l) \/ ReadFails(l)
             \/ Admit(l) \/ DCancel(l)
    BY <2>4 DEF StartTask, Call, GiveUp, ReadCompletes, ReadFails, dUncontrolled, pVars,
         Admit, DCancel
  <2>5. CASE CallFails(l)
    BY <2>5 DEF CallFails, dUncontrolled, pVars
  <2>6. CASE ReportLoad(l)
    BY <2>6 DEF ReportLoad, pVars
  <2>7. CASE AbandonAcquire(l) \/ BeginRead(l) \/ BeginReadRaises(l) \/ PollRead(l)
    BY <2>7 DEF AbandonAcquire, BeginRead, BeginReadRaises, MayBeginRead, PollRead,
         FinishRead, dUnread, pVars
  <2>8. QED
    BY <1>4, <2>1, <2>2, <2>3, <2>4, <2>5, <2>6, <2>7 DEF LoadStep
<1>5. QED
  BY <1>1, <1>2, <1>3, <1>4 DEF Next

AttemptInv ==
    IInv /\ DestHeld /\ Drained /\ ReadLanded /\ ClaimedOnce /\ Settled /\ ReleaseConfirmed

\* Nothing is reserved, claimed or reported when the engines start.
LEMMA InitAttemptInv == Init => AttemptInv
<1> SUFFICES ASSUME Init PROVE AttemptInv
  OBVIOUS
<1>1. IInv
  BY InitIInv
<1>2. DestHeld /\ Drained /\ ReadLanded /\ ClaimedOnce /\ Settled /\ ReleaseConfirmed
  BY LoadIdentity
     DEF Init, DestHeld, Drained, ReadLanded, ClaimedOnce, Settled, ReleaseConfirmed
<1>3. QED
  BY <1>1, <1>2 DEF AttemptInv

\* The story of each attempt holds together in every state of a behaviour.
THEOREM AttemptInvariant == Spec => []AttemptInv
<1>1. IInv /\ [Next]_vars => IInv'
  BY TypeInvariant, RetentionStep, LeaseStep DEF IInv
<1>2. AttemptInv /\ [Next]_vars => AttemptInv'
  BY <1>1, DestHeldStep, DrainedStep, ReadLandedStep, ClaimedOnceStep, SettledStep,
     ReleaseConfirmedStep DEF AttemptInv, IInv
<1>3. QED
  BY <1>2, InitAttemptInv, PTL DEF Spec

\* No READ writes into blocks the decode engine gave away or is computing on.
THEOREM DestinationIsSafe == Spec => []DestinationSafety
<1>1. AttemptInv => DestinationSafety
  BY DEF AttemptInv, IInv, LeaseInv, HandleInUse, UsesLease, DestHeld, DestinationSafety
<1>2. QED
  BY <1>1, AttemptInvariant, PTL

\* A request starts only on a prompt that was copied whole from retained blocks.
THEOREM ReceivedPromptIsComplete == Spec => []ReceivedIsComplete
<1>1. AttemptInv => ReceivedIsComplete
  BY DEF AttemptInv, ReadLanded, ReceivedIsComplete
<1>2. QED
  BY <1>1, AttemptInvariant, PTL

\* The two engines agree on what became of each attempt, without ever talking
\* about it again after the release.
THEOREM EnginesAgree == Spec => []AgreedOutcome
<1>1. AttemptInv => AgreedOutcome
  <2> SUFFICES ASSUME AttemptInv, NEW l \in Loads
               PROVE  /\ dest[l] = "ready" => pOutcome[Key(l)] # "failed"
                      /\ pOutcome[Key(l)] = "sent" /\ reader[Key(l)] = Engine(l)
                         => stage[l] \in {"ack", "gone"}
    BY DEF AgreedOutcome
  <2> USE LoadIdentity DEF AttemptInv
  <2>1. ASSUME dest[l] = "ready" PROVE pOutcome[Key(l)] # "failed"
    <3>1. reader[Key(l)] = Engine(l)
      BY <2>1 DEF ReadLanded, ClaimedOnce
    <3>2. QED
      BY <3>1, NoReaderAssumption DEF Settled
  <2>2. ASSUME pOutcome[Key(l)] = "sent", reader[Key(l)] = Engine(l)
        PROVE  stage[l] \in {"ack", "gone"}
    BY <2>2 DEF Settled, ClaimedOnce
  <2>3. QED
    BY <2>1, <2>2
<1>2. QED
  BY <1>1, AttemptInvariant, PTL

\* An engine that closed is out of reach of every transfer, a dead peer's too.
THEOREM ClosedEnginesAreQuiet == Spec => []QuietAfterClose
<1>1. AttemptInv => QuietAfterClose
  <2> SUFFICES ASSUME AttemptInv PROVE QuietAfterClose
    OBVIOUS
  <2>1. \A l \in Loads : handle[l] # "none" =>
          stage[l] \in {"acquire", "read"} /\ Key(l) \in published
    BY DEF AttemptInv, IInv, LeaseInv, HandleInUse, LeaseHeld, UsesLease
  <2>2. \A d \in Readers : \A l \in LoadsOf(d) :
          l \in Loads /\ (stage[l] \in {"acquire", "read"} => l \in Pending(d))
    BY DEF LoadsOf, Loads, Pending
  <2>3. QED
    BY <2>1, <2>2 DEF AttemptInv, Drained, QuietAfterClose
<1>2. QED
  BY <1>1, AttemptInvariant, PTL

\* Unless a control message outlives its client's timeout, a load that is over holds P's
\* blocks only where its engine was lost or its ack gave up.
THEOREM LeasesAreReturned ==
    Spec => []("late" \notin environment.events => RetainedOnlyIfPeerLost)
<1>1. AttemptInv => ("late" \notin environment.events => RetainedOnlyIfPeerLost)
  BY DEF AttemptInv, ReleaseConfirmed, RetainedOnlyIfPeerLost, PeerLost
<1>2. QED
  BY <1>1, AttemptInvariant, PTL

-----------------------------------------------------------------------------
(* The refinement of KVLease.                                              *)

\* Before anything is handed out no lease exists.
LEMMA InitRefines == Init => Lease!LeaseInit
  BY DEF Init, Lease!LeaseInit, LeaseSource, LeaseReading

\* The grants of KVLease name a load by its reader and its transfer.
LEMMA LoadIsPair == \A l \in Loads : l = <<Engine(l), Key(l)>>
  BY DEF Loads, Engine, Key

\* A step that changes none of what the mapping reads is a stutter.
LEMMA StutterStep ==
    ASSUME UNCHANGED <<handed, retained, reader>>, LeaseReading' = LeaseReading
    PROVE  UNCHANGED Lease!leaseVars
  BY DEF Lease!leaseVars, LeaseSource

\* An answer of P's handler thread grants the lease or changes nothing.
LEMMA ControlRefines ==
    ASSUME IInv, NEW l \in Loads, NEW op \in {"acquire", "release"}, Control(op, l),
           UNCHANGED <<handed, retained, handle>>
    PROVE  Lease!LeaseNext \/ UNCHANGED Lease!leaseVars
<1> USE LoadIdentity
<1>1. UNCHANGED <<LeaseSource, LeaseReading>>
  BY DEF LeaseSource, LeaseReading
<1>2. CASE reader' = reader
  BY <1>1, <1>2 DEF Lease!leaseVars
<1>3. CASE reader' # reader
  <2>1. /\ Key(l) \in published /\ reader[Key(l)] = NoReader
        /\ reader' = [reader EXCEPT ![Key(l)] = Engine(l)]
    BY <1>3 DEF Control, AcquireReply, IInv, TypeOK
  <2>2. LeaseSource[Key(l)] = "retained"
    BY <2>1 DEF IInv, Retention, LeaseSource
  <2>3. Lease!Grant(Engine(l), Key(l))
    BY <1>1, <2>1, <2>2 DEF Lease!Grant
  <2>4. QED
    BY <2>3 DEF Lease!LeaseNext
<1>4. QED
  BY <1>2, <1>3

\* Posting a READ is an access under the granted lease.
LEMMA BeginRefines ==
    ASSUME IInv, NEW l \in Loads, UsesLease(l), handle[l] = "none",
           NEW h \in Handles \ {"none"}, handle' = [handle EXCEPT ![l] = h],
           UNCHANGED <<handed, retained, reader>>
    PROVE  Lease!LeaseNext
<1> USE LoadIdentity
<1>1. LeaseSource' = LeaseSource /\ LeaseSource[Key(l)] = "retained"
  BY DEF IInv, Retention, LeaseInv, LeaseHeld, LeaseSource
<1>2. LeaseReading' = LeaseReading \cup {<<Engine(l), Key(l)>>}
  BY LoadIsPair DEF LeaseReading, IInv, TypeOK
<1>3. reader[Key(l)] = Engine(l)
  BY DEF IInv, LeaseInv, LeaseHeld
<1>4. Lease!BeginAccess(Engine(l), Key(l))
  BY <1>1, <1>2, <1>3 DEF Lease!BeginAccess
<1>5. QED
  BY <1>4 DEF Lease!LeaseNext

\* Letting go of a handle ends the access; both attempts raising changes nothing.
LEMMA FinishRefines ==
    ASSUME IInv, NEW l \in Loads, NEW failing, FinishRead(l, failing),
           UNCHANGED <<handed, retained, reader>>
    PROVE  Lease!LeaseNext \/ UNCHANGED Lease!leaseVars
<1> USE LoadIdentity
<1>1. CASE handle' = handle
  BY <1>1, StutterStep DEF LeaseReading
<1>2. CASE handle' = [handle EXCEPT ![l] = "none"]
  <2>1. LeaseReading' = LeaseReading \ {<<Engine(l), Key(l)>>}
    BY <1>2, LoadIsPair DEF LeaseReading, IInv, TypeOK
  <2>2. LeaseSource' = LeaseSource
    BY DEF LeaseSource
  <2>3. Lease!EndAccess(Engine(l), Key(l))
    BY <2>1, <2>2 DEF Lease!EndAccess
  <2>4. QED
    BY <2>3 DEF Lease!LeaseNext
<1>3. QED
  BY <1>1, <1>2 DEF FinishRead

\* P gives blocks back only where no load has an access to them.
LEMMA FreeRefines ==
    ASSUME IInv, NEW done \in SUBSET retained,
           \A l \in Loads : handle[l] # "none" => Key(l) \notin done,
           retained' = retained \ done, UNCHANGED <<handed, reader, handle>>
    PROVE  Lease!LeaseNext
<1>1. done \in SUBSET Transfers /\ done \subseteq handed
  BY DEF IInv, TypeOK, Retention
<1>2. \A t \in done : LeaseSource[t] = "retained"
  BY <1>1 DEF LeaseSource
<1>3. \A d \in Readers, t \in done : <<d, t>> \notin LeaseReading
  BY DEF LeaseReading, Key
<1>4. LeaseSource' = [t \in Transfers |-> IF t \in done THEN "freed" ELSE LeaseSource[t]]
  BY <1>1 DEF LeaseSource
<1>5. Lease!Free(done)
  BY <1>2, <1>3, <1>4 DEF Lease!Free, LeaseReading
<1>6. QED
  BY <1>1, <1>5 DEF Lease!LeaseNext

\* Every step of the transport is a step of the lease or a stutter.
LEMMA StepRefines == IInv /\ [Next]_vars => [Lease!LeaseNext]_Lease!leaseVars
<1> SUFFICES ASSUME IInv, [Next]_vars
             PROVE  Lease!LeaseNext \/ UNCHANGED Lease!leaseVars
  OBVIOUS
<1> USE LoadIdentity
<1>1. CASE UNCHANGED vars
  BY <1>1, StutterStep DEF vars, pVars, dVars, LeaseReading
<1>2. CASE PStep
  <2>1. ASSUME NEW t \in Transfers, RequestFinished(t) PROVE Lease!LeaseNext
    <3>1. LeaseSource[t] = "computing"
      BY <2>1 DEF RequestFinished, LeaseSource
    <3>2. LeaseSource' = [LeaseSource EXCEPT ![t] = "retained"]
      BY <2>1 DEF RequestFinished, LeaseSource
    <3>3. Lease!Retain(t)
      BY <2>1, <3>1, <3>2 DEF RequestFinished, dVars, Lease!Retain, LeaseReading
    <3>4. QED
      BY <3>3 DEF Lease!LeaseNext
  <2>2. CASE (\E t \in Transfers : PCancel(t)) \/ PStartLoadKV \/ PShutdown
             \/ PShutdownRaises
    BY <2>2, StutterStep
       DEF PCancel, PStartLoadKV, PShutdown, PShutdownRaises, dVars, LeaseReading
  <2>3. CASE PGetFinished
    <3>1. PICK expired \in SUBSET Unclaimed :
            \/ UNCHANGED retained
            \/ retained' = retained \ Ended(expired)
      BY <2>3 DEF PGetFinished
    <3>2. UNCHANGED <<handed, reader, handle>>
      BY <2>3 DEF PGetFinished, dVars
    <3>3. Ended(expired) \subseteq published /\ published \subseteq retained
      BY <3>1 DEF Ended, Unclaimed, IInv, Retention
    <3>4. ASSUME NEW l \in Loads, handle[l] # "none" PROVE Key(l) \notin Ended(expired)
      <4>1. Key(l) \notin released /\ reader[Key(l)] = Engine(l)
        BY <3>4 DEF IInv, LeaseInv, LeaseHeld, HandleInUse
      <4>2. Key(l) \notin Unclaimed
        BY <4>1, NoReaderAssumption DEF Unclaimed
      <4>3. QED
        BY <3>1, <4>1, <4>2 DEF Ended
    <3>5. CASE UNCHANGED retained
      BY <3>2, <3>5, StutterStep DEF LeaseReading
    <3>6. CASE retained' = retained \ Ended(expired)
      BY <3>2, <3>3, <3>4, <3>6, FreeRefines
    <3>7. QED
      BY <3>1, <3>5, <3>6
  <2>4. CASE PClosed
    <3>1. \A l \in Loads : handle[l] = "none"
      BY <2>4 DEF PClosed, IInv, LeaseInv, LeaseHeld, HandleInUse
    <3>2. UNCHANGED <<handed, reader, handle>> /\ retained' = retained \ retained
      BY <2>4 DEF PClosed, dVars
    <3>3. QED
      BY <3>1, <3>2, FreeRefines
  <2>5. QED
    BY <1>2, <2>1, <2>2, <2>3, <2>4 DEF PStep
<1>3. ASSUME NEW d \in Readers, EngineStep(d) PROVE UNCHANGED Lease!leaseVars
  <2>1. UNCHANGED <<handed, retained, reader, handle>>
    BY <1>3 DEF EngineStep, DStartLoadKV, DShutdown, DClosed, DShutdownRaises, DCrash,
                dUncrashed, pVars
  <2>2. QED
    BY <2>1, StutterStep DEF LeaseReading
<1>4. ASSUME NEW l \in Loads, LoadStep(l)
      PROVE  Lease!LeaseNext \/ UNCHANGED Lease!leaseVars
  <2>1. CASE HandleAcquire(l) \/ HandleRelease(l)
             \/ \E op \in {"acquire", "release"} : HandleLate(op, l)
    <3>1. PICK op \in {"acquire", "release"} : Control(op, l)
      BY <2>1 DEF HandleAcquire, HandleRelease, HandleLate, Answer
    <3>2. UNCHANGED <<handed, retained, handle>>
      BY <2>1 DEF HandleAcquire, HandleRelease, HandleLate, Answer, pUncontrolled, dVars
    <3>3. QED
      BY <3>1, <3>2, ControlRefines
  <2>2. CASE StartTask(l) \/ Call(l) \/ CallFails(l) \/ GiveUp(l) \/ Admit(l)
             \/ DCancel(l) \/ ReportLoad(l)
    <3>1. UNCHANGED <<handed, retained, reader, handle>>
      BY <2>2 DEF StartTask, Call, CallFails, GiveUp, Admit, DCancel, ReportLoad,
                  dUncontrolled, pVars
    <3>2. QED
      BY <3>1, StutterStep DEF LeaseReading
  <2>3. CASE AbandonAcquire(l)
    BY <2>3, FinishRefines DEF AbandonAcquire, pVars
  <2>4. CASE PollRead(l)
    <3>1. PICK failing : FinishRead(l, failing)
      BY <2>4 DEF PollRead
    <3>2. QED
      BY <2>4, <3>1, FinishRefines DEF PollRead, pVars
  <2>5. CASE BeginRead(l) \/ BeginReadRaises(l)
    <3>1. UsesLease(l) /\ handle[l] = "none"
      BY <2>5 DEF BeginRead, BeginReadRaises, MayBeginRead, UsesLease, IInv, LeaseInv,
                  HandleInUse
    <3>2. UNCHANGED <<handed, retained, reader>>
      BY <2>5 DEF BeginRead, BeginReadRaises, pVars
    <3>3. \/ handle' = handle
          \/ \E h \in Handles \ {"none"} : handle' = [handle EXCEPT ![l] = h]
      BY <2>5 DEF BeginRead, BeginReadRaises, Handles
    <3>4. CASE handle' = handle
      BY <3>2, <3>4, StutterStep DEF LeaseReading
    <3>5. QED
      BY <3>1, <3>2, <3>3, <3>4, BeginRefines
  <2>6. CASE ReadCompletes(l) \/ ReadFails(l)
    <3>1. LeaseReading' = LeaseReading
      BY <2>6 DEF ReadCompletes, ReadFails, LeaseReading, IInv, TypeOK
    <3>2. QED
      BY <2>6, <3>1, StutterStep DEF ReadCompletes, ReadFails, pVars
  <2>7. QED
    BY <1>4, <2>1, <2>2, <2>3, <2>4, <2>5, <2>6 DEF LoadStep
<1>5. QED
  BY <1>1, <1>2, <1>3, <1>4 DEF Next

\* The transport implements the lease of KVLease: whatever the threads and the
\* messages do, each attempt has one reader and no read outlives the blocks.
THEOREM TransferRefinesLease == Spec => ImplementsLease
  BY InductiveInvariant, InitRefines, StepRefines, PTL
     DEF Spec, ImplementsLease, Lease!LeaseSpec
=============================================================================
