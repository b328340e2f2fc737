------------------------------- MODULE PDRouter -------------------------------
(***************************************************************************)
(* A router process with one prefill and one decode engine, each a process *)
(* of its own: run_pd and engine_loop of examples/qwen3_pd.py, run_mode in *)
(* mode "pd" and worker of examples/bench_pd.py.  Commands and events go   *)
(* through pipes, the KV from engine to engine.                            *)
(*                                                                         *)
(* An engine is what PDScheduler and NixlTransfer say of it: a request is  *)
(* computed on P, handed off and held until D has read it, its lease has   *)
(* expired or it is cancelled; on D it is loaded and then decoded.  Any    *)
(* engine may crash, any wait time out, any transfer fail; "faults" says   *)
(* what did.                                                               *)
(***************************************************************************)
EXTENDS Integers, Sequences, FiniteSets

CONSTANTS
    Programs,   \* the programs to run: "run_pd", "bench"
    Prompts,    \* the request ids of a wave, used again in the next
    Waves,      \* waves of requests the benchmark sends; run_pd sends one
    MaxSeqs     \* max_num_seqs of the engines

ASSUME RouterAssumption ==
    /\ Programs \subseteq {"run_pd", "bench"} /\ IsFiniteSet(Prompts)
    /\ Waves \in Nat \ {0} /\ MaxSeqs \in Nat \ {0}

VARIABLES
    program,
    pc,         \* "start", "serve", "drain", "stop", "join", "end"
    turn,       \* the index in StopOrder of the engine to stop
    verdict,    \* "none", "returned", "raised"
    wave,
    results,    \* the request ids of this wave that are done
    handed,     \* those whose handoff was passed on
    proc,       \* by engine: "starting", "up", "stopping" (asked to), "failing", "ended"
    commands,   \* by engine: the pipe from the router
    events,     \* by engine: the pipe to the router
    requests,   \* by engine: request id -> <<state, wave>>, where the state is "none",
                \* "waiting", "held" (by P for D), "loading" or "running" (on D)
    draining,   \* engines told to drain
    lease,      \* <<wave, request id>> -> "none", "open", "taken", "over"
    faults      \* what went wrong

routerVars == <<pc, turn, verdict, wave, results, handed>>
vars == <<program, routerVars, proc, commands, events, requests, draining, lease, faults>>

Engines  == {"P", "D"}
Attempts == (1 .. Waves) \X Prompts
NumWaves == IF program = "bench" THEN Waves ELSE 1
Alive(e) == proc[e] # "ended"

Init ==
    /\ program \in Programs
    /\ pc = "start" /\ turn = 1 /\ verdict = "none" /\ wave = 1 /\ results = {} /\ handed = {}
    /\ proc = [e \in Engines |-> "starting"]
    /\ commands = [e \in Engines |-> <<>>] /\ events = [e \in Engines |-> <<>>]
    /\ requests = [e \in Engines |-> [r \in Prompts |-> <<"none", 0>>]]
    /\ draining = {} /\ lease = [a \in Attempts |-> "none"] /\ faults = {}

Put(pipe, e, message) == [pipe EXCEPT ![e] = Append(@, message)]
Message(kind, r, w) == [kind |-> kind, request |-> r, wave |-> w]
Signal(kind) == [kind |-> kind]
Heard(e, kind) == events[e] # <<>> /\ Head(events[e]).kind = kind

-----------------------------------------------------------------------------
(* The router *)

\* An exception goes to the finally clause, which stops D first.
Raise == verdict' = "raised" /\ pc' = "stop" /\ turn' = 1

unchangedEngines == <<program, proc, requests, draining, lease>>

\* One add for each prompt, in any order.
SendWave(w) ==
    \E order \in {f \in [1 .. Cardinality(Prompts) -> Prompts] : {f[i] : i \in DOMAIN f} = Prompts} :
        commands' = [commands EXCEPT !.P = @ \o [i \in DOMAIN order |-> Message("add", order[i], w)]]

Started ==
    /\ pc = "start" /\ \A e \in Engines : Heard(e, "ready")
    /\ events' = [e \in Engines |-> Tail(events[e])]
    /\ SendWave(1) /\ pc' = "serve"
    /\ UNCHANGED <<turn, verdict, wave, results, handed, faults, unchangedEngines>>

\* An event of engine e: a handoff is passed to D, unless the benchmark has seen it.
TakeEvent(e) ==
    /\ pc = "serve" /\ events[e] # <<>>
    /\ events' = [events EXCEPT ![e] = Tail(@)]
    /\ LET event == Head(events[e]) IN
       IF \/ event.kind \notin {"handoff", "done"}
          \/ program = "bench" /\ event.request \in (IF event.kind = "done" THEN results ELSE handed)
       THEN Raise /\ UNCHANGED <<results, handed, commands>>
       ELSE /\ IF event.kind = "done"
               THEN results' = results \cup {event.request} /\ UNCHANGED <<handed, commands>>
               ELSE /\ handed' = handed \cup {event.request}
                    /\ commands' = Put(commands, "D", Message("add", event.request, event.wave))
                    /\ UNCHANGED results
            /\ UNCHANGED <<pc, turn, verdict>>
    /\ UNCHANGED <<wave, faults, unchangedEngines>>

NextWave ==
    /\ wave < NumWaves
    /\ wave' = wave + 1 /\ results' = {} /\ handed' = {}
    /\ SendWave(wave + 1) /\ pc' = "serve"
    /\ UNCHANGED verdict

LastWave ==
    /\ wave = NumWaves
    /\ verdict' = "returned" /\ pc' = "stop"
    /\ UNCHANGED <<wave, results, handed, commands>>

\* Mutant of EndWave: the benchmark goes on without draining the engines.
EndWaveAtOnce ==
    /\ pc = "serve" /\ results = Prompts
    /\ NextWave \/ LastWave
    /\ UNCHANGED <<turn, events, faults, unchangedEngines>>

\* All is done: run_pd returns, the benchmark has both engines drain.
EndWave ==
    /\ pc = "serve" /\ results = Prompts
    /\ IF program = "bench"
       THEN /\ pc' = "drain"
            /\ commands' = [e \in Engines |-> Append(commands[e], Signal("drain"))]
            /\ UNCHANGED <<verdict, wave, results, handed>>
       ELSE LastWave
    /\ UNCHANGED <<turn, events, faults, unchangedEngines>>

Drained ==
    /\ pc = "drain" /\ \A e \in Engines : Heard(e, "drained")
    /\ events' = [e \in Engines |-> Tail(events[e])]
    /\ NextWave \/ LastWave
    /\ UNCHANGED <<turn, faults, unchangedEngines>>

\* Another event than expected, or a dead worker.
Fail ==
    /\ \/ pc \in {"start", "drain"} /\ \E e \in Engines :
              events[e] # <<>> /\ ~Heard(e, "ready") /\ ~Heard(e, "drained")
       \/ pc \in {"start", "serve", "drain"} /\ \E e \in Engines : ~Alive(e)
    /\ Raise
    /\ UNCHANGED <<wave, results, handed, commands, events, faults, unchangedEngines>>

\* A wait takes too long.
TimeOut ==
    /\ pc \in {"start", "serve", "drain"}
    /\ Raise /\ faults' = faults \cup {"timeout"}
    /\ UNCHANGED <<wave, results, handed, commands, events, unchangedEngines>>

\* Mutant of StopOrder: in the order they were started.
StopOrderOfStart == <<"P", "D">>

\* reversed(workers): D first, so that its reads can finish.
StopOrder == <<"D", "P">>

\* The next engine to stop, or the end.
Proceed ==
    IF turn < Len(StopOrder) THEN turn' = turn + 1 /\ pc' = "stop"
    ELSE turn' = turn /\ pc' = "end"

\* run_pd in any case, and the benchmark if all went well, ask the engine to stop; else
\* the benchmark kills it.
Stop ==
    LET e == StopOrder[turn] IN
    /\ pc = "stop"
    /\ IF program = "bench" /\ verdict = "raised"
       THEN proc' = [proc EXCEPT ![e] = "ended"] /\ Proceed /\ UNCHANGED commands
       ELSE /\ commands' = IF Alive(e) THEN Put(commands, e, Signal("stop")) ELSE commands
            /\ pc' = "join"
            /\ UNCHANGED <<turn, proc>>
    /\ UNCHANGED <<program, verdict, wave, results, handed, events, requests, draining,
                   lease, faults>>

\* The process has ended; the benchmark wants to have heard that it stopped.
Join ==
    LET e == StopOrder[turn] IN
    /\ pc = "join" /\ ~Alive(e)
    /\ IF program = "bench" /\ ~Heard(e, "stopped") THEN Raise ELSE Proceed /\ UNCHANGED verdict
    /\ UNCHANGED <<wave, results, handed, commands, events, faults, unchangedEngines>>

\* It has not ended in time: run_pd kills it, the benchmark raises.
JoinTimesOut ==
    LET e == StopOrder[turn] IN
    /\ pc = "join" /\ Alive(e)
    /\ faults' = faults \cup {"timeout"}
    /\ IF program = "bench"
       THEN Raise /\ UNCHANGED proc
       ELSE proc' = [proc EXCEPT ![e] = "ended"] /\ Proceed /\ UNCHANGED verdict
    /\ UNCHANGED <<program, wave, results, handed, commands, events, requests, draining, lease>>

-----------------------------------------------------------------------------
(* The engines *)

State(e, r)   == requests[e][r][1]
AttemptOf(e, r) == <<requests[e][r][2], r>>
Become(e, r, state) == requests' = [requests EXCEPT ![e][r][1] = state]

Start(e) ==
    /\ proc[e] = "starting"
    /\ proc' = [proc EXCEPT ![e] = "up"]
    /\ events' = Put(events, e, Signal("ready"))
    /\ UNCHANGED <<program, routerVars, commands, requests, draining, lease, faults>>

StartFails(e) ==
    /\ proc[e] = "starting"
    /\ proc' = [proc EXCEPT ![e] = "ended"]
    /\ events' = Put(events, e, Signal("error"))
    /\ faults' = faults \cup {"start"}
    /\ UNCHANGED <<program, routerVars, commands, requests, draining, lease>>

\* add_request refuses a request id that is in use; that ends the engine's loop.
TakeCommand(e) ==
    /\ proc[e] = "up" /\ commands[e] # <<>>
    /\ commands' = [commands EXCEPT ![e] = Tail(@)]
    /\ LET c    == Head(commands[e])
           used == c.kind = "add" /\ State(e, c.request) # "none"
       IN
       /\ requests' = IF c.kind = "add" /\ ~used
                      THEN [requests EXCEPT ![e][c.request] = <<"waiting", c.wave>>] ELSE requests
       /\ draining' = IF c.kind = "drain" THEN draining \cup {e} ELSE draining
       /\ proc' = IF used THEN [proc EXCEPT ![e] = "failing"]
                  ELSE IF c.kind = "stop" THEN [proc EXCEPT ![e] = "stopping"] ELSE proc
       /\ events' = IF used THEN Put(events, e, Signal("error")) ELSE events
    /\ UNCHANGED <<program, routerVars, lease, faults>>

\* A transfer failure of r: the router is told, and the benchmark's engine gives up.
ReportFailure(e, r) ==
    /\ Become(e, r, "none")
    /\ events' = Put(events, e, Signal("error"))
    /\ proc' = IF program = "bench" THEN [proc EXCEPT ![e] = "failing"] ELSE proc

Prefilled(r) ==
    /\ proc.P = "up" /\ State("P", r) = "waiting"
    /\ Become("P", r, "held")
    /\ lease' = [lease EXCEPT ![AttemptOf("P", r)] = "open"]
    /\ events' = Put(events, "P", Message("handoff", r, requests.P[r][2]))
    /\ UNCHANGED <<program, routerVars, proc, commands, draining, faults>>

\* D has read and released the KV, or cancelled its read.
Sent(r) ==
    /\ proc.P = "up" /\ State("P", r) = "held" /\ lease[AttemptOf("P", r)] = "over"
    /\ Become("P", r, "none")
    /\ UNCHANGED <<program, routerVars, proc, commands, events, draining, lease, faults>>

LeaseExpires(r) ==
    /\ proc.P = "up" /\ State("P", r) = "held" /\ lease[AttemptOf("P", r)] = "open"
    /\ lease' = [lease EXCEPT ![AttemptOf("P", r)] = "over"]
    /\ ReportFailure("P", r)
    /\ faults' = faults \cup {"expiry"}
    /\ UNCHANGED <<program, routerVars, commands, draining>>

\* Mutant of SlotFree: waiting requests take slots too.
SlotFreeOfAll == Cardinality({r \in Prompts : State("D", r) # "none"}) <= MaxSeqs

SlotFree == Cardinality({r \in Prompts : State("D", r) \in {"loading", "running"}}) < MaxSeqs

\* D acquires the lease, and fails if P has given it up.
Load(r) ==
    /\ proc.D = "up" /\ State("D", r) = "waiting" /\ SlotFree
    /\ IF lease[AttemptOf("D", r)] = "open" /\ Alive("P")
       THEN /\ lease' = [lease EXCEPT ![AttemptOf("D", r)] = "taken"]
            /\ Become("D", r, "loading")
            /\ UNCHANGED <<proc, events>>
       ELSE ReportFailure("D", r) /\ UNCHANGED lease
    /\ UNCHANGED <<program, routerVars, commands, draining, faults>>

Loaded(r) ==
    /\ proc.D = "up" /\ State("D", r) = "loading" /\ Alive("P")
    /\ lease' = [lease EXCEPT ![AttemptOf("D", r)] = "over"]
    /\ Become("D", r, "running")
    /\ UNCHANGED <<program, routerVars, proc, commands, events, draining, faults>>

LoadFails(r) ==
    /\ proc.D = "up" /\ State("D", r) = "loading"
    /\ lease' = [lease EXCEPT ![AttemptOf("D", r)] = "over"]
    /\ ReportFailure("D", r)
    /\ faults' = faults \cup {"transfer"}
    /\ UNCHANGED <<program, routerVars, commands, draining>>

Decoded(r) ==
    /\ proc.D = "up" /\ State("D", r) = "running"
    /\ Become("D", r, "none")
    /\ events' = Put(events, "D", Message("done", r, requests.D[r][2]))
    /\ UNCHANGED <<program, routerVars, proc, commands, draining, lease, faults>>

IsFinished(e) == \A r \in Prompts : State(e, r) = "none"

Drain(e) ==
    /\ proc[e] = "up" /\ e \in draining /\ IsFinished(e)
    /\ events' = Put(events, e, Signal("drained"))
    /\ draining' = draining \ {e}
    /\ UNCHANGED <<program, routerVars, proc, commands, requests, lease, faults>>

\* engine.exit gives up what nobody reads: on P the open leases, on D its reads, which
\* it ends with P.
Taken == {a \in Attempts : lease[a] = "taken"}

CanExit(e) == proc[e] \in {"stopping", "failing"} /\ (Taken = {} \/ (e = "D" /\ Alive("P")))

ProcessEnds(e, last) ==
    /\ proc' = [proc EXCEPT ![e] = "ended"]
    /\ events' = IF program = "bench" /\ proc[e] = "stopping"
                 THEN Put(events, e, Signal(last)) ELSE events
    /\ UNCHANGED <<program, routerVars, commands, requests, draining>>

Exit(e) ==
    /\ CanExit(e)
    /\ lease' = [a \in Attempts |-> IF lease[a] = (IF e = "D" THEN "taken" ELSE "open")
                                    THEN "over" ELSE lease[a]]
    /\ ProcessEnds(e, "stopped")
    /\ UNCHANGED faults

\* It raises if reads are not over in time.
ExitFails(e) ==
    /\ proc[e] \in {"stopping", "failing"} /\ Taken # {}
    /\ ProcessEnds(e, "error")
    /\ faults' = faults \cup {"exit"}
    /\ UNCHANGED lease

Crash(e) ==
    /\ Alive(e)
    /\ proc' = [proc EXCEPT ![e] = "ended"]
    /\ faults' = faults \cup {"crash"}
    /\ UNCHANGED <<program, routerVars, commands, events, requests, draining, lease>>

-----------------------------------------------------------------------------
RouterStep ==
    \/ Started \/ (\E e \in Engines : TakeEvent(e)) \/ EndWave \/ Drained \/ Fail \/ Stop \/ Join

EngineStep(e) == Start(e) \/ TakeCommand(e) \/ Drain(e) \/ Exit(e)

RequestStep(r) == Prefilled(r) \/ Sent(r) \/ Load(r) \/ Loaded(r) \/ Decoded(r)

Fault ==
    \/ TimeOut \/ JoinTimesOut
    \/ \E e \in Engines : StartFails(e) \/ ExitFails(e) \/ Crash(e)
    \/ \E r \in Prompts : LeaseExpires(r) \/ LoadFails(r)

Next ==
    \/ RouterStep \/ Fault
    \/ \E e \in Engines : EngineStep(e)
    \/ \E r \in Prompts : RequestStep(r)

Spec == Init /\ [][Next]_vars

\* The processes run; requests go on side by side; where something went wrong the waits
\* have their timeouts.
FairSpec ==
    /\ Spec /\ WF_vars(RouterStep)
    /\ \A e \in Engines : WF_vars(EngineStep(e)) /\ WF_vars(ExitFails(e) /\ faults # {})
    /\ \A r \in Prompts : WF_vars(Prefilled(r) \/ Sent(r)) /\ WF_vars(Load(r) \/ Loaded(r) \/ Decoded(r))
    /\ WF_vars((TimeOut \/ JoinTimesOut) /\ faults # {})

-----------------------------------------------------------------------------
(* Properties                                                              *)

\* While a wave is served, all requests and messages are of that wave: ids that are used
\* again meet nothing of their earlier life.
WavesDoNotMix ==
    pc = "serve" =>
        /\ \A e \in Engines, r \in Prompts : State(e, r) # "none" => requests[e][r][2] = wave
        /\ \A e \in Engines : \A i \in DOMAIN (events[e]) :
              events[e][i].kind \in {"handoff", "done"} => events[e][i].wave = wave

\* P is asked to stop only when D's process has ended and reads nothing; at the end both
\* have ended (run_pd's caller then uses the GPUs).
PStopsLast ==
    /\ proc.P = "stopping" \/ (\E i \in DOMAIN commands.P : commands.P[i].kind = "stop") => ~Alive("D")
    /\ pc = "end" => \A e \in Engines : ~Alive(e)

\* Every run ends, with all results unless something went wrong: without a fault no id is
\* added that is in use, nothing comes twice and no other event than the expected one.
RouterEnds == <>[](pc = "end" /\ (verdict = "returned" \/ faults # {}))
=============================================================================
