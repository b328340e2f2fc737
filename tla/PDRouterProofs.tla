----------------------------- MODULE PDRouterProofs -----------------------------
(***************************************************************************)
(* P is asked to stop only when D has ended, and nothing runs at the end;  *)
(* the waves of a benchmark, which use the same ids, do not mix: for any   *)
(* prompts, waves and slots, and whatever crashes, fails or times out.     *)
(***************************************************************************)
EXTENDS PDRouter, FiniteSetTheorems, TLAPS

Commands == [kind : {"add"}, request : Prompts, wave : Int] \cup [kind : {"drain", "stop"}]

Stopping(pipe) == \E i \in DOMAIN pipe : pipe[i].kind = "stop"

\* What the router's program counter, the processes and P's pipe may be.
Shape ==
    /\ pc \in {"start", "serve", "drain", "stop", "join", "end"}
    /\ turn \in {1, 2} /\ wave \in Int
    /\ proc \in [Engines -> {"starting", "up", "stopping", "failing", "ended"}]
    /\ commands = [e \in Engines |-> commands[e]]
    /\ commands["P"] \in Seq(Commands)

\* The engines are stopped one after the other, from the first one on.
InTurn ==
    /\ pc \in {"start", "serve", "drain"} => turn = 1
    /\ pc \in {"stop", "join"} /\ turn = 2 => ~Alive("D")

IInv == Shape /\ InTurn /\ PStopsLast

\* The processes that have ended stay so.
Ending == \A e \in Engines : ~Alive(e) => ~Alive(e)'

\* Appending a message tells P to stop only if the message says so.
LEMMA AppendStop ==
    ASSUME NEW pipe \in Seq(Commands), NEW c \in Commands
    PROVE  /\ Append(pipe, c) \in Seq(Commands)
           /\ Stopping(Append(pipe, c)) => Stopping(pipe) \/ c.kind = "stop"
<1>1. Append(pipe, c) \in Seq(Commands)
  OBVIOUS
<1>2. ASSUME NEW i \in DOMAIN Append(pipe, c), Append(pipe, c)[i].kind = "stop"
      PROVE  Stopping(pipe) \/ c.kind = "stop"
  <2>1. CASE i \in DOMAIN pipe
    BY <1>2, <2>1 DEF Stopping
  <2>2. CASE i = Len(pipe) + 1
    BY <1>2, <2>2
  <2> QED
    BY <2>1, <2>2
<1> QED
  BY <1>1, <1>2 DEF Stopping

\* The adds of a wave tell nobody to stop.
LEMMA WaveStop ==
    ASSUME IInv, NEW w \in Int, SendWave(w)
    PROVE  /\ commands' = [e \in Engines |-> commands'[e]]
           /\ commands'["P"] \in Seq(Commands)
           /\ Stopping(commands'["P"]) => Stopping(commands["P"])
<1>1. PICK order \in [1 .. Cardinality(Prompts) -> Prompts] :
        commands' = [commands EXCEPT !["P"] = @ \o [i \in DOMAIN order |-> Message("add", order[i], w)]]
  BY DEF SendWave
<1> DEFINE adds == [i \in DOMAIN order |-> Message("add", order[i], w)]
<1>2. Cardinality(Prompts) \in Nat
  BY RouterAssumption, FS_CardinalityType
<1>3. adds \in Seq(Commands) /\ \A i \in DOMAIN adds : adds[i].kind = "add"
  BY <1>2 DEF Message, Commands
<1>4. commands["P"] \in Seq(Commands)
  BY DEF IInv, Shape
<1> HIDE DEF adds
<1>5. commands'["P"] = commands["P"] \o adds /\ commands' = [e \in Engines |-> commands'[e]]
  BY <1>1 DEF adds, IInv, Shape, Engines
<1>6. ASSUME NEW i \in DOMAIN (commands["P"] \o adds), (commands["P"] \o adds)[i].kind = "stop"
      PROVE  Stopping(commands["P"])
  <2>1. CASE i \in DOMAIN commands["P"]
    BY <1>3, <1>4, <1>6, <2>1 DEF Stopping
  <2>2. CASE i \notin DOMAIN commands["P"]
    <3>1. i - Len(commands["P"]) \in DOMAIN adds
             /\ (commands["P"] \o adds)[i] = adds[i - Len(commands["P"])]
      BY <1>3, <1>4, <2>2
    <3> QED
      BY <1>3, <1>6, <3>1
  <2> QED
    BY <2>1, <2>2
<1> QED
  BY <1>3, <1>4, <1>5, <1>6 DEF Stopping

\* A step that stops nobody, neither by the router nor by a message to P, keeps the
\* invariant.
LEMMA QuietStep ==
    ASSUME IInv, Shape', Ending,
           proc'["P"] = "stopping" => proc["P"] = "stopping" \/ Stopping(commands["P"]),
           Stopping(commands'["P"]) => Stopping(commands["P"]),
           InTurn',
           pc' = "end" => pc = "end"
    PROVE  IInv'
BY DEF IInv, PStopsLast, Stopping, Ending, Engines

\* Initially nobody is told to stop.
LEMMA InitInv == Init => IInv
BY DEF Init, IInv, Shape, InTurn, PStopsLast, Engines, Commands, Alive

-----------------------------------------------------------------------------
\* What goes through a pipe to D leaves P's alone.
LEMMA PutStop ==
    ASSUME IInv, NEW e \in Engines, NEW c, commands' = Put(commands, e, c),
           e = "P" => c \in Commands /\ c.kind # "stop"
    PROVE  /\ commands' = [f \in Engines |-> commands'[f]]
           /\ commands'["P"] \in Seq(Commands)
           /\ Stopping(commands'["P"]) => Stopping(commands["P"])
<1>1. /\ commands = [f \in Engines |-> commands[f]]
      /\ commands["P"] \in Seq(Commands)
  BY DEF IInv, Shape
<1>2. commands' = [f \in Engines |-> commands'[f]]
  BY <1>1 DEF Put
<1>3. CASE e = "P"
  <2>1. commands'["P"] = Append(commands["P"], c)
    BY <1>1, <1>3 DEF Put
  <2> QED
    BY <1>1, <1>2, <1>3, <2>1, AppendStop
<1>4. CASE e # "P"
  <2>1. commands'["P"] = commands["P"]
    BY <1>1, <1>4 DEF Put, Engines
  <2> QED
    BY <1>1, <1>2, <2>1
<1> QED
  BY <1>3, <1>4

\* The steps of the router before it stops the engines.
LEMMA ServeStep ==
    ASSUME IInv,
           Started \/ (\E e \in Engines : TakeEvent(e)) \/ EndWave \/ Drained \/ Fail \/ TimeOut
    PROVE  IInv'
<1> USE DEF IInv
<1>1. UNCHANGED proc
  BY DEF Started, TakeEvent, EndWave, Drained, Fail, TimeOut, unchangedEngines
<1>2. Ending /\ (proc'["P"] = "stopping" => proc["P"] = "stopping")
  BY <1>1 DEF Ending, Alive
<1>3. pc \in {"start", "serve", "drain"}
  BY DEF Started, TakeEvent, EndWave, Drained, Fail, TimeOut
<1>4. turn = 1 /\ wave \in Int
  BY <1>3 DEF InTurn, Shape
<1> DEFINE Pipes == /\ commands' = [e \in Engines |-> commands'[e]]
                    /\ commands'["P"] \in Seq(Commands)
                    /\ Stopping(commands'["P"]) => Stopping(commands["P"])
           Control == pc' \in {"start", "serve", "drain", "stop"} /\ turn' = 1 /\ wave' \in Int
<1>5. ASSUME UNCHANGED commands PROVE Pipes
  BY <1>5 DEF Shape
<1>6. ASSUME Control, Pipes PROVE IInv'
  <2>1. Shape'
    BY <1>1, <1>6 DEF Shape
  <2>2. InTurn'
    BY <1>6 DEF InTurn
  <2> HIDE DEF IInv
  <2> QED
    BY <1>2, <1>6, <2>1, <2>2, QuietStep
<1> HIDE DEF Pipes
<1>7. CASE Started
  <2>1. Pipes
    BY <1>7, WaveStop DEF Started, Pipes
  <2> QED
    BY <1>4, <1>6, <1>7, <2>1 DEF Started
<1>8. ASSUME NEW e \in Engines, TakeEvent(e)
      PROVE  IInv'
  <2>1. UNCHANGED commands \/ \E c : commands' = Put(commands, "D", c)
    BY <1>8 DEF TakeEvent
  <2>2. Pipes
    BY <1>5, <2>1, PutStop DEF Pipes, Engines
  <2>3. Control
    BY <1>3, <1>4, <1>8 DEF TakeEvent, Raise
  <2> QED
    BY <1>6, <2>2, <2>3
<1>9. ASSUME NextWave \/ LastWave, turn' = turn
      PROVE  Control /\ Pipes
  <2>1. CASE NextWave
    <3>1. wave + 1 \in Int /\ SendWave(wave + 1)
      BY <1>4, <2>1 DEF NextWave
    <3>2. Pipes
      BY <3>1, WaveStop DEF Pipes
    <3> QED
      BY <1>4, <1>9, <2>1, <3>2 DEF NextWave
  <2>2. CASE LastWave
    BY <1>4, <1>5, <1>9, <2>2 DEF LastWave
  <2> QED
    BY <1>9, <2>1, <2>2
<1>10. CASE EndWave
  <2>1. CASE program = "bench"
    <3>1. commands' = [e \in Engines |-> Append(commands[e], Signal("drain"))]
      BY <1>10, <2>1 DEF EndWave
    <3>2. commands'["P"] = Append(commands["P"], Signal("drain"))
      BY <3>1 DEF Engines
    <3>3. Signal("drain") \in Commands /\ Signal("drain").kind # "stop"
      BY DEF Signal, Commands
    <3>4. commands["P"] \in Seq(Commands)
      BY DEF Shape
    <3>5. Pipes
      BY <3>1, <3>2, <3>3, <3>4, AppendStop DEF Pipes
    <3> QED
      BY <1>4, <1>6, <1>10, <2>1, <3>5 DEF EndWave
  <2>2. CASE program # "bench"
    BY <1>6, <1>9, <1>10, <2>2 DEF EndWave
  <2> QED
    BY <2>1, <2>2
<1>11. CASE Drained
  BY <1>6, <1>9, <1>11 DEF Drained
<1>12. CASE Fail \/ TimeOut
  BY <1>4, <1>5, <1>6, <1>12 DEF Fail, TimeOut, Raise
<1> QED
  BY <1>7, <1>8, <1>10, <1>11, <1>12

\* The steps of the router that stop the engines.
LEMMA StopStep ==
    ASSUME IInv, Stop \/ Join \/ JoinTimesOut
    PROVE  IInv'
<1> DEFINE e == StopOrder[turn]
<1> USE DEF IInv
<1>1. /\ turn \in {1, 2} /\ e \in Engines
      /\ (turn = 1 => e = "D") /\ (turn = 2 => e = "P")
      /\ pc \in {"stop", "join"}
  BY DEF Shape, StopOrder, Engines, Stop, Join, JoinTimesOut
<1>2. ASSUME proc' = [proc EXCEPT ![e] = "ended"] \/ (UNCHANGED proc /\ ~Alive(e)),
             Proceed, UNCHANGED <<commands, wave>>
      PROVE  IInv'
  <2>1. /\ proc' \in [Engines -> {"starting", "up", "stopping", "failing", "ended"}]
        /\ Ending /\ proc'[e] = "ended"
        /\ \A f \in Engines : proc'[f] # proc[f] => proc'[f] = "ended"
    BY <1>1, <1>2 DEF Shape, Ending, Alive
  <2>2. CASE turn = 1
    <3>1. turn' = 2 /\ pc' = "stop"
      BY <1>2, <2>2 DEF Proceed, StopOrder
    <3>2. proc'["D"] = "ended"
      BY <1>1, <2>1, <2>2
    <3> QED
      BY <1>2, <2>1, <3>1, <3>2 DEF Shape, InTurn, PStopsLast, Alive
  <2>3. CASE turn = 2
    <3>1. turn' = 2 /\ pc' = "end"
      BY <1>2, <2>3 DEF Proceed, StopOrder
    <3>2. proc'["P"] = "ended" /\ proc'["D"] = "ended"
      BY <1>1, <2>1, <2>3 DEF InTurn, Ending, Alive, Engines
    <3> QED
      BY <1>2, <2>1, <3>1, <3>2 DEF Shape, InTurn, PStopsLast, Alive, Engines
  <2> QED
    BY <1>1, <2>2, <2>3
<1>3. ASSUME Raise, UNCHANGED <<proc, commands, wave>>
      PROVE  IInv'
  BY <1>3 DEF Raise, Shape, InTurn, PStopsLast, Alive
<1>4. CASE Stop
  <2>1. CASE program = "bench" /\ verdict = "raised"
    BY <1>2, <1>4, <2>1 DEF Stop
  <2>2. CASE ~(program = "bench" /\ verdict = "raised")
    <3>1. /\ pc' = "join" /\ UNCHANGED <<turn, proc, wave>>
          /\ commands' = IF Alive(e) THEN Put(commands, e, Signal("stop")) ELSE commands
          /\ pc = "stop"
      BY <1>4, <2>2 DEF Stop
    <3>2. commands' = [f \in Engines |-> commands'[f]] /\ commands'["P"] \in Seq(Commands)
      <4>1. Signal("stop") \in Commands
        BY DEF Signal, Commands
      <4>2. commands = [f \in Engines |-> commands[f]] /\ commands["P"] \in Seq(Commands)
        BY DEF Shape
      <4>3. Append(commands["P"], Signal("stop")) \in Seq(Commands)
        BY <4>1, <4>2, AppendStop
      <4> QED
        BY <1>1, <3>1, <4>2, <4>3 DEF Put, Engines
    <3>3. Stopping(commands'["P"]) => ~Alive("D")
      <4>1. CASE turn = 1
        <5>1. commands'["P"] = commands["P"]
          BY <1>1, <3>1, <4>1 DEF Put, Engines, Shape
        <5> QED
          BY <5>1 DEF PStopsLast, Stopping
      <4>2. CASE turn = 2
        BY <3>1, <4>2 DEF InTurn
      <4> QED
        BY <1>1, <4>1, <4>2
    <3> QED
      BY <3>1, <3>2, <3>3 DEF Shape, InTurn, PStopsLast, Stopping, Alive
  <2> QED
    BY <2>1, <2>2
<1>5. CASE Join
  <2>1. ~Alive(e) /\ UNCHANGED <<proc, commands, wave>> /\ (Raise \/ Proceed)
    BY <1>5 DEF Join, unchangedEngines
  <2> QED
    BY <1>2, <1>3, <2>1
<1>6. CASE JoinTimesOut
  BY <1>2, <1>3, <1>6 DEF JoinTimesOut
<1> QED
  BY <1>4, <1>5, <1>6

-----------------------------------------------------------------------------
\* Taking a command: only one that says so stops the engine.
LEMMA TakeStep ==
    ASSUME IInv, NEW e \in Engines, TakeCommand(e)
    PROVE  IInv'
<1> USE DEF IInv
<1>1. /\ proc[e] = "up" /\ commands[e] # <<>>
      /\ commands' = [commands EXCEPT ![e] = Tail(@)]
      /\ UNCHANGED <<pc, turn, wave>>
  BY DEF TakeCommand, routerVars
<1>2. /\ proc' \in [Engines -> {"starting", "up", "stopping", "failing", "ended"}]
      /\ \A f \in Engines : f # e => proc'[f] = proc[f]
      /\ proc'[e] = "stopping" => Head(commands[e]).kind = "stop"
      /\ proc'[e] # "ended"
  BY <1>1 DEF TakeCommand, Shape
<1>3. commands = [f \in Engines |-> commands[f]] /\ commands["P"] \in Seq(Commands)
  BY DEF Shape
<1>4. commands' = [f \in Engines |-> commands'[f]]
  BY <1>1, <1>3
<1>5. CASE e = "P"
  <2>1. commands'["P"] = Tail(commands["P"])
    BY <1>1, <1>3, <1>5
  <2>2. commands'["P"] \in Seq(Commands) /\ (Stopping(commands'["P"]) => Stopping(commands["P"]))
    <3>1. Tail(commands["P"]) \in Seq(Commands)
      BY <1>1, <1>3, <1>5
    <3>2. \A i \in DOMAIN Tail(commands["P"]) :
            i + 1 \in DOMAIN commands["P"] /\ Tail(commands["P"])[i] = commands["P"][i + 1]
      BY <1>1, <1>3, <1>5
    <3> QED
      BY <2>1, <3>1, <3>2 DEF Stopping
  <2>3. Head(commands["P"]).kind = "stop" => Stopping(commands["P"])
    BY <1>1, <1>3, <1>5 DEF Stopping
  <2>4. Shape'
    BY <1>1, <1>2, <1>4, <2>2 DEF Shape
  <2>5. Ending /\ InTurn'
    BY <1>1, <1>2, <1>5 DEF Ending, InTurn, Alive, Engines
  <2> HIDE DEF IInv
  <2> QED
    BY <1>1, <1>2, <1>5, <2>2, <2>3, <2>4, <2>5, QuietStep
<1>6. CASE e # "P"
  <2>1. commands'["P"] = commands["P"]
    BY <1>1, <1>3, <1>6 DEF Engines
  <2>2. Shape'
    BY <1>1, <1>2, <1>3, <1>4, <2>1 DEF Shape
  <2>3. Ending /\ InTurn' /\ proc'["P"] = proc["P"]
    BY <1>1, <1>2, <1>6 DEF Ending, InTurn, Alive, Engines
  <2> HIDE DEF IInv
  <2> QED
    BY <1>1, <2>1, <2>2, <2>3, QuietStep
<1> QED
  BY <1>5, <1>6

\* Engines start and end by themselves; none is stopping that was not.
LEMMA LocalStep ==
    ASSUME IInv, UNCHANGED <<pc, turn, wave, commands>>,
           proc' \in [Engines -> {"starting", "up", "stopping", "failing", "ended"}],
           \A e \in Engines : proc'[e] # proc[e] =>
               proc'[e] # "stopping" /\ proc[e] # "ended"
    PROVE  IInv'
<1>1. Ending /\ Shape' /\ InTurn'
  BY DEF IInv, Ending, Shape, InTurn, Alive, Engines
<1>2. proc'["P"] = "stopping" => proc["P"] = "stopping"
  BY DEF Engines
<1> QED
  BY <1>1, <1>2, QuietStep

\* The invariant holds after every step.
LEMMA NextInv == IInv /\ [Next]_vars => IInv'
<1> SUFFICES ASSUME IInv, [Next]_vars PROVE IInv'
  OBVIOUS
<1>1. CASE RouterStep \/ TimeOut \/ JoinTimesOut
  BY <1>1, ServeStep, StopStep DEF RouterStep
<1>2. proc \in [Engines -> {"starting", "up", "stopping", "failing", "ended"}]
  BY DEF IInv, Shape
<1>3. ASSUME NEW e \in Engines, TakeCommand(e) PROVE IInv'
  BY <1>3, TakeStep
<1>4. ASSUME NEW e \in Engines,
             Start(e) \/ Drain(e) \/ Exit(e) \/ StartFails(e) \/ ExitFails(e) \/ Crash(e)
      PROVE  IInv'
  <2>1. UNCHANGED <<pc, turn, wave, commands>>
    BY <1>4 DEF Start, Drain, Exit, StartFails, ExitFails, Crash, ProcessEnds, routerVars
  <2>2. \/ UNCHANGED proc
        \/ proc[e] # "ended" /\ \E v \in {"up", "ended"} : proc' = [proc EXCEPT ![e] = v]
    BY <1>4 DEF Start, Drain, Exit, CanExit, StartFails, ExitFails, Crash, ProcessEnds, Alive
  <2> QED
    BY <1>2, <2>1, <2>2, LocalStep
<1>5. ASSUME NEW r \in Prompts, RequestStep(r) \/ LeaseExpires(r) \/ LoadFails(r)
      PROVE  IInv'
  <2>1. UNCHANGED <<pc, turn, wave, commands>>
    BY <1>5 DEF RequestStep, Prefilled, Sent, Load, Loaded, Decoded, LeaseExpires, LoadFails,
                routerVars
  <2>2. \/ UNCHANGED proc
        \/ \E e \in Engines : proc[e] = "up" /\ proc' = [proc EXCEPT ![e] = "failing"]
    BY <1>5 DEF RequestStep, Prefilled, Sent, Load, Loaded, Decoded, LeaseExpires, LoadFails,
                ReportFailure, Engines
  <2> QED
    BY <1>2, <2>1, <2>2, LocalStep
<1>6. CASE UNCHANGED vars
  BY <1>2, <1>6, LocalStep DEF vars, routerVars
<1> QED
  BY <1>1, <1>3, <1>4, <1>5, <1>6 DEF Next, Fault, EngineStep

\* P is asked to stop only when D has ended, whatever went wrong before, and when the
\* router returns or raises no engine runs any more (the finally clause of run_pd, the
\* end of run_mode).
THEOREM EnginesStopInOrder == Spec => []PStopsLast
<1>1. IInv => PStopsLast
  BY DEF IInv
<1> QED
  BY <1>1, InitInv, NextInv, PTL DEF Spec
-----------------------------------------------------------------------------
(***************************************************************************)
(* The waves.  A request id means another request in the next wave, and    *)
(* only the answers to "drain" separate the two: an engine answers when it *)
(* has taken all its commands and has no request, and says nothing of a    *)
(* request after that.                                                     *)
(***************************************************************************)
States == {"none", "waiting", "held", "loading", "running"}

Events == [kind : {"handoff", "done"}, request : Prompts, wave : Int]
          \cup [kind : {"ready", "drained", "error", "stopped"}]

Delivers(m) == m.kind \in {"handoff", "done"}

\* All that an engine has, and all in its pipes, is of this wave.
Current(e) ==
    /\ \A r \in Prompts : State(e, r) # "none" => requests[e][r][2] = wave
    /\ \A i \in DOMAIN events[e] : Delivers(events[e][i]) => events[e][i].wave = wave
    /\ \A i \in DOMAIN commands[e] : commands[e][i].kind = "add" => commands[e][i].wave = wave

\* Nobody asked the engine to drain, and it has not answered.
Undrained(e) ==
    /\ e \notin draining
    /\ \A i \in DOMAIN commands[e] : commands[e][i].kind = "add"
    /\ \A i \in DOMAIN events[e] : events[e][i].kind # "drained"

\* It is asked behind all other commands, and its answer is the last it says of the wave.
Drains(e) ==
    /\ e \in draining => commands[e] = <<>>
    /\ \A i \in DOMAIN commands[e] : commands[e][i].kind # "add" => i = Len(commands[e])
    /\ \A i \in DOMAIN events[e] : events[e][i].kind = "drained" =>
          /\ commands[e] = <<>> /\ e \notin draining /\ IsFinished(e)
          /\ \A j \in DOMAIN events[e] :
                j > i => ~Delivers(events[e][j]) /\ events[e][j].kind # "drained"

Pipes ==
    /\ commands \in [Engines -> Seq(Commands)]
    /\ events \in [Engines -> Seq(Events)]
    /\ requests \in [Engines -> [Prompts -> States \X Int]]
    /\ draining \subseteq Engines /\ wave \in Int

\* While the router works with the engines, each engine is in this wave.
Serving == pc \in {"start", "serve", "drain"}

InWave(e) ==
    /\ Serving => Current(e)
    /\ pc \in {"start", "serve"} => Undrained(e)
    /\ pc = "drain" => Drains(e)

WaveInv ==
    /\ Pipes
    /\ pc = "start" => wave = 1
    /\ \A e \in Engines : InWave(e)

\* The messages of a pipe to which one is added.
LEMMA AppendFacts ==
    ASSUME NEW M, NEW pipe \in Seq(M), NEW m \in M
    PROVE  /\ Append(pipe, m) \in Seq(M) /\ Len(Append(pipe, m)) = Len(pipe) + 1
           /\ \A i \in DOMAIN Append(pipe, m) :
                 \/ i \in DOMAIN pipe /\ Append(pipe, m)[i] = pipe[i]
                 \/ i = Len(pipe) + 1 /\ Append(pipe, m)[i] = m
           /\ \A i \in DOMAIN pipe : i < Len(pipe) + 1 /\ i \in Int
OBVIOUS

\* The messages of a pipe from which the first is taken.
LEMMA TailFacts ==
    ASSUME NEW M, NEW pipe \in Seq(M), pipe # <<>>
    PROVE  /\ Tail(pipe) \in Seq(M) /\ Len(Tail(pipe)) = Len(pipe) - 1
           /\ Head(pipe) \in M /\ 1 \in DOMAIN pipe /\ Head(pipe) = pipe[1]
           /\ \A i \in DOMAIN Tail(pipe) :
                 i + 1 \in DOMAIN pipe /\ i + 1 > 1 /\ i \in Int /\ Tail(pipe)[i] = pipe[i + 1]
           /\ Len(pipe) = 1 => Tail(pipe) = <<>>
<1>1. /\ Tail(pipe) \in Seq(M) /\ Len(Tail(pipe)) = Len(pipe) - 1
      /\ Head(pipe) \in M /\ 1 \in DOMAIN pipe /\ Head(pipe) = pipe[1]
      /\ \A i \in DOMAIN Tail(pipe) :
            i + 1 \in DOMAIN pipe /\ i + 1 > 1 /\ i \in Int /\ Tail(pipe)[i] = pipe[i + 1]
  OBVIOUS
<1>2. \A q \in Seq(M) : Len(q) = 0 => q = <<>>
  OBVIOUS
<1> QED
  BY <1>1, <1>2

\* What an engine has and says is read from its own requests and pipes.
LEMMA OtherEngine ==
    ASSUME NEW f \in Engines, InWave(f), UNCHANGED <<wave, pc>>,
           UNCHANGED <<commands[f], events[f], requests[f]>>, f \in draining' <=> f \in draining
    PROVE  InWave(f)'
BY DEF InWave, Serving, Current, Undrained, Drains, State, IsFinished

\* Going on with a request or giving it up: it may be reported, in its own wave.
LEMMA WorkStep ==
    ASSUME WaveInv, NEW e \in Engines,
           UNCHANGED <<wave, pc, commands, draining>>,
           \A f \in Engines \ {e} : UNCHANGED <<events[f], requests[f]>>,
           Pipes',
           \A r \in Prompts :
              State(e, r)' = "none"
              \/ (State(e, r) # "none" /\ requests'[e][r][2] = requests[e][r][2]),
           \/ UNCHANGED events[e]
           \/ \E m \in Events :
                /\ events'[e] = Append(events[e], m)
                /\ m.kind # "drained"
                /\ Delivers(m) => \E r \in Prompts : State(e, r) # "none"
                                                     /\ m.wave = requests[e][r][2]
    PROVE  WaveInv'
<1>1. ASSUME NEW f \in Engines, f # e PROVE InWave(f)'
  BY <1>1, OtherEngine DEF WaveInv
<1>2. IsFinished(e) => IsFinished(e)'
  BY DEF IsFinished
<1>3. events[e] \in Seq(Events) /\ InWave(e)
  BY DEF WaveInv, Pipes
<1>4. ASSUME Serving PROVE Current(e)'
  <2>1. /\ Current(e) /\ UNCHANGED <<commands[e], wave>>
        /\ \A r \in Prompts : State(e, r) # "none" => requests[e][r][2] = wave
    BY <1>3, <1>4 DEF InWave, Current
  <2>2. \A r \in Prompts : State(e, r)' # "none" => requests'[e][r][2] = wave'
    BY <2>1
  <2>3. \A i \in DOMAIN events'[e] : Delivers(events'[e][i]) => events'[e][i].wave = wave'
    <3>1. CASE UNCHANGED events[e]
      BY <2>1, <3>1 DEF Current
    <3>2. ASSUME NEW m \in Events, events'[e] = Append(events[e], m),
                 Delivers(m) => \E r \in Prompts : State(e, r) # "none"
                                                   /\ m.wave = requests[e][r][2]
          PROVE  \A i \in DOMAIN events'[e] : Delivers(events'[e][i]) => events'[e][i].wave = wave'
      <4>1. Delivers(m) => m.wave = wave
        BY <2>1, <3>2
      <4> QED
        BY <1>3, <2>1, <3>2, <4>1, AppendFacts DEF Current
    <3> QED
      BY <3>1, <3>2
  <2> QED
    BY <2>1, <2>2, <2>3 DEF Current
<1>5. ASSUME Undrained(e) PROVE Undrained(e)'
  <2>1. CASE UNCHANGED events[e]
    BY <1>5, <2>1 DEF Undrained
  <2>2. ASSUME NEW m \in Events, events'[e] = Append(events[e], m), m.kind # "drained"
        PROVE  Undrained(e)'
    BY <1>3, <1>5, <2>2, AppendFacts DEF Undrained
  <2> QED
    BY <2>1, <2>2
<1>6. ASSUME Drains(e) PROVE Drains(e)'
  <2>1. CASE UNCHANGED events[e]
    BY <1>2, <1>6, <2>1 DEF Drains
  <2>2. ASSUME NEW m \in Events, events'[e] = Append(events[e], m), m.kind # "drained",
               Delivers(m) => \E r \in Prompts : State(e, r) # "none"
        PROVE  Drains(e)'
    <3>1. ASSUME NEW i \in DOMAIN events'[e], events'[e][i].kind = "drained"
          PROVE  /\ commands'[e] = <<>> /\ e \notin draining' /\ IsFinished(e)'
                 /\ \A j \in DOMAIN events'[e] :
                       j > i => ~Delivers(events'[e][j]) /\ events'[e][j].kind # "drained"
      <4>1. i \in DOMAIN events[e] /\ events[e][i].kind = "drained"
        BY <1>3, <2>2, <3>1, AppendFacts
      <4>2. /\ commands[e] = <<>> /\ e \notin draining /\ IsFinished(e)
            /\ \A j \in DOMAIN events[e] :
                  j > i => ~Delivers(events[e][j]) /\ events[e][j].kind # "drained"
        BY <1>6, <4>1 DEF Drains
      <4>3. ~Delivers(m)
        BY <2>2, <4>2 DEF IsFinished
      <4> QED
        BY <1>2, <1>3, <2>2, <4>2, <4>3, AppendFacts
    <3> QED
      BY <1>6, <3>1 DEF Drains
  <2> QED
    BY <2>1, <2>2
<1>7. InWave(e)'
  BY <1>3, <1>4, <1>5, <1>6 DEF InWave, Serving
<1> QED
  BY <1>1, <1>7 DEF WaveInv

\* Become changes one request's state, and nothing of its wave.
LEMMA BecomeFacts ==
    ASSUME Pipes, NEW e \in Engines, NEW r \in Prompts, NEW s \in States, Become(e, r, s)
    PROVE  /\ requests' \in [Engines -> [Prompts -> States \X Int]]
           /\ \A f \in Engines \ {e} : UNCHANGED requests[f]
           /\ \A q \in Prompts \ {r} : UNCHANGED requests[e][q]
           /\ State(e, r)' = s /\ requests'[e][r][2] = requests[e][r][2]
<1> DEFINE t == requests[e][r]
           u == [t EXCEPT ![1] = s]
<1>1. requests \in [Engines -> [Prompts -> States \X Int]] /\ t \in States \X Int
  BY DEF Pipes
<1>2. u \in States \X Int /\ u[1] = s /\ u[2] = t[2]
  <2> HIDE DEF t
  <2> QED BY <1>1
<1>3. requests' = [requests EXCEPT ![e] = [requests[e] EXCEPT ![r] = u]]
  BY <1>1 DEF Become
<1> HIDE DEF u
<1> QED
  BY <1>1, <1>2, <1>3 DEF State

\* A request goes on with a report in its own wave, or is over.
LEMMA RequestWave ==
    ASSUME WaveInv, NEW r \in Prompts, RequestStep(r) \/ LeaseExpires(r) \/ LoadFails(r)
    PROVE  WaveInv'
<1>1. Pipes /\ UNCHANGED <<wave, pc, commands, draining>>
  BY DEF WaveInv, RequestStep, Prefilled, Sent, Load, Loaded, Decoded, LeaseExpires,
         LoadFails, routerVars
<1>2. Signal("error") \in Events /\ Signal("error").kind # "drained"
      /\ ~Delivers(Signal("error"))
  BY DEF Signal, Events, Delivers
<1>3. ASSUME NEW e \in Engines, NEW s \in States, Become(e, r, s), State(e, r) # "none",
             \/ UNCHANGED events
             \/ \E m \in Events :
                  /\ events' = Put(events, e, m)
                  /\ m.kind # "drained"
                  /\ Delivers(m) => m.wave = requests[e][r][2]
      PROVE  WaveInv'
  <2>1. /\ requests' \in [Engines -> [Prompts -> States \X Int]]
        /\ \A f \in Engines \ {e} : UNCHANGED requests[f]
        /\ \A q \in Prompts : State(e, q)' = "none"
              \/ (State(e, q) # "none" /\ requests'[e][q][2] = requests[e][q][2])
    BY <1>1, <1>3, BecomeFacts DEF State
  <2>2. events \in [Engines -> Seq(Events)]
    BY <1>1 DEF Pipes
  <2>3. CASE UNCHANGED events
    <3>1. Pipes'
      BY <1>1, <2>1, <2>3 DEF Pipes
    <3> QED
      BY <1>1, <2>1, <2>3, <3>1, WorkStep
  <2>4. ASSUME NEW m \in Events, events' = Put(events, e, m), m.kind # "drained",
               Delivers(m) => m.wave = requests[e][r][2]
        PROVE  WaveInv'
    <3>1. /\ events'[e] = Append(events[e], m)
          /\ \A f \in Engines \ {e} : UNCHANGED events[f]
          /\ events' \in [Engines -> Seq(Events)]
      BY <2>2, <2>4 DEF Put
    <3>2. Pipes'
      BY <1>1, <2>1, <3>1 DEF Pipes
    <3> QED
      BY <1>1, <1>3, <2>1, <2>4, <3>1, <3>2, WorkStep
  <2> QED
    BY <1>3, <2>3, <2>4
<1>4. ASSUME NEW e \in Engines, ReportFailure(e, r), State(e, r) # "none"
      PROVE  WaveInv'
  <2>1. Become(e, r, "none") /\ events' = Put(events, e, Signal("error"))
    BY <1>4 DEF ReportFailure
  <2> QED
    BY <1>2, <1>3, <1>4, <2>1 DEF States
<1>5. ASSUME NEW e \in Engines, State(e, r) # "none", NEW s \in States, Become(e, r, s),
             NEW kind \in {"handoff", "done"},
             events' = Put(events, e, Message(kind, r, requests[e][r][2]))
      PROVE  WaveInv'
  <2> DEFINE m == Message(kind, r, requests[e][r][2])
  <2>1. requests[e][r][2] \in Int
    BY <1>1 DEF Pipes
  <2>2. m \in Events /\ m.kind # "drained" /\ m.wave = requests[e][r][2]
    BY <2>1 DEF Message, Events
  <2> HIDE DEF m
  <2> QED
    BY <1>3, <1>5, <2>2 DEF m
<1>6. CASE Prefilled(r)
  BY <1>5, <1>6 DEF Prefilled, Engines, States
<1>7. CASE Sent(r)
  BY <1>3, <1>7 DEF Sent, Engines, States
<1>8. CASE Load(r)
  <2>1. State("D", r) = "waiting"
        /\ (\/ Become("D", r, "loading") /\ UNCHANGED events
            \/ ReportFailure("D", r))
    BY <1>8 DEF Load
  <2> QED
    BY <1>3, <1>4, <2>1 DEF Engines, States
<1>9. CASE Loaded(r)
  BY <1>3, <1>9 DEF Loaded, Engines, States
<1>10. CASE Decoded(r)
  BY <1>5, <1>10 DEF Decoded, Engines, States
<1>11. CASE LeaseExpires(r) \/ LoadFails(r)
  BY <1>4, <1>11 DEF LeaseExpires, LoadFails, Engines
<1> QED
  BY <1>6, <1>7, <1>8, <1>9, <1>10, <1>11 DEF RequestStep

\* An engine takes a command: an add is of this wave, and nothing is behind a drain.
LEMMA TakeWave ==
    ASSUME WaveInv, NEW e \in Engines, TakeCommand(e)
    PROVE  WaveInv'
<1> DEFINE c == Head(commands[e])
<1>1. /\ commands[e] # <<>> /\ commands' = [commands EXCEPT ![e] = Tail(@)]
      /\ UNCHANGED <<pc, wave>>
      /\ Pipes /\ InWave(e) /\ commands[e] \in Seq(Commands) /\ events[e] \in Seq(Events)
  BY DEF TakeCommand, routerVars, WaveInv, Pipes
<1>2. /\ c \in Commands /\ c = commands[e][1] /\ 1 \in DOMAIN commands[e]
      /\ commands'[e] = Tail(commands[e]) /\ Tail(commands[e]) \in Seq(Commands)
      /\ \A i \in DOMAIN commands'[e] :
            i + 1 \in DOMAIN commands[e] /\ i \in Int /\ commands'[e][i] = commands[e][i + 1]
      /\ Len(commands[e]) = 1 => commands'[e] = <<>>
      /\ Len(commands'[e]) = Len(commands[e]) - 1 /\ Len(commands[e]) \in Nat
  <2> DEFINE q == commands[e]
             t == Tail(q)
  <2>1. commands'[e] = t
    BY <1>1 DEF Pipes
  <2>2. /\ t \in Seq(Commands) /\ Len(t) = Len(q) - 1 /\ c \in Commands
        /\ 1 \in DOMAIN q /\ c = q[1] /\ (Len(q) = 1 => t = <<>>)
        /\ \A i \in DOMAIN t : i + 1 \in DOMAIN q /\ i \in Int /\ t[i] = q[i + 1]
    BY <1>1, TailFacts
  <2>3. Len(q) \in Nat
    BY <1>1
  <2> HIDE DEF q, t, c
  <2>4. /\ c \in Commands /\ c = q[1] /\ 1 \in DOMAIN q
        /\ commands'[e] = t /\ t \in Seq(Commands)
        /\ \A i \in DOMAIN commands'[e] :
              i + 1 \in DOMAIN q /\ i \in Int /\ commands'[e][i] = q[i + 1]
        /\ Len(q) = 1 => commands'[e] = <<>>
        /\ Len(commands'[e]) = Len(q) - 1 /\ Len(q) \in Nat
    BY <2>1, <2>2, <2>3
  <2> QED
    BY <2>4 DEF q, t
<1> HIDE DEF c
<1>3. /\ \A f \in Engines \ {e} : UNCHANGED <<commands[f], events[f], requests[f]>>
                                  /\ (f \in draining' <=> f \in draining)
      /\ Pipes'
      /\ c.kind = "drain" \/ (e \in draining' <=> e \in draining)
      /\ \/ UNCHANGED events[e] \/ events'[e] = Append(events[e], Signal("error"))
      /\ \A r \in Prompts : UNCHANGED requests[e][r]
                            \/ (c.kind = "add" /\ requests'[e][r][2] = c.wave)
  <2>1. commands' \in [Engines -> Seq(Commands)]
        /\ \A f \in Engines \ {e} : UNCHANGED commands[f]
    BY <1>1, <1>2 DEF Pipes
  <2>2. \/ UNCHANGED requests
        \/ /\ c.kind = "add"
           /\ requests' = [requests EXCEPT ![e][c.request] = <<"waiting", c.wave>>]
    BY DEF TakeCommand, c
  <2>3. requests \in [Engines -> [Prompts -> States \X Int]]
    BY <1>1 DEF Pipes
  <2>4. c.kind = "add" => c.request \in Prompts /\ c.wave \in Int
    BY <1>2 DEF Commands
  <2>5. /\ requests' \in [Engines -> [Prompts -> States \X Int]]
        /\ \A f \in Engines \ {e} : UNCHANGED requests[f]
        /\ \A r \in Prompts : UNCHANGED requests[e][r]
                              \/ (c.kind = "add" /\ requests'[e][r][2] = c.wave)
    <3>1. CASE UNCHANGED requests
      BY <2>3, <3>1
    <3>2. ASSUME c.kind = "add", requests' = [requests EXCEPT ![e][c.request] = <<"waiting", c.wave>>]
          PROVE  <2>5!1
      <4> DEFINE u == <<"waiting", c.wave>>
      <4>1. u \in States \X Int /\ u[2] = c.wave
        BY <2>4, <3>2 DEF States
      <4>2. requests' = [requests EXCEPT ![e] = [requests[e] EXCEPT ![c.request] = u]]
        BY <2>3, <3>2
      <4> HIDE DEF u
      <4> QED
        BY <2>3, <2>4, <3>2, <4>1, <4>2
    <3> QED
      BY <2>2, <3>1, <3>2
  <2>6. UNCHANGED events \/ events' = Put(events, e, Signal("error"))
    BY DEF TakeCommand
  <2>7. Signal("error") \in Events /\ events \in [Engines -> Seq(Events)]
    BY <1>1 DEF Signal, Events, Pipes
  <2>8. /\ events' \in [Engines -> Seq(Events)]
        /\ \A f \in Engines \ {e} : UNCHANGED events[f]
        /\ UNCHANGED events[e] \/ events'[e] = Append(events[e], Signal("error"))
    <3> DEFINE m == Signal("error")
    <3> HIDE DEF m
    <3>1. m \in Events /\ events \in [Engines -> Seq(Events)]
          /\ (UNCHANGED events \/ events' = [events EXCEPT ![e] = Append(events[e], m)])
      BY <2>6, <2>7 DEF Put, m
    <3>2. events' \in [Engines -> Seq(Events)]
          /\ (\A f \in Engines \ {e} : UNCHANGED events[f])
          /\ (UNCHANGED events[e] \/ events'[e] = Append(events[e], m))
      <4>1. CASE UNCHANGED events
        BY <3>1, <4>1
      <4>2. CASE events' = [events EXCEPT ![e] = Append(events[e], m)]
        BY <3>1, <4>2
      <4> QED BY <3>1, <4>1, <4>2
    <3> QED BY <3>2 DEF m
  <2>9. draining' = IF c.kind = "drain" THEN draining \cup {e} ELSE draining
    BY DEF TakeCommand, c
  <2> QED
    BY <1>1, <2>1, <2>5, <2>8, <2>9 DEF Pipes
<1>4. /\ Signal("error") \in Events /\ ~Delivers(Signal("error"))
      /\ Signal("error").kind # "drained"
  BY DEF Signal, Events, Delivers
<1>5. \A i \in DOMAIN events'[e] :
         \/ i \in DOMAIN events[e] /\ events'[e][i] = events[e][i]
         \/ ~Delivers(events'[e][i]) /\ events'[e][i].kind # "drained"
  BY <1>1, <1>3, <1>4, AppendFacts
<1>6. ASSUME Serving PROVE Current(e)'
  <2>1. Current(e)
    BY <1>1, <1>6 DEF InWave
  <2>2. c.kind = "add" => c.wave = wave
    BY <1>2, <2>1 DEF Current
  <2>3. \A r \in Prompts : State(e, r)' # "none" => requests'[e][r][2] = wave'
    BY <1>1, <1>3, <2>1, <2>2 DEF Current, State
  <2>4. \A i \in DOMAIN events'[e] : Delivers(events'[e][i]) => events'[e][i].wave = wave'
    BY <1>1, <1>5, <2>1 DEF Current
  <2>5. \A i \in DOMAIN commands'[e] :
           commands'[e][i].kind = "add" => commands'[e][i].wave = wave'
    BY <1>1, <1>2, <2>1 DEF Current
  <2> QED
    BY <2>3, <2>4, <2>5 DEF Current
<1>7. ASSUME Undrained(e) PROVE Undrained(e)'
  <2>1. c.kind = "add"
    BY <1>2, <1>7 DEF Undrained
  <2> QED
    BY <1>2, <1>3, <1>5, <1>7, <2>1 DEF Undrained
<1>8. ASSUME Drains(e) PROVE Drains(e)'
  <2>1. e \notin draining /\ \A i \in DOMAIN events[e] : events[e][i].kind # "drained"
    BY <1>1, <1>8 DEF Drains
  <2>2. \A i \in DOMAIN events'[e] : events'[e][i].kind # "drained"
    BY <1>5, <2>1
  <2>3. c.kind = "drain" => commands'[e] = <<>>
    BY <1>2, <1>8 DEF Drains
  <2>4. \A i \in DOMAIN commands'[e] : commands'[e][i].kind # "add" => i = Len(commands'[e])
    BY <1>2, <1>8 DEF Drains
  <2> QED
    BY <1>3, <2>1, <2>2, <2>3, <2>4 DEF Drains
<1>9. \A f \in Engines : InWave(f)'
  <2>1. InWave(e)'
    BY <1>1, <1>6, <1>7, <1>8 DEF InWave, Serving
  <2>2. ASSUME NEW f \in Engines, f # e PROVE InWave(f)'
    BY <1>1, <1>3, <2>2, OtherEngine DEF WaveInv
  <2> QED
    BY <2>1, <2>2
<1> QED
  BY <1>1, <1>3, <1>9 DEF WaveInv

\* An engine starts, answers, or ends: what it says is no delivery.
LEMMA ProcessWave ==
    ASSUME WaveInv, NEW e \in Engines,
           Start(e) \/ Drain(e) \/ Exit(e) \/ StartFails(e) \/ ExitFails(e) \/ Crash(e)
    PROVE  WaveInv'
<1>1. Pipes /\ UNCHANGED <<wave, pc, commands, requests>> /\ InWave(e)
      /\ events \in [Engines -> Seq(Events)]
  BY DEF WaveInv, Pipes, Start, Drain, Exit, StartFails, ExitFails, Crash, ProcessEnds,
         routerVars
<1>2. ASSUME NEW kind \in {"ready", "drained", "error", "stopped"},
             events' = Put(events, e, Signal(kind))
      PROVE  \E m \in Events :
                /\ m.kind = kind /\ ~Delivers(m)
                /\ events'[e] = Append(events[e], m)
                /\ \A f \in Engines \ {e} : UNCHANGED events[f]
                /\ events' \in [Engines -> Seq(Events)]
  <2> DEFINE m == Signal(kind)
  <2>1. m \in Events /\ m.kind = kind /\ ~Delivers(m)
    BY DEF Signal, Events, Delivers
  <2> HIDE DEF m
  <2>2. events' = [events EXCEPT ![e] = Append(events[e], m)]
    BY <1>2 DEF Put, m
  <2>3. /\ events'[e] = Append(events[e], m)
        /\ \A f \in Engines \ {e} : UNCHANGED events[f]
        /\ events' \in [Engines -> Seq(Events)]
    BY <1>1, <2>1, <2>2
  <2> QED
    BY <2>1, <2>3
<1>3. \A r \in Prompts :
         State(e, r)' = "none"
         \/ (State(e, r) # "none" /\ requests'[e][r][2] = requests[e][r][2])
  BY <1>1 DEF State
<1>4. CASE Drain(e)
  <2>1. e \in draining /\ IsFinished(e) /\ draining' = draining \ {e}
        /\ events' = Put(events, e, Signal("drained"))
    BY <1>4 DEF Drain
  <2>2. PICK m \in Events :
           /\ m.kind = "drained" /\ ~Delivers(m)
           /\ events'[e] = Append(events[e], m)
           /\ \A f \in Engines \ {e} : UNCHANGED events[f]
           /\ events' \in [Engines -> Seq(Events)]
    BY <1>2, <2>1
  <2>3. Pipes'
    BY <1>1, <2>1, <2>2 DEF Pipes
  <2>4. events[e] \in Seq(Events)
    BY <1>1
  <2>5. /\ \A i \in DOMAIN events'[e] :
              \/ i \in DOMAIN events[e] /\ events'[e][i] = events[e][i]
              \/ i = Len(events[e]) + 1 /\ events'[e][i] = m
        /\ \A i \in DOMAIN events[e] : i < Len(events[e]) + 1 /\ i \in Int
        /\ Len(events[e]) \in Nat
    BY <2>2, <2>4, AppendFacts
  <2>6. ASSUME Serving PROVE Current(e)'
    <3>1. Current(e)
      BY <1>1, <2>6 DEF InWave
    <3> QED
      BY <1>1, <2>2, <2>5, <3>1 DEF Current, State
  <2>7. ~Undrained(e)
    BY <2>1 DEF Undrained
  <2>8. ASSUME Drains(e) PROVE Drains(e)'
    <3>1. /\ commands[e] = <<>> /\ e \notin draining' /\ IsFinished(e)'
          /\ \A i \in DOMAIN events[e] : events[e][i].kind # "drained"
      BY <1>1, <2>1, <2>8 DEF Drains, IsFinished, State
    <3>2. ASSUME NEW i \in DOMAIN events'[e], events'[e][i].kind = "drained",
                 NEW j \in DOMAIN events'[e], j > i
          PROVE  FALSE
      BY <2>5, <3>1, <3>2
    <3> QED
      BY <1>1, <2>8, <3>1, <3>2 DEF Drains
  <2>9. InWave(e)'
    BY <1>1, <2>6, <2>7, <2>8 DEF InWave, Serving
  <2>10. ASSUME NEW f \in Engines, f # e PROVE InWave(f)'
    BY <1>1, <2>1, <2>2, <2>10, OtherEngine DEF WaveInv
  <2> QED
    BY <1>1, <2>3, <2>9, <2>10 DEF WaveInv
<1>5. CASE ~Drain(e)
  <2>1. UNCHANGED draining
    BY <1>5 DEF Start, Exit, StartFails, ExitFails, Crash, ProcessEnds
  <2>2. UNCHANGED events \/ \E kind \in {"ready", "error", "stopped"} :
                               events' = Put(events, e, Signal(kind))
    BY <1>5 DEF Start, Exit, StartFails, ExitFails, Crash, ProcessEnds
  <2>3. CASE UNCHANGED events
    <3>1. Pipes'
      BY <1>1, <2>1, <2>3 DEF Pipes
    <3> QED
      BY <1>1, <1>3, <2>1, <2>3, <3>1, WorkStep
  <2>4. ASSUME NEW kind \in {"ready", "error", "stopped"}, events' = Put(events, e, Signal(kind))
        PROVE  WaveInv'
    <3>1. PICK m \in Events :
             /\ m.kind = kind /\ ~Delivers(m)
             /\ events'[e] = Append(events[e], m)
             /\ \A f \in Engines \ {e} : UNCHANGED events[f]
             /\ events' \in [Engines -> Seq(Events)]
      BY <1>2, <2>4
    <3>2. Pipes'
      BY <1>1, <2>1, <3>1 DEF Pipes
    <3> QED
      BY <1>1, <1>3, <2>1, <3>1, <3>2, WorkStep
  <2> QED
    BY <2>2, <2>3, <2>4
<1> QED
  BY <1>4, <1>5

\* The adds of a wave go to P, behind what is in its pipe.
LEMMA SendFacts ==
    ASSUME Pipes, NEW w \in Int, SendWave(w)
    PROVE  /\ commands' \in [Engines -> Seq(Commands)]
           /\ UNCHANGED commands["D"]
           /\ \A i \in DOMAIN commands'["P"] :
                 \/ i \in DOMAIN commands["P"] /\ commands'["P"][i] = commands["P"][i]
                 \/ commands'["P"][i].kind = "add" /\ commands'["P"][i].wave = w
<1>1. PICK order \in [1 .. Cardinality(Prompts) -> Prompts] :
        commands' = [commands EXCEPT !["P"] = @ \o [i \in DOMAIN order |-> Message("add", order[i], w)]]
  BY DEF SendWave
<1> DEFINE adds == [i \in DOMAIN order |-> Message("add", order[i], w)]
           q == commands["P"]
<1>2. Cardinality(Prompts) \in Nat
  BY RouterAssumption, FS_CardinalityType
<1>3. adds \in Seq(Commands) /\ \A i \in DOMAIN adds : adds[i].kind = "add" /\ adds[i].wave = w
  BY <1>2 DEF Message, Commands
<1>4. commands \in [Engines -> Seq(Commands)] /\ "P" \in Engines /\ "D" \in Engines
      /\ q \in Seq(Commands)
  BY DEF Pipes, Engines
<1> HIDE DEF adds
<1>5. commands' = [commands EXCEPT !["P"] = q \o adds]
  BY <1>1 DEF adds
<1> HIDE DEF q
<1>6. q \o adds \in Seq(Commands)
      /\ \A i \in DOMAIN (q \o adds) :
            \/ i \in DOMAIN q /\ (q \o adds)[i] = q[i]
            \/ i - Len(q) \in DOMAIN adds /\ (q \o adds)[i] = adds[i - Len(q)]
  BY <1>3, <1>4
<1> DEFINE both == q \o adds
<1> HIDE DEF both
<1>7. commands'["P"] = both /\ UNCHANGED commands["D"]
      /\ commands' \in [Engines -> Seq(Commands)]
  BY <1>4, <1>5, <1>6 DEF both
<1> QED
  BY <1>3, <1>6, <1>7 DEF q, both

\* The router passes a handoff on in its wave.
LEMMA RouterWave ==
    ASSUME WaveInv, NEW e \in Engines, TakeEvent(e)
    PROVE  WaveInv'
<1> DEFINE q == events[e]
           t == Tail(q)
           m == Head(q)
<1>1. /\ Pipes /\ \A f \in Engines : InWave(f)
      /\ events \in [Engines -> Seq(Events)] /\ commands \in [Engines -> Seq(Commands)]
      /\ pc = "serve" /\ q # <<>> /\ events' = [events EXCEPT ![e] = t]
      /\ UNCHANGED <<wave, requests, draining>>
  BY DEF WaveInv, Pipes, TakeEvent, unchangedEngines
<1>2. q \in Seq(Events)
  BY <1>1
<1>3. /\ t \in Seq(Events) /\ m \in Events /\ 1 \in DOMAIN q /\ m = q[1]
      /\ \A i \in DOMAIN t : i + 1 \in DOMAIN q /\ t[i] = q[i + 1]
  BY <1>1, <1>2, TailFacts
<1> DEFINE c == Message("add", m.request, m.wave)
<1>4. \/ pc' = "stop" /\ UNCHANGED commands
      \/ /\ pc' = "serve" /\ Delivers(m)
         /\ UNCHANGED commands \/ commands' = Put(commands, "D", c)
  BY <1>1 DEF TakeEvent, Raise, Delivers
<1>5. Delivers(m) => m.wave = wave
  BY <1>1, <1>3 DEF InWave, Serving, Current
<1>6. Delivers(m) => c \in Commands /\ c.kind = "add" /\ c.wave = m.wave
  BY <1>3 DEF Delivers, Events, Commands, Message
<1> HIDE DEF t, m, c
<1>7. /\ events'[e] = t /\ \A f \in Engines \ {e} : UNCHANGED events[f]
      /\ events' \in [Engines -> Seq(Events)]
  BY <1>1, <1>3
<1>8. CASE UNCHANGED commands
  <2>1. Pipes'
    BY <1>1, <1>7, <1>8 DEF Pipes
  <2>2. ASSUME NEW f \in Engines, pc' = "serve" PROVE Current(f)' /\ Undrained(f)'
    <3>1. Current(f) /\ Undrained(f)
      BY <1>1 DEF InWave, Serving
    <3>2. \A i \in DOMAIN events'[f] : \E k \in DOMAIN events[f] : events'[f][i] = events[f][k]
      BY <1>3, <1>7 DEF q
    <3> QED
      BY <1>1, <1>8, <3>1, <3>2 DEF Current, Undrained, State
  <2> QED
    BY <1>4, <2>1, <2>2 DEF WaveInv, InWave, Serving
<1>9. CASE commands' = Put(commands, "D", c) /\ pc' = "serve" /\ Delivers(m)
  <2>1. commands["D"] \in Seq(Commands) /\ "D" \in Engines
    BY <1>1 DEF Engines
  <2>2. commands' = [commands EXCEPT !["D"] = Append(commands["D"], c)]
    BY <1>9 DEF Put
  <2>3. /\ Append(commands["D"], c) \in Seq(Commands)
        /\ \A i \in DOMAIN Append(commands["D"], c) :
              \/ i \in DOMAIN commands["D"] /\ Append(commands["D"], c)[i] = commands["D"][i]
              \/ Append(commands["D"], c)[i] = c
    BY <1>6, <1>9, <2>1, AppendFacts
  <2> DEFINE a == Append(commands["D"], c)
  <2> HIDE DEF a
  <2>4. commands'["D"] = a /\ (\A f \in Engines \ {"D"} : UNCHANGED commands[f])
        /\ commands' \in [Engines -> Seq(Commands)]
    BY <1>1, <2>1, <2>2, <2>3 DEF a
  <2>5. \A f \in Engines : \A i \in DOMAIN commands'[f] :
           \/ i \in DOMAIN commands[f] /\ commands'[f][i] = commands[f][i]
           \/ commands'[f][i] = c
    BY <2>3, <2>4 DEF a
  <2>6. Pipes'
    BY <1>1, <1>7, <2>4 DEF Pipes
  <2>7. ASSUME NEW f \in Engines PROVE Current(f)' /\ Undrained(f)'
    <3>1. Current(f) /\ Undrained(f)
      BY <1>1 DEF InWave, Serving
    <3>2. \A i \in DOMAIN events'[f] : \E k \in DOMAIN events[f] : events'[f][i] = events[f][k]
      BY <1>3, <1>7 DEF q
    <3>3. \A i \in DOMAIN commands'[f] :
             commands'[f][i].kind = "add" /\ commands'[f][i].wave = wave
      BY <1>5, <1>6, <1>9, <2>5, <3>1 DEF Current, Undrained
    <3> QED
      BY <1>1, <3>1, <3>2, <3>3 DEF Current, Undrained, State
  <2> QED
    BY <1>9, <2>6, <2>7 DEF WaveInv, InWave, Serving
<1> QED
  BY <1>4, <1>8, <1>9

\* The adds of a wave begin it where nothing is left of another one.
LEMMA NewWave ==
    ASSUME Pipes, NEW w \in Int, SendWave(w), wave' = w, pc' = "serve",
           UNCHANGED requests, events' = [e \in Engines |-> Tail(events[e])],
           draining' = {},
           \A e \in Engines :
              /\ events[e] # <<>>
              /\ \A i \in DOMAIN commands[e] :
                    commands[e][i].kind = "add" /\ commands[e][i].wave = w
              /\ \A r \in Prompts : State(e, r) # "none" => requests[e][r][2] = w
              /\ \A i \in DOMAIN events[e] : i > 1 =>
                    /\ events[e][i].kind # "drained"
                    /\ Delivers(events[e][i]) => events[e][i].wave = w
    PROVE  WaveInv'
<1>1. /\ events \in [Engines -> Seq(Events)]
      /\ commands' \in [Engines -> Seq(Commands)] /\ UNCHANGED commands["D"]
      /\ \A i \in DOMAIN commands'["P"] :
            \/ i \in DOMAIN commands["P"] /\ commands'["P"][i] = commands["P"][i]
            \/ commands'["P"][i].kind = "add" /\ commands'["P"][i].wave = w
  BY SendFacts DEF Pipes
<1>2. ASSUME NEW e \in Engines
      PROVE  /\ events'[e] \in Seq(Events)
             /\ \A i \in DOMAIN events'[e] :
                   /\ events'[e][i].kind # "drained"
                   /\ Delivers(events'[e][i]) => events'[e][i].wave = w
  <2> DEFINE q == events[e]
             t == Tail(q)
  <2>1. q \in Seq(Events) /\ q # <<>> /\ events'[e] = t
    BY <1>1
  <2>2. t \in Seq(Events)
        /\ \A i \in DOMAIN t : i + 1 \in DOMAIN q /\ i + 1 > 1 /\ t[i] = q[i + 1]
    BY <2>1, TailFacts
  <2> HIDE DEF t
  <2> QED
    BY <2>1, <2>2
<1>3. \A e \in Engines : \A i \in DOMAIN commands'[e] :
         commands'[e][i].kind = "add" /\ commands'[e][i].wave = w
  <2>1. \A i \in DOMAIN commands'["P"] :
           commands'["P"][i].kind = "add" /\ commands'["P"][i].wave = w
    BY <1>1 DEF Engines
  <2>2. \A i \in DOMAIN commands'["D"] :
           commands'["D"][i].kind = "add" /\ commands'["D"][i].wave = w
    BY <1>1 DEF Engines
  <2> QED
    BY <2>1, <2>2 DEF Engines
<1>4. events' \in [Engines -> Seq(Events)]
  BY <1>2
<1>5. Pipes'
  BY <1>1, <1>4 DEF Pipes
<1>6. \A e \in Engines : Current(e)' /\ Undrained(e)'
  BY <1>2, <1>3 DEF Current, Undrained, State
<1> QED
  BY <1>5, <1>6 DEF WaveInv, InWave, Serving

\* The first wave begins on engines that have just started, another when both engines
\* have said that they are drained.
LEMMA BeginWave ==
    ASSUME WaveInv, Started \/ Drained
    PROVE  WaveInv'
<1>1. CASE Started
  <2>1. /\ Pipes /\ wave = 1 /\ UNCHANGED <<wave, requests, draining>>
        /\ SendWave(1) /\ pc' = "serve"
        /\ events' = [e \in Engines |-> Tail(events[e])]
        /\ \A e \in Engines : events[e] # <<>> /\ Current(e) /\ Undrained(e)
        /\ draining \subseteq Engines
    BY <1>1 DEF Started, WaveInv, Pipes, InWave, Serving, Heard, unchangedEngines
  <2>2. draining' = {}
    BY <2>1 DEF Undrained
  <2>3. ASSUME NEW e \in Engines
        PROVE  /\ events[e] # <<>>
               /\ \A i \in DOMAIN commands[e] :
                     commands[e][i].kind = "add" /\ commands[e][i].wave = 1
               /\ \A r \in Prompts : State(e, r) # "none" => requests[e][r][2] = 1
               /\ \A i \in DOMAIN events[e] : i > 1 =>
                     /\ events[e][i].kind # "drained"
                     /\ Delivers(events[e][i]) => events[e][i].wave = 1
    BY <2>1 DEF Current, Undrained
  <2> QED
    BY <2>1, <2>2, <2>3, NewWave
<1>2. CASE Drained
  <2>1. /\ Pipes /\ UNCHANGED <<requests, draining>> /\ wave \in Int
        /\ events' = [e \in Engines |-> Tail(events[e])]
        /\ \A e \in Engines : Heard(e, "drained") /\ Drains(e)
        /\ draining \subseteq Engines /\ events \in [Engines -> Seq(Events)]
    BY <1>2 DEF Drained, WaveInv, Pipes, InWave, unchangedEngines
  <2>2. ASSUME NEW e \in Engines
        PROVE  /\ commands[e] = <<>> /\ IsFinished(e) /\ events[e] # <<>> /\ e \notin draining
               /\ \A i \in DOMAIN events[e] :
                     i > 1 => ~Delivers(events[e][i]) /\ events[e][i].kind # "drained"
    <3>1. 1 \in DOMAIN events[e] /\ events[e][1].kind = "drained" /\ events[e] # <<>>
      BY <2>1 DEF Heard
    <3> QED
      BY <2>1, <3>1 DEF Drains
  <2>3. CASE NextWave
    <3>1. wave' = wave + 1 /\ wave + 1 \in Int /\ SendWave(wave + 1) /\ pc' = "serve"
      BY <2>1, <2>3 DEF NextWave
    <3>2. draining' = {}
      BY <2>1, <2>2
    <3>3. ASSUME NEW e \in Engines
          PROVE  /\ events[e] # <<>>
                 /\ \A i \in DOMAIN commands[e] :
                       commands[e][i].kind = "add" /\ commands[e][i].wave = wave + 1
                 /\ \A r \in Prompts : State(e, r) # "none" => requests[e][r][2] = wave + 1
                 /\ \A i \in DOMAIN events[e] : i > 1 =>
                       /\ events[e][i].kind # "drained"
                       /\ Delivers(events[e][i]) => events[e][i].wave = wave + 1
      <4>1. DOMAIN commands[e] = {}
        BY <2>2
      <4> QED
        BY <2>2, <4>1 DEF IsFinished
    <3> QED
      BY <2>1, <3>1, <3>2, <3>3, NewWave
  <2>4. CASE LastWave
    <3>1. pc' = "stop" /\ UNCHANGED <<wave, commands>>
      BY <2>4 DEF LastWave
    <3>2. ASSUME NEW e \in Engines PROVE Tail(events[e]) \in Seq(Events)
      BY <2>1, <2>2, TailFacts
    <3>3. Pipes'
      BY <2>1, <3>1, <3>2 DEF Pipes
    <3> QED
      BY <3>1, <3>3 DEF WaveInv, InWave, Serving
  <2> QED
    BY <1>2, <2>3, <2>4 DEF Drained
<1> QED
  BY <1>1, <1>2

\* The end of a wave: a drain is put behind the last add in each pipe.
LEMMA EndOfWave ==
    ASSUME WaveInv, EndWave
    PROVE  WaveInv'
<1>1. /\ Pipes /\ UNCHANGED <<wave, events, requests, draining>> /\ pc = "serve"
      /\ \A e \in Engines : Current(e) /\ Undrained(e)
      /\ commands \in [Engines -> Seq(Commands)]
  BY DEF EndWave, LastWave, WaveInv, Pipes, InWave, Serving, unchangedEngines
<1>2. CASE program = "bench"
  <2> DEFINE m == Signal("drain")
  <2>1. m \in Commands /\ m.kind # "add"
    BY DEF Signal, Commands
  <2>2. pc' = "drain" /\ commands' = [e \in Engines |-> Append(commands[e], m)]
    BY <1>2 DEF EndWave
  <2> HIDE DEF m
  <2>3. ASSUME NEW e \in Engines
        PROVE  /\ commands'[e] \in Seq(Commands)
               /\ \A i \in DOMAIN commands'[e] :
                     \/ i \in DOMAIN commands[e] /\ commands'[e][i] = commands[e][i]
                     \/ i = Len(commands'[e]) /\ commands'[e][i] = m
    <3> DEFINE q == commands[e]
               a == Append(q, m)
    <3>1. q \in Seq(Commands) /\ commands'[e] = a
      BY <1>1, <2>2
    <3>2. a \in Seq(Commands) /\ Len(a) = Len(q) + 1
          /\ \A i \in DOMAIN a : (i \in DOMAIN q /\ a[i] = q[i]) \/ (i = Len(q) + 1 /\ a[i] = m)
      BY <2>1, <3>1, AppendFacts
    <3> HIDE DEF a
    <3> QED
      BY <3>1, <3>2
  <2>4. Pipes'
    <3>1. commands' \in [Engines -> Seq(Commands)]
      BY <2>2, <2>3
    <3> QED
      BY <1>1, <3>1 DEF Pipes
  <2>5. ASSUME NEW e \in Engines PROVE Current(e)' /\ Drains(e)'
    <3>1. Current(e) /\ Undrained(e)
      BY <1>1
    <3>2. Current(e)'
      BY <1>1, <2>1, <2>3, <3>1 DEF Current, State
    <3>3. Drains(e)'
      BY <1>1, <2>3, <3>1 DEF Undrained, Drains
    <3> QED
      BY <3>2, <3>3
  <2> QED
    BY <2>2, <2>4, <2>5 DEF WaveInv, InWave, Serving
<1>3. CASE program # "bench"
  <2>1. pc' = "stop" /\ UNCHANGED commands
    BY <1>3 DEF EndWave, LastWave
  <2> QED
    BY <1>1, <2>1 DEF Pipes, WaveInv, InWave, Serving
<1> QED
  BY <1>2, <1>3

\* A router that stops the engines serves no wave any more.
LEMMA StopWave ==
    ASSUME WaveInv, IInv, Fail \/ TimeOut \/ Stop \/ Join \/ JoinTimesOut
    PROVE  WaveInv'
<1>1. /\ Pipes /\ UNCHANGED <<wave, events, requests, draining>>
      /\ commands \in [Engines -> Seq(Commands)]
  BY DEF Fail, TimeOut, Stop, Join, JoinTimesOut, WaveInv, Pipes, unchangedEngines
<1>2. pc' \in {"stop", "join", "end"}
  BY DEF Fail, TimeOut, Stop, Join, JoinTimesOut, Raise, Proceed
<1>3. commands' \in [Engines -> Seq(Commands)]
  <2>1. CASE UNCHANGED commands
    BY <1>1, <2>1
  <2>2. ASSUME NEW e \in Engines, commands' = Put(commands, e, Signal("stop"))
        PROVE  commands' \in [Engines -> Seq(Commands)]
    <3> DEFINE m == Signal("stop")
    <3>1. m \in Commands
      BY DEF Signal, Commands
    <3> HIDE DEF m
    <3>2. commands' = [commands EXCEPT ![e] = Append(commands[e], m)]
      BY <2>2 DEF Put, m
    <3>3. Append(commands[e], m) \in Seq(Commands)
      BY <1>1, <3>1
    <3> QED
      BY <1>1, <3>2, <3>3
  <2>3. UNCHANGED commands \/ \E e \in Engines : commands' = Put(commands, e, Signal("stop"))
    BY DEF Fail, TimeOut, Stop, Join, JoinTimesOut, IInv, Shape, StopOrder, Engines
  <2> QED
    BY <2>1, <2>2, <2>3
<1>4. Pipes'
  BY <1>1, <1>3 DEF Pipes
<1> QED
  BY <1>2, <1>4 DEF WaveInv, InWave, Serving

\* Nothing is under way when the router starts the engines.
LEMMA InitWave == Init => WaveInv
<1> SUFFICES ASSUME Init PROVE WaveInv
  OBVIOUS
<1>1. \A e \in Engines : commands[e] = <<>> /\ events[e] = <<>> /\ e \notin draining
                         /\ \A r \in Prompts : requests[e][r] = <<"none", 0>>
  BY DEF Init
<1>2. <<"none", 0>> \in States \X Int /\ <<"none", 0>>[1] = "none"
  BY DEF States
<1>3. Pipes
  BY <1>2 DEF Init, Pipes
<1>4. \A e \in Engines : Current(e) /\ Undrained(e)
  BY <1>1, <1>2 DEF Current, Undrained, State
<1> QED
  BY <1>3, <1>4 DEF Init, WaveInv, InWave, Serving

\* No step mixes two waves.
LEMMA NextWaveInv == IInv /\ WaveInv /\ [Next]_vars => WaveInv'
<1> SUFFICES ASSUME IInv, WaveInv, [Next]_vars PROVE WaveInv'
  OBVIOUS
<1>1. CASE RouterStep \/ TimeOut \/ JoinTimesOut
  <2>1. ASSUME NEW e \in Engines, TakeEvent(e) PROVE WaveInv'
    BY <2>1, RouterWave
  <2>2. CASE Started \/ Drained
    BY <2>2, BeginWave
  <2>3. CASE EndWave
    BY <2>3, EndOfWave
  <2>4. CASE Fail \/ TimeOut \/ Stop \/ Join \/ JoinTimesOut
    BY <2>4, StopWave
  <2> QED
    BY <1>1, <2>1, <2>2, <2>3, <2>4 DEF RouterStep
<1>2. ASSUME NEW e \in Engines, EngineStep(e) \/ StartFails(e) \/ ExitFails(e) \/ Crash(e)
      PROVE  WaveInv'
  BY <1>2, TakeWave, ProcessWave DEF EngineStep
<1>3. ASSUME NEW r \in Prompts, RequestStep(r) \/ LeaseExpires(r) \/ LoadFails(r)
      PROVE  WaveInv'
  BY <1>3, RequestWave
<1>4. CASE UNCHANGED vars
  BY <1>4 DEF vars, routerVars, WaveInv, Pipes, InWave, Serving, Current, Undrained, Drains,
              State, IsFinished
<1> QED
  BY <1>1, <1>2, <1>3, <1>4 DEF Next, Fault

\* While a wave is served, every request on an engine and every handoff or result in a pipe
\* is of this wave, although its ids are those of the waves before and requests may fail,
\* leases expire and engines crash in between (the drain handshake of run_mode).
THEOREM WavesAreApart == Spec => []WavesDoNotMix
<1>1. WaveInv => WavesDoNotMix
  BY DEF WaveInv, InWave, Serving, Current, Delivers, WavesDoNotMix
<1>2. Spec => [](IInv /\ WaveInv)
  <2>1. Init => IInv /\ WaveInv
    BY InitInv, InitWave
  <2>2. (IInv /\ WaveInv) /\ [Next]_vars => (IInv /\ WaveInv)'
    BY NextInv, NextWaveInv
  <2> QED
    BY <2>1, <2>2, PTL DEF Spec
<1> QED
  BY <1>1, <1>2, PTL
=============================================================================
