-------------------------- MODULE ProcessCommandProofs --------------------------
(***************************************************************************)
(* The upstream process for every set of callers and requests: what the     *)
(* phase of the run loop says about its variables, that no child escapes    *)
(* it, that every call is answered once and truthfully, and that the        *)
(* process implements the life cycle the router relies on.                  *)
(***************************************************************************)
EXTENDS ProcessCommand, TLAPS

-----------------------------------------------------------------------------
(* The inductive invariant.                                                *)

\* What the place of the run loop says about the variables of the run loop.
ControlOK ==
    /\ at = "select" <=> state \in {"stopped", "ready"}
    /\ at \in {"starting", "aborting"} <=> state = "starting"
    /\ at = "stopping" <=> state = "stopping"
    /\ at \in {"closing", "exited"} <=> state = "shutdown"
    /\ state \in {"ready", "stopping"} => cmd # None /\ handler = cmd
    /\ state \notin {"ready", "stopping"} => handler = None
    /\ state \in {"stopped", "starting"} \/ at = "exited" => cmd = None
    /\ runResp # None => cmd # None
    /\ req # None <=> start.at # "none"
    /\ state = "starting" => req # None
    /\ state \in {"stopped", "ready", "stopping"} \/ at = "exited" => req = None
    /\ cmd = None \/ req = None
    /\ pendingStop # None <=> at \in {"aborting", "stopping"}
    /\ state = "shutdown" => closed

\* What is alive is in the hands of the run loop; a start that failed, or has
\* not spawned yet, has left nothing behind.
ChildrenOK ==
    /\ Alive \subseteq {cmd, req}
    /\ start.at = "begin" \/ (start.at = "done" /\ start.res = "error") => req \notin Alive

\* The calls the run loop has received and not answered.
Owed == readyWaiters \cup ({req, runResp} \ {None}) \cup StopCaller(pendingStop)

\* Owed is exactly what is parked without an answer, but for callers that left,
\* and starts that were cut off when parentCtx was cancelled.
AnswersOK ==
    /\ \A c \in Callers : caller[c] = "new" => answer[c] = "none"
    /\ \A c \in Owed : answer[c] = "none" /\ caller[c] # "new"
    /\ \A c \in Callers : caller[c] = "parked" /\ answer[c] = "none" =>
          c \in Owed \/ (closed /\ c \in Starters)
    /\ state \in {"ready", "stopping"} \/ at = "exited" => readyWaiters = {}

IInv == TypeOK /\ ControlOK /\ ChildrenOK /\ AnswersOK

-----------------------------------------------------------------------------
(* Initial states and steps.                                               *)

\* The kinds of callers, and that no channel is a caller.
LEMMA Kinds ==
  /\ Starters \subseteq Callers /\ Stoppers \subseteq Callers
  /\ Starters \cap Stoppers = {}
  /\ None \notin Callers
  /\ \A c \in Callers : c \in Starters <=> Op[c] \in {"Run", "EnsureReady"}
  /\ \A c \in Callers : c \in Stoppers <=> Op[c] = "Stop"
  BY CallersAssumption DEF Starters, Stoppers

\* A new process is stopped, and nobody has called.
LEMMA InitInv == Init => IInv
<1> SUFFICES ASSUME Init PROVE IInv
  OBVIOUS
<1>1. TypeOK
  BY CallersAssumption DEF Init, TypeOK, LoopPlaces, StartStates, NoStart
<1>2. ControlOK
  BY DEF Init, ControlOK, NoStart
<1>3. ChildrenOK
  BY DEF Init, ChildrenOK, Alive, NoStart
<1>4. AnswersOK
  BY Kinds DEF Init, AnswersOK, Owed, StopCaller
<1> QED
  BY <1>1, <1>2, <1>3, <1>4 DEF IInv

\* The types, and what they need of ControlOK.
LEMMA TypeStep == IInv /\ [Next]_vars => TypeOK'
<1> SUFFICES ASSUME IInv, [Next]_vars PROVE TypeOK'
  OBVIOUS
<1> USE Kinds DEF IInv, TypeOK, LoopPlaces, StartStates, NoStart, loopVars, Respond, Idle
<1>1. ASSUME NEW c \in Callers, Receive(c) PROVE TypeOK'
  <2>1. CASE OnWaitReady(c)
    BY <2>1 DEF OnWaitReady
  <2>2. CASE OnStart(c)
    BY <2>2 DEF OnStart
  <2>3. CASE OnStop(c)
    BY <2>3 DEF OnStop, ReceiveStop
  <2>4. CASE AbortStart(c)
    BY <2>4 DEF AbortStart, ReceiveStop
  <2> QED
    BY <1>1, <2>1, <2>2, <2>3, <2>4 DEF Receive
<1>2. ASSUME NEW c \in Callers, Return(c) \/ Leave(c) PROVE TypeOK'
  BY <1>2 DEF Return, Leave
<1>3. CASE StartServed
  <2>1. req \in Starters
    BY <1>3 DEF StartServed, ControlOK
  <2> QED
    BY <1>3, <2>1 DEF StartServed
<1>4. CASE StartFailed
  BY <1>4 DEF StartFailed
<1>5. CASE AbortEnd
  BY <1>5 DEF AbortEnd
<1>6. CASE StopEnd
  BY <1>6 DEF StopEnd
<1>7. CASE UpstreamExited
  BY <1>7 DEF UpstreamExited
<1>8. CASE OnClose \/ CloseEnd
  BY <1>8 DEF OnClose, CloseEnd
<1>9. CASE DoStart
  <2>1. CASE SpawnFails \/ HealthCheckPasses \/ ChildGone
    <3>1. \E res \in {"ok", "error"} : start' = [start EXCEPT !.at = "done", !.res = res]
      BY <2>1 DEF SpawnFails, HealthCheckPasses, ChildGone, StartReturns
    <3>2. start' \in StartStates
      BY <3>1
    <3> QED
      BY <2>1, <3>2 DEF SpawnFails, HealthCheckPasses, ChildGone
  <2>2. CASE Spawn \/ HealthCheckAborts
    BY <2>2 DEF Spawn, HealthCheckAborts
  <2> QED
    BY <1>9, <2>1, <2>2 DEF DoStart
<1>10. CASE CloseParent
  BY <1>10 DEF CloseParent
<1>11. ASSUME NEW c \in Starters, Exit(c) \/ TtlExpires(c) \/ TtlEnds(c) PROVE TypeOK'
  BY <1>11 DEF Exit, TtlExpires, TtlEnds
<1>12. ASSUME NEW q \in Requests, Forward(q) \/ Count(q) \/ Finish(q) PROVE TypeOK'
  BY <1>12 DEF Forward, Count, Finish
<1>13. CASE UNCHANGED vars
  BY <1>13 DEF vars
<1> QED
  BY <1>1, <1>2, <1>3, <1>4, <1>5, <1>6, <1>7, <1>8, <1>9, <1>10, <1>11, <1>12, <1>13
  DEF Next, LoopStep

\* A step of the run loop goes from one row of ControlOK to another; nobody
\* else touches its variables.
LEMMA ControlStep == IInv /\ [Next]_vars => ControlOK'
<1> SUFFICES ASSUME IInv, [Next]_vars PROVE ControlOK'
  OBVIOUS
<1> USE Kinds DEF IInv, ControlOK, loopVars, NoStart, Idle
<1>1. ASSUME NEW c \in Callers, Receive(c) PROVE ControlOK'
  <2>1. CASE OnWaitReady(c)
    BY <2>1 DEF OnWaitReady
  <2>2. CASE OnStart(c)
    BY <2>2 DEF OnStart
  <2>3. CASE OnStop(c)
    BY <2>3 DEF OnStop, ReceiveStop, TypeOK
  <2>4. CASE AbortStart(c)
    BY <2>4 DEF AbortStart, ReceiveStop
  <2> QED
    BY <1>1, <2>1, <2>2, <2>3, <2>4 DEF Receive
<1>2. ASSUME NEW c \in Callers, Return(c) \/ Leave(c) PROVE ControlOK'
  BY <1>2 DEF Return, Leave
<1>3. CASE StartServed
  BY <1>3 DEF StartServed
<1>4. CASE StartFailed \/ AbortEnd
  BY <1>4 DEF StartFailed, AbortEnd
<1>5. CASE StopEnd
  BY <1>5 DEF StopEnd
<1>6. CASE UpstreamExited
  BY <1>6 DEF UpstreamExited
<1>7. CASE OnClose
  BY <1>7 DEF OnClose
<1>8. CASE CloseEnd
  BY <1>8 DEF CloseEnd
<1>9. CASE DoStart
  <2>1. start.at # "none"
    BY <1>9 DEF DoStart, SpawnFails, Spawn, HealthCheckPasses, HealthCheckAborts, ChildGone
  <2>2. CASE Spawn \/ HealthCheckAborts
    BY <2>1, <2>2 DEF Spawn, HealthCheckAborts, TypeOK, StartStates
  <2>3. CASE SpawnFails \/ HealthCheckPasses \/ ChildGone
    <3>1. start'.at = "done"
      BY <2>3 DEF SpawnFails, HealthCheckPasses, ChildGone, StartReturns, TypeOK, StartStates
    <3> QED
      BY <2>1, <2>3, <3>1 DEF SpawnFails, HealthCheckPasses, ChildGone
  <2> QED
    BY <1>9, <2>2, <2>3 DEF DoStart
<1>10. CASE CloseParent
  BY <1>10 DEF CloseParent
<1>11. ASSUME NEW c \in Starters, Exit(c) \/ TtlExpires(c) \/ TtlEnds(c) PROVE ControlOK'
  BY <1>11 DEF Exit, TtlExpires, TtlEnds
<1>12. ASSUME NEW q \in Requests, Forward(q) \/ Count(q) \/ Finish(q) PROVE ControlOK'
  BY <1>12 DEF Forward, Count, Finish
<1>13. CASE UNCHANGED vars
  BY <1>13 DEF vars
<1> QED
  BY <1>1, <1>2, <1>3, <1>4, <1>5, <1>6, <1>7, <1>8, <1>9, <1>10, <1>11, <1>12, <1>13
  DEF Next, LoopStep

\* A child is spawned by the start in progress, and dropped when it is dead.
LEMMA ChildrenStep == IInv /\ [Next]_vars => ChildrenOK'
<1> SUFFICES ASSUME IInv, [Next]_vars PROVE ChildrenOK'
  OBVIOUS
<1> USE Kinds DEF IInv, ChildrenOK, Alive, loopVars, NoStart, Idle
<1>1. ASSUME NEW c \in Callers, Receive(c) PROVE ChildrenOK'
  <2>1. CASE OnWaitReady(c)
    BY <2>1 DEF OnWaitReady
  <2>2. CASE OnStart(c)
    BY <2>2 DEF OnStart, ControlOK
  <2>3. CASE OnStop(c)
    BY <2>3 DEF OnStop
  <2>4. CASE AbortStart(c)
    BY <2>4 DEF AbortStart
  <2> QED
    BY <1>1, <2>1, <2>2, <2>3, <2>4 DEF Receive
<1>2. ASSUME NEW c \in Callers, Return(c) \/ Leave(c) PROVE ChildrenOK'
  BY <1>2 DEF Return, Leave
<1>3. CASE StartServed
  BY <1>3 DEF StartServed, ControlOK
<1>4. CASE StartFailed
  BY <1>4 DEF StartFailed, ControlOK
<1>5. CASE AbortEnd
  BY <1>5 DEF AbortEnd, StartOver, TypeOK, StartStates
<1>6. CASE StopEnd \/ UpstreamExited
  BY <1>6 DEF StopEnd, UpstreamExited, ControlOK
<1>7. CASE OnClose
  BY <1>7 DEF OnClose
<1>8. CASE CloseEnd
  BY <1>8 DEF CloseEnd, StartOver, ControlOK, TypeOK, StartStates
<1>9. CASE DoStart
  <2>1. CASE SpawnFails \/ ChildGone
    <3>1. req \notin Alive
      BY <2>1 DEF SpawnFails, ChildGone
    <3> QED
      BY <2>1, <3>1 DEF SpawnFails, ChildGone
  <2>2. CASE Spawn
    <3>1. start'.at = "checking" /\ \A c \in Starters : child'[c] = "alive" => c = req \/ c \in Alive
      BY <2>2 DEF Spawn, TypeOK, StartStates
    <3> QED
      BY <2>2, <3>1 DEF Spawn
  <2>3. CASE HealthCheckPasses
    <3>1. start'.at = "done" /\ start'.res = "ok"
      BY <2>3 DEF HealthCheckPasses, StartReturns, TypeOK, StartStates
    <3> QED
      BY <2>3, <3>1 DEF HealthCheckPasses
  <2>4. CASE HealthCheckAborts
    <3>1. start'.at = "killing"
      BY <2>4 DEF HealthCheckAborts, TypeOK, StartStates
    <3> QED
      BY <2>4, <3>1 DEF HealthCheckAborts
  <2> QED
    BY <1>9, <2>1, <2>2, <2>3, <2>4 DEF DoStart
<1>10. CASE CloseParent
  BY <1>10 DEF CloseParent
<1>11. ASSUME NEW c \in Starters, Exit(c) \/ TtlExpires(c) \/ TtlEnds(c) PROVE ChildrenOK'
  <2>1. CASE Exit(c)
    <3>1. Alive' \subseteq Alive
      BY <2>1 DEF Exit, TypeOK
    <3> QED
      BY <2>1, <3>1 DEF Exit
  <2> QED
    BY <1>11, <2>1 DEF TtlExpires, TtlEnds
<1>12. ASSUME NEW q \in Requests, Forward(q) \/ Count(q) \/ Finish(q) PROVE ChildrenOK'
  BY <1>12 DEF Forward, Count, Finish
<1>13. CASE UNCHANGED vars
  BY <1>13 DEF vars
<1> QED
  BY <1>1, <1>2, <1>3, <1>4, <1>5, <1>6, <1>7, <1>8, <1>9, <1>10, <1>11, <1>12, <1>13
  DEF Next, LoopStep

\* Whoever is answered was owed an answer, and is owed none afterwards.
LEMMA AnswersStep == IInv /\ [Next]_vars => AnswersOK'
<1> SUFFICES ASSUME IInv, [Next]_vars PROVE AnswersOK'
  OBVIOUS
<1> USE Kinds DEF IInv, AnswersOK, Owed, StopCaller, loopVars, Idle, Respond
<1>1. ASSUME NEW c \in Callers, Receive(c) PROVE AnswersOK'
  <2>1. CASE OnWaitReady(c)
    BY <2>1 DEF OnWaitReady, TypeOK, ControlOK
  <2>2. CASE OnStart(c)
    BY <2>2 DEF OnStart, TypeOK, ControlOK
  <2>3. CASE OnStop(c)
    BY <2>3 DEF OnStop, ReceiveStop, TypeOK, ControlOK
  <2>4. CASE AbortStart(c)
    BY <2>4 DEF AbortStart, ReceiveStop, TypeOK, ControlOK
  <2> QED
    BY <1>1, <2>1, <2>2, <2>3, <2>4 DEF Receive
<1>2. ASSUME NEW c \in Callers, Return(c) \/ Leave(c) PROVE AnswersOK'
  BY <1>2 DEF Return, Leave, TypeOK
<1>3. CASE StartServed
  BY <1>3 DEF StartServed, TypeOK, ControlOK, RunCaller
<1>4. CASE StartFailed
  BY <1>4 DEF StartFailed, TypeOK, ControlOK
<1>5. CASE AbortEnd
  BY <1>5 DEF AbortEnd, TypeOK, ControlOK
<1>6. CASE StopEnd
  BY <1>6 DEF StopEnd, TypeOK, ControlOK, RunCaller
<1>7. CASE UpstreamExited
  BY <1>7 DEF UpstreamExited, TypeOK, ControlOK, RunCaller
<1>8. CASE OnClose
  BY <1>8 DEF OnClose, ControlOK
<1>9. CASE CloseEnd
  BY <1>9 DEF CloseEnd, TypeOK, ControlOK, RunCaller
<1>10. CASE DoStart
  BY <1>10 DEF DoStart, SpawnFails, Spawn, HealthCheckPasses, HealthCheckAborts, ChildGone
<1>11. CASE CloseParent
  BY <1>11 DEF CloseParent
<1>12. ASSUME NEW c \in Starters, Exit(c) \/ TtlExpires(c) \/ TtlEnds(c) PROVE AnswersOK'
  BY <1>12 DEF Exit, TtlExpires, TtlEnds
<1>13. ASSUME NEW q \in Requests, Forward(q) \/ Count(q) \/ Finish(q) PROVE AnswersOK'
  BY <1>13 DEF Forward, Count, Finish
<1>14. CASE UNCHANGED vars
  BY <1>14 DEF vars
<1> QED
  BY <1>1, <1>2, <1>3, <1>4, <1>5, <1>6, <1>7, <1>8, <1>9, <1>10, <1>11, <1>12, <1>13, <1>14
  DEF Next, LoopStep

-----------------------------------------------------------------------------
(* Invariants.                                                             *)

\* The inductive invariant holds in every state of the process.
THEOREM ProcessInvariant == Spec => []IInv
<1>1. IInv /\ [Next]_vars => IInv'
  BY TypeStep, ControlStep, ChildrenStep, AnswersStep DEF IInv
<1> QED
  BY InitInv, <1>1, PTL DEF Spec

\* The state of the process is well-formed.
THEOREM ProcessTypes == Spec => []TypeOK
  BY ProcessInvariant, PTL DEF IInv

\* Nobody is forgotten: a parked call is where a coming transition answers it.
THEOREM CallersKept == Spec => []NobodyForgotten
<1>1. IInv => NobodyForgotten
  <2> SUFFICES ASSUME IInv PROVE NobodyForgotten
    OBVIOUS
  <2>1. ASSUME NEW c \in Callers, caller[c] = "parked", answer[c] = "none"
        PROVE  c \in readyWaiters \cup {req, pendingStop, runResp} \/ (closed /\ c \in Starters)
    BY <2>1 DEF IInv, AnswersOK, Owed, StopCaller
  <2> QED
    BY <2>1 DEF NobodyForgotten, IInv, AnswersOK, ControlOK
<1> QED
  BY <1>1, ProcessInvariant, PTL

\* No child of the upstream escapes the run loop (killProcess, doStart).
THEOREM ChildrenKept == Spec => []NoOrphan
<1>1. IInv => NoOrphan
  BY Kinds DEF NoOrphan, IInv, ChildrenOK, ControlOK, Alive
<1> QED
  BY <1>1, ProcessInvariant, PTL

\* The handler ServeHTTP loads is that of the child the run loop holds.
THEOREM HandlerKept == Spec => []HandlerCurrent
<1>1. IInv => HandlerCurrent
  BY DEF HandlerCurrent, IInv, ControlOK
<1> QED
  BY <1>1, ProcessInvariant, PTL

-----------------------------------------------------------------------------
(* What a step may not do.                                                 *)

\* The answers of a step go to calls that are owed one.
LEMMA AnswersGoToOwed ==
  ASSUME IInv, [Next]_vars, NEW c \in Callers, answer'[c] # answer[c]
  PROVE  answer[c] = "none"
<1> USE Kinds DEF IInv, AnswersOK, Owed, StopCaller, Respond
<1>1. ASSUME NEW d \in Callers, Receive(d) PROVE answer[c] = "none"
  BY <1>1 DEF Receive, OnWaitReady, OnStart, OnStop, AbortStart, ReceiveStop, TypeOK
<1>2. CASE StartServed
  BY <1>2 DEF StartServed, TypeOK, ControlOK
<1>3. CASE StartFailed
  BY <1>3 DEF StartFailed, TypeOK, ControlOK
<1>4. CASE AbortEnd
  BY <1>4 DEF AbortEnd, TypeOK, ControlOK
<1>5. CASE StopEnd
  BY <1>5 DEF StopEnd, TypeOK, RunCaller
<1>6. CASE UpstreamExited \/ CloseEnd
  BY <1>6 DEF UpstreamExited, CloseEnd, TypeOK, RunCaller
<1>7. CASE UNCHANGED answer
  BY <1>7
<1> QED
  BY <1>1, <1>2, <1>3, <1>4, <1>5, <1>6, <1>7
  DEF Next, LoopStep, OnClose, DoStart, SpawnFails, Spawn, HealthCheckPasses, HealthCheckAborts,
      ChildGone, CloseParent, Return, Leave, Exit, TtlExpires, TtlEnds, Forward, Count, Finish, vars

\* A respond channel is sent to once, so no send of the run loop can block.
THEOREM OneAnswerEach == Spec => AnsweredOnce
<1>1. IInv /\ [Next]_vars =>
        [\A c \in Callers : answer[c] # "none" => answer'[c] = answer[c]]_vars
  BY AnswersGoToOwed
<1> QED
  BY <1>1, ProcessInvariant, PTL DEF Spec, AnsweredOnce

\* What an answer says is true in the state that follows it.
LEMMA TruthStep ==
  ASSUME IInv, [Next]_vars, NEW c \in Callers, answer[c] = "none", answer'[c] # "none"
  PROVE  /\ answer'[c] = "ok" /\ Op[c] \in {"EnsureReady", "WaitReady"} => state' = "ready"
         /\ answer'[c] = "ok" /\ Op[c] \in {"Stop", "Run"} => state' = "stopped" /\ Alive' = {}
         /\ answer'[c] = "aborted" => pendingStop # None
<1> USE Kinds DEF IInv, StopCaller, Respond, ChildrenOK, Alive
<1>1. ASSUME NEW d \in Callers, OnWaitReady(d) \/ OnStart(d) \/ AbortStart(d)
      PROVE  \/ answer'[c] = "ok" /\ Op[c] \in {"EnsureReady", "WaitReady"} /\ state' = "ready"
             \/ answer'[c] = "error"
  BY <1>1 DEF OnWaitReady, OnStart, AbortStart, TypeOK
<1>2. ASSUME NEW d \in Callers, OnStop(d)
      PROVE  answer'[c] = "ok" /\ Op[c] = "Stop" /\ state' = "stopped" /\ Alive' = {}
  BY <1>2 DEF OnStop, TypeOK, ControlOK
<1>3. CASE StartServed
  BY <1>3 DEF StartServed, TypeOK, ControlOK
<1>4. CASE StartFailed
  BY <1>4 DEF StartFailed
<1>5. CASE AbortEnd
  <2>1. Alive' = {} /\ state' = "stopped"
    BY <1>5 DEF AbortEnd, StartOver, TypeOK, StartStates, ControlOK
  <2>2. answer'[c] \in {"ok", "aborted"} /\ (answer'[c] = "ok" => Op[c] = "Stop")
    BY <1>5 DEF AbortEnd
  <2> QED
    BY <1>5, <2>1, <2>2 DEF AbortEnd, ControlOK
<1>6. CASE StopEnd
  <2>1. Alive' = {} /\ state' = "stopped"
    BY <1>6 DEF StopEnd, ControlOK
  <2>2. answer'[c] = "error" \/ (answer'[c] = "ok" /\ Op[c] \in {"Stop", "Run"})
    BY <1>6 DEF StopEnd, RunCaller, TypeOK
  <2> QED
    BY <2>1, <2>2
<1>7. CASE UpstreamExited \/ CloseEnd
  BY <1>7 DEF UpstreamExited, CloseEnd
<1>8. CASE UNCHANGED answer
  BY <1>8
<1> QED
  BY <1>1, <1>2, <1>3, <1>4, <1>5, <1>6, <1>7, <1>8
  DEF Next, LoopStep, Receive, OnClose, DoStart, SpawnFails, Spawn, HealthCheckPasses,
      HealthCheckAborts, ChildGone, CloseParent, Return, Leave, Exit, TtlExpires, TtlEnds,
      Forward, Count, Finish, vars

\* "Ready" is said of a ready process, "stopped" when no child is left, and a
\* start is called aborted only on behalf of a stop.
THEOREM TrueAnswers == Spec => AnswersAreTrue
<1>1. IInv /\ [Next]_vars =>
        [\A c \in Callers : answer[c] = "none" /\ answer'[c] # "none" =>
          /\ answer'[c] = "ok" /\ Op[c] \in {"EnsureReady", "WaitReady"} => state' = "ready"
          /\ answer'[c] = "ok" /\ Op[c] \in {"Stop", "Run"} => state' = "stopped" /\ Alive' = {}
          /\ answer'[c] = "aborted" => pendingStop # None]_vars
  BY TruthStep
<1> QED
  BY <1>1, ProcessInvariant, PTL DEF Spec, AnswersAreTrue

-----------------------------------------------------------------------------
(* The refinement of ProcessLifecycle, with up <- (Alive # {}).             *)

\* A step of the process is a step of its life cycle, or leaves it alone.
LEMMA LifecycleStep ==
  ASSUME IInv, [Next]_vars
  PROVE  Lifecycle!Next \/ (state' = state /\ (Alive' # {}) = (Alive # {}))
<1> USE DEF IInv, ControlOK, ChildrenOK
<1>0. None \notin Alive
  BY Kinds DEF Alive
<1>1. ASSUME NEW c \in Callers, OnStart(c), state = "stopped" PROVE Lifecycle!Begin
  BY <1>1 DEF OnStart, Lifecycle!Begin
<1>2. ASSUME NEW c \in Callers, OnStop(c), cmd # None PROVE Lifecycle!BeginStop
  <2>1. state = "ready" /\ state' = "stopping" /\ UNCHANGED child
    BY <1>2 DEF OnStop
  <2> QED
    BY <2>1 DEF Lifecycle!BeginStop, Alive
<1>3. CASE StartServed
  <2>1. state = "starting" /\ state' = "ready" /\ UNCHANGED child
    BY <1>3 DEF StartServed
  <2> QED
    BY <2>1 DEF Lifecycle!Next, Lifecycle!Serve, Alive
<1>4. CASE StartFailed \/ AbortEnd \/ StopEnd \/ UpstreamExited
  <2>1. state \in {"starting", "ready", "stopping"} /\ state' = "stopped"
    BY <1>4 DEF StartFailed, AbortEnd, StopEnd, UpstreamExited
  <2>2. Alive = {}
    BY <1>0, <1>4 DEF StartFailed, AbortEnd, StartOver, StopEnd, UpstreamExited, TypeOK, StartStates
  <2>3. Alive' = Alive
    BY <1>4 DEF StartFailed, AbortEnd, StopEnd, UpstreamExited, Alive
  <2> QED
    BY <2>1, <2>2, <2>3 DEF Lifecycle!Next, Lifecycle!Settle
<1>5. CASE OnClose
  <2>1. state' = "shutdown" /\ UNCHANGED child
    BY <1>5 DEF OnClose
  <2> QED
    BY <2>1 DEF Lifecycle!Next, Lifecycle!Close, Alive
<1>6. CASE Spawn
  <2>1. state \in {"starting", "shutdown"} /\ req \in Starters
    BY <1>6 DEF Spawn, TypeOK
  <2>2. UNCHANGED state /\ child' = [child EXCEPT ![req] = "alive"]
    BY <1>6 DEF Spawn, loopVars
  <2>3. req \in Alive'
    BY <2>1, <2>2 DEF Alive, TypeOK
  <2> QED
    BY <2>1, <2>2, <2>3 DEF Lifecycle!Next, Lifecycle!Spawn
<1>7. ASSUME NEW c \in Starters, Exit(c) PROVE Lifecycle!Next
  <2>1. UNCHANGED state /\ Alive' = Alive \ {c}
    BY <1>7 DEF Exit, loopVars, Alive, TypeOK
  <2>2. Alive' = {}
    BY <1>0, <1>7, <2>1 DEF Exit
  <2> QED
    BY <2>1, <2>2 DEF Lifecycle!Next, Lifecycle!Die
<1>8. CASE UNCHANGED <<state, child>>
  BY <1>8 DEF Alive
<1>9. ASSUME NEW c \in Callers, Receive(c)
      PROVE  Lifecycle!Next \/ UNCHANGED <<state, child>>
  BY <1>1, <1>2, <1>9 DEF Lifecycle!Next, Receive, OnWaitReady, OnStart, OnStop, AbortStart
<1>10. ASSUME CloseEnd \/ CloseParent \/ SpawnFails \/ HealthCheckPasses \/ HealthCheckAborts
              \/ ChildGone \/ UNCHANGED vars
              \/ (\E c \in Callers : Return(c) \/ Leave(c))
              \/ (\E c \in Starters : TtlExpires(c) \/ TtlEnds(c))
              \/ (\E q \in Requests : Forward(q) \/ Count(q) \/ Finish(q))
       PROVE  UNCHANGED <<state, child>>
  BY <1>10 DEF CloseEnd, CloseParent, SpawnFails, HealthCheckPasses, HealthCheckAborts, ChildGone,
     Return, Leave, TtlExpires, TtlEnds, Forward, Count, Finish, vars, loopVars
<1> QED
  BY <1>3, <1>4, <1>5, <1>6, <1>7, <1>8, <1>9, <1>10 DEF Next, LoopStep, DoStart

\* The process implements the life cycle: the order of its states, an upstream
\* spawned only by a start, and no upstream left when it says it is stopped.
THEOREM ProcessImplementsLifecycle == Spec => ImplementsLifecycle
<1>1. Init => Lifecycle!Init
  BY DEF Init, Lifecycle!Init, Alive
<1>2. IInv /\ [Next]_vars => [Lifecycle!Next]_(<<state, Alive # {}>>)
  BY LifecycleStep
<1> QED
  BY <1>1, <1>2, ProcessInvariant, PTL DEF Spec, ImplementsLifecycle, Lifecycle!Spec
=============================================================================
