--------------------------- MODULE ProcessCommand ---------------------------
(***************************************************************************)
(* One upstream process: ProcessCommand in internal/process/                *)
(* process_command.go.  The run loop, the doStart goroutine, the child      *)
(* process, the TTL goroutines, the callers of Run, EnsureReady, WaitReady  *)
(* and Stop, and the requests that pass through ServeHTTP.                  *)
(*                                                                         *)
(* A caller calls once.  A start, its child and its TTL goroutine are named *)
(* by the caller whose startReq began it.                                   *)
(***************************************************************************)
EXTENDS Naturals, FiniteSets

CONSTANTS
    Callers,     \* the calls of the Process interface
    Op,          \* "Run", "EnsureReady", "WaitReady" or "Stop"
    Requests,    \* the requests that reach ServeHTTP
    None,        \* a nil pointer or channel
    HasTTL,      \* config.UnloadAfter > 0
    MayLeave,    \* callers whose context may be cancelled
    MayClose     \* whether parentCtx may be cancelled

ASSUME CallersAssumption ==
    /\ Op \in [Callers -> {"Run", "EnsureReady", "WaitReady", "Stop"}]
    /\ None \notin Callers
    /\ MayLeave \subseteq {c \in Callers : Op[c] \in {"EnsureReady", "WaitReady"}}
    /\ HasTTL \in BOOLEAN

VARIABLES
    state,         \* the published Status.State
    at,            \* where the run loop is
    cmd,           \* the child the run loop holds, with cmdDone and cmdCancel
    req,           \* the startReq being served
    pendingStop,   \* the stopReq being served
    readyWaiters,
    runResp,
    handler,       \* the child behind p.handler
    start,         \* the doStart goroutine and its result
    child,         \* the operating system processes
    closed,        \* parentCtx is cancelled
    caller,        \* the control state of each caller
    answer,        \* what is in the respond channel of each caller
    ttl,           \* the TTL goroutines
    request        \* the requests in ServeHTTP

loopVars == <<state, at, cmd, req, pendingStop, readyWaiters, runResp, handler>>
vars == <<loopVars, start, child, closed, caller, answer, ttl, request>>

Starters == {c \in Callers : Op[c] \in {"Run", "EnsureReady"}}
Stoppers == {c \in Callers : Op[c] = "Stop"}

-----------------------------------------------------------------------------
\* "starting": the inner select of a start; "aborting": a stop arrived during
\* the start, its result is awaited; "stopping": in killProcess of a stop;
\* "closing": tearing down because parentCtx is done.
LoopPlaces == {"select", "starting", "aborting", "stopping", "closing", "exited"}

\* "begin": before cmd.Start; "checking": polling the health check; "killing":
\* in abort; "done": the result is in resultCh.
StartStates == [at : {"none", "begin", "checking", "killing", "done"}, res : {"ok", "error"}]

TypeOK ==
    /\ state \in {"stopped", "starting", "ready", "stopping", "shutdown"}
    /\ at \in LoopPlaces
    /\ {cmd, req, handler} \subseteq Starters \cup {None}
    /\ runResp \in {c \in Callers : Op[c] = "Run"} \cup {None}
    /\ pendingStop \in Callers \cup {None}
    /\ readyWaiters \subseteq {c \in Callers : Op[c] = "WaitReady"}
    /\ start \in StartStates
    /\ child \in [Starters -> {"none", "alive", "dead"}]
    /\ closed \in BOOLEAN
    /\ caller \in [Callers -> {"new", "parked", "done"}]
    /\ answer \in [Callers -> {"none", "ok", "error", "aborted"}]
    /\ ttl \in [Starters -> {"none", "watching", "stopping", "sent", "done"}]
    /\ request \in [Requests -> {"new", "forwarded", "counted", "done"}]

NoStart == [at |-> "none", res |-> "error"]

Init ==
    /\ state = "stopped" /\ at = "select"
    /\ cmd = None /\ req = None /\ pendingStop = None
    /\ readyWaiters = {} /\ runResp = None /\ handler = None
    /\ start = NoStart
    /\ child = [c \in Starters |-> "none"]
    /\ closed = FALSE
    /\ caller = [c \in Callers |-> "new"]
    /\ answer = [c \in Callers |-> "none"]
    /\ ttl = [c \in Starters |-> "none"]
    /\ request = [q \in Requests |-> "new"]

-----------------------------------------------------------------------------
Alive == {c \in Starters : child[c] = "alive"}

\* The three kinds of answers a handler of the run loop sends: notifyWaiters,
\* respondRun, req.respond and stop.respond.  A respond channel holds one.
Respond(ok, error, aborted) ==
    answer' = [c \in Callers |-> IF c \in ok THEN "ok"
                                 ELSE IF c \in error THEN "error"
                                 ELSE IF c \in aborted THEN "aborted" ELSE answer[c]]

RunCaller == {runResp} \ {None}

\* A TTL goroutine also asks for a stop; it does not look at the answer.
StopCaller(s) == {s} \cap Stoppers

\* A parked WaitReady or Run is answered in every transition that settles it.
Idle == /\ at' = "select"
        /\ req' = None
        /\ pendingStop' = None
        /\ start' = NoStart

\* killProcess is at work on child c.
Killing(c) ==
    \/ c = cmd /\ at \in {"stopping", "closing"}
    \/ /\ c = req
       /\ \/ start.at = "killing"
          \/ start.at = "done" /\ start.res = "ok" /\ at \in {"aborting", "closing"}

\* Mutant: the result is enough.
ResultIsIn == start.at = "done"

\* The result of doStart is in, and a child it may have left is dead.
StartOver == start.at = "done" /\ (start.res = "ok" => req \notin Alive)

-----------------------------------------------------------------------------
(* The run loop: starting.                                                 *)

OnWaitReady(c) ==
    /\ at = "select"
    /\ Op[c] = "WaitReady" /\ caller[c] = "new"
    /\ caller' = [caller EXCEPT ![c] = "parked"]
    /\ IF state = "ready" THEN Respond({c}, {}, {}) /\ UNCHANGED readyWaiters
       ELSE readyWaiters' = readyWaiters \cup {c} /\ UNCHANGED answer
    /\ UNCHANGED <<state, at, cmd, req, pendingStop, runResp, handler, start, child, closed,
                   ttl, request>>

\* A start request: answered from the state, or a new start.
OnStart(c) ==
    /\ at = "select"
    /\ c \in Starters /\ caller[c] = "new"
    /\ caller' = [caller EXCEPT ![c] = "parked"]
    /\ IF state = "stopped"
       THEN /\ state' = "starting" /\ at' = "starting" /\ req' = c
            /\ start' = [NoStart EXCEPT !.at = "begin"]
            /\ UNCHANGED answer
       ELSE /\ IF Op[c] = "EnsureReady" /\ state = "ready" THEN Respond({c}, {}, {})
               ELSE Respond({}, {c}, {})
            /\ UNCHANGED <<state, at, req, start>>
    /\ UNCHANGED <<cmd, pendingStop, readyWaiters, runResp, handler, child, closed, ttl, request>>

\* Mutant: EnsureReady parks like Run.
ParkEveryStarter ==
    /\ at = "starting" /\ start.at = "done" /\ start.res = "ok"
    /\ state' = "ready"
    /\ cmd' = req /\ handler' = req
    /\ readyWaiters' = {}
    /\ runResp' = req /\ Respond(readyWaiters, {}, {})
    /\ ttl' = [ttl EXCEPT ![req] = IF HasTTL THEN "watching" ELSE @]
    /\ Idle
    /\ UNCHANGED <<child, closed, caller, request>>

StartServed ==
    /\ at = "starting" /\ start.at = "done" /\ start.res = "ok"
    /\ state' = "ready"
    /\ cmd' = req /\ handler' = req
    /\ readyWaiters' = {}
    /\ IF Op[req] = "Run" THEN runResp' = req /\ Respond(readyWaiters, {}, {})
       ELSE Respond(readyWaiters \cup {req}, {}, {}) /\ UNCHANGED runResp
    /\ ttl' = [ttl EXCEPT ![req] = IF HasTTL THEN "watching" ELSE @]
    /\ Idle
    /\ UNCHANGED <<child, closed, caller, request>>

StartFailed ==
    /\ at = "starting" /\ start.at = "done" /\ start.res = "error"
    /\ state' = "stopped"
    /\ readyWaiters' = {}
    /\ Respond({}, readyWaiters \cup {req}, {})
    /\ Idle
    /\ UNCHANGED <<cmd, runResp, handler, child, closed, caller, ttl, request>>

\* A stop request is received from a caller of Stop or from a TTL goroutine.
ReceiveStop(s) ==
    \/ /\ s \in Stoppers /\ caller[s] = "new"
       /\ caller' = [caller EXCEPT ![s] = "parked"]
       /\ UNCHANGED ttl
    \/ /\ s \in Starters /\ ttl[s] = "stopping"
       /\ ttl' = [ttl EXCEPT ![s] = "done"]
       /\ UNCHANGED caller

\* A stop during a start cancels startCtx and waits for doStart to return: it is
\* cancelled for as long as the loop is at "aborting" or "closing".
AbortStart(s) ==
    /\ at = "starting"
    /\ ReceiveStop(s)
    /\ at' = "aborting" /\ pendingStop' = s
    /\ UNCHANGED <<state, cmd, req, readyWaiters, runResp, handler, start, child, closed, answer,
                   request>>

\* Mutants: the child of a start that had succeeded is not killed; the Stop that
\* aborted the start is not answered; the subscribers are not woken.
AbortLeavesChild ==
    /\ at = "aborting" /\ start.at = "done"
    /\ state' = "stopped"
    /\ readyWaiters' = {}
    /\ Respond(StopCaller(pendingStop), {}, readyWaiters \cup {req})
    /\ Idle
    /\ UNCHANGED <<cmd, runResp, handler, child, closed, caller, ttl, request>>

AbortForgetsStop ==
    /\ at = "aborting" /\ StartOver
    /\ state' = "stopped"
    /\ readyWaiters' = {}
    /\ Respond({}, {}, readyWaiters \cup {req})
    /\ Idle
    /\ UNCHANGED <<cmd, runResp, handler, child, closed, caller, ttl, request>>

AbortForgetsWaiters ==
    /\ at = "aborting" /\ StartOver
    /\ state' = "stopped"
    /\ Respond(StopCaller(pendingStop), {}, {req})
    /\ Idle
    /\ UNCHANGED <<cmd, readyWaiters, runResp, handler, child, closed, caller, ttl, request>>

AbortEnd ==
    /\ at = "aborting" /\ StartOver
    /\ state' = "stopped"
    /\ readyWaiters' = {}
    /\ Respond(StopCaller(pendingStop), {}, readyWaiters \cup {req})
    /\ Idle
    /\ UNCHANGED <<cmd, runResp, handler, child, closed, caller, ttl, request>>

-----------------------------------------------------------------------------
(* The run loop: stopping, exit, shutdown.                                 *)

OnStop(s) ==
    /\ at = "select"
    /\ ReceiveStop(s)
    /\ IF cmd # None
       THEN /\ state' = "stopping" /\ at' = "stopping" /\ pendingStop' = s
            /\ UNCHANGED answer
       ELSE /\ Respond(StopCaller(s), {}, {})
            /\ UNCHANGED <<state, at, pendingStop>>
    /\ UNCHANGED <<cmd, req, readyWaiters, runResp, handler, start, child, closed, request>>

\* Mutants: Run stays parked after its answer; the loop does not wait for the
\* child to die.
StopKeepsRun ==
    /\ at = "stopping" /\ cmd \notin Alive
    /\ state' = "stopped"
    /\ cmd' = None /\ handler' = None
    /\ readyWaiters' = {}
    /\ Respond(StopCaller(pendingStop) \cup RunCaller, readyWaiters, {})
    /\ Idle
    /\ UNCHANGED <<runResp, child, closed, caller, ttl, request>>

StopSignalOnly ==
    /\ at = "stopping"
    /\ state' = "stopped"
    /\ cmd' = None /\ handler' = None /\ runResp' = None
    /\ readyWaiters' = {}
    /\ Respond(StopCaller(pendingStop) \cup RunCaller, readyWaiters, {})
    /\ Idle
    /\ UNCHANGED <<child, closed, caller, ttl, request>>

StopEnd ==
    /\ at = "stopping" /\ cmd \notin Alive
    /\ state' = "stopped"
    /\ cmd' = None /\ handler' = None /\ runResp' = None
    /\ readyWaiters' = {}
    /\ Respond(StopCaller(pendingStop) \cup RunCaller, readyWaiters, {})
    /\ Idle
    /\ UNCHANGED <<child, closed, caller, ttl, request>>

\* Mutants: Run is not told; the handler stays.
ExitForgetsRun ==
    /\ at = "select" /\ cmd # None /\ cmd \notin Alive
    /\ state' = "stopped"
    /\ cmd' = None /\ handler' = None
    /\ readyWaiters' = {}
    /\ Respond({}, readyWaiters, {})
    /\ UNCHANGED <<at, req, pendingStop, runResp, start, child, closed, caller, ttl, request>>

ExitKeepsHandler ==
    /\ at = "select" /\ cmd # None /\ cmd \notin Alive
    /\ state' = "stopped"
    /\ cmd' = None /\ runResp' = None
    /\ readyWaiters' = {}
    /\ Respond({}, readyWaiters \cup RunCaller, {})
    /\ UNCHANGED <<at, req, pendingStop, handler, start, child, closed, caller, ttl, request>>

\* cmdDone: the upstream exited by itself.
UpstreamExited ==
    /\ at = "select" /\ cmd # None /\ cmd \notin Alive
    /\ state' = "stopped"
    /\ cmd' = None /\ handler' = None /\ runResp' = None
    /\ readyWaiters' = {}
    /\ Respond({}, readyWaiters \cup RunCaller, {})
    /\ UNCHANGED <<at, req, pendingStop, start, child, closed, caller, ttl, request>>

\* Mutant: only the outer select looks at parentCtx.
CloseAtSelect ==
    /\ closed /\ at = "select"
    /\ state' = "shutdown" /\ at' = "closing"
    /\ handler' = None
    /\ UNCHANGED <<cmd, req, pendingStop, readyWaiters, runResp, start, child, closed, caller,
                   answer, ttl, request>>

\* parentCtx is done: at the outer select, or while a start is waited for.
OnClose ==
    /\ closed /\ at \in {"select", "starting"}
    /\ state' = "shutdown" /\ at' = "closing"
    /\ handler' = None
    /\ UNCHANGED <<cmd, req, pendingStop, readyWaiters, runResp, start, child, closed, caller,
                   answer, ttl, request>>

\* A start that was cut off is not answered: its caller sees parentCtx.
CloseEnd ==
    /\ at = "closing" /\ cmd \notin Alive /\ (req # None => StartOver)
    /\ at' = "exited"
    /\ cmd' = None /\ req' = None /\ runResp' = None
    /\ readyWaiters' = {}
    /\ Respond({}, readyWaiters \cup RunCaller, {})
    /\ start' = NoStart
    /\ UNCHANGED <<state, pendingStop, handler, child, closed, caller, ttl, request>>

-----------------------------------------------------------------------------
(* The doStart goroutine and the child.                                    *)

StartReturns(res) == start' = [start EXCEPT !.at = "done", !.res = res]

SpawnFails ==
    /\ start.at = "begin"
    /\ StartReturns("error")
    /\ UNCHANGED <<loopVars, child, closed, caller, answer, ttl, request>>

\* cmd.Start comes before the first look at startCtx.
Spawn ==
    /\ start.at = "begin"
    /\ child' = [child EXCEPT ![req] = "alive"]
    /\ start' = [start EXCEPT !.at = "checking"]
    /\ UNCHANGED <<loopVars, closed, caller, answer, ttl, request>>

\* The health check passes, or there is none; a cancellation or an exit of the
\* child may have come just before.
HealthCheckPasses ==
    /\ start.at = "checking"
    /\ StartReturns("ok")
    /\ UNCHANGED <<loopVars, child, closed, caller, answer, ttl, request>>

\* startCtx is done, or the deadline has passed, which new progress of the load
\* pushes back: abort kills the child.
HealthCheckAborts ==
    /\ start.at = "checking"
    /\ start' = [start EXCEPT !.at = "killing"]
    /\ UNCHANGED <<loopVars, child, closed, caller, answer, ttl, request>>

\* prematureExit, or the end of abort.
ChildGone ==
    /\ start.at \in {"checking", "killing"}
    /\ req \notin Alive
    /\ StartReturns("error")
    /\ UNCHANGED <<loopVars, child, closed, caller, answer, ttl, request>>

\* The child exits: killed, or by itself.
Exit(c) ==
    /\ c \in Alive
    /\ child' = [child EXCEPT ![c] = "dead"]
    /\ UNCHANGED <<loopVars, start, closed, caller, answer, ttl, request>>

-----------------------------------------------------------------------------
(* TTL goroutines, callers, requests.                                      *)

\* The ticks of a TTL goroutine.  How long the process has been idle is not
\* modelled: the TTL may be over at any tick that sees nothing in flight.
TtlExpires(c) ==
    /\ ttl[c] = "watching"
    /\ state = "ready" /\ \A q \in Requests : request[q] # "counted"
    /\ ttl' = [ttl EXCEPT ![c] = "stopping"]
    /\ UNCHANGED <<loopVars, start, child, closed, caller, answer, request>>

TtlEnds(c) ==
    /\ \/ ttl[c] = "watching" /\ state # "ready"
       \/ ttl[c] = "stopping" /\ closed
    /\ ttl' = [ttl EXCEPT ![c] = "done"]
    /\ UNCHANGED <<loopVars, start, child, closed, caller, answer, request>>

CloseParent ==
    /\ MayClose /\ ~closed
    /\ closed' = TRUE
    /\ UNCHANGED <<loopVars, start, child, caller, answer, ttl, request>>

\* The caller takes its answer, or leaves by parentCtx.Done: at its send, and
\* after it in Run and EnsureReady only.
Return(c) ==
    /\ \/ caller[c] = "parked" /\ answer[c] # "none"
       \/ closed /\ caller[c] = "new"
       \/ closed /\ caller[c] = "parked" /\ c \in Starters
    /\ caller' = [caller EXCEPT ![c] = "done"]
    /\ UNCHANGED <<loopVars, start, child, closed, answer, ttl, request>>

Leave(c) ==
    /\ c \in MayLeave
    /\ caller[c] # "done"
    /\ caller' = [caller EXCEPT ![c] = "done"]
    /\ UNCHANGED <<loopVars, start, child, closed, answer, ttl, request>>

\* ServeHTTP loads the handler, and counts the request only afterwards.
Forward(q) ==
    /\ request[q] = "new"
    /\ request' = [request EXCEPT ![q] = IF handler = None THEN "done" ELSE "forwarded"]
    /\ UNCHANGED <<loopVars, start, child, closed, caller, answer, ttl>>

Count(q) ==
    /\ request[q] = "forwarded"
    /\ request' = [request EXCEPT ![q] = "counted"]
    /\ UNCHANGED <<loopVars, start, child, closed, caller, answer, ttl>>

\* A websocket the configuration ignores is served without being counted.
Finish(q) ==
    /\ request[q] \in {"forwarded", "counted"}
    /\ request' = [request EXCEPT ![q] = "done"]
    /\ UNCHANGED <<loopVars, start, child, closed, caller, answer, ttl>>

-----------------------------------------------------------------------------
Receive(c) == OnWaitReady(c) \/ OnStart(c) \/ OnStop(c) \/ AbortStart(c)

LoopStep ==
    StartServed \/ StartFailed \/ AbortEnd \/ StopEnd \/ UpstreamExited \/ OnClose \/ CloseEnd

DoStart == SpawnFails \/ Spawn \/ HealthCheckPasses \/ HealthCheckAborts \/ ChildGone

\* startCtx is cancelled: no health check is sent after the one under way.
Cancelled == at \in {"aborting", "closing"}

Next ==
    \/ \E c \in Callers : Receive(c) \/ Return(c) \/ Leave(c)
    \/ LoopStep \/ DoStart \/ CloseParent
    \/ \E c \in Starters : Exit(c) \/ TtlExpires(c) \/ TtlEnds(c)
    \/ \E q \in Requests : Forward(q) \/ Count(q) \/ Finish(q)

Spec == Init /\ [][Next]_vars

\* The run loop and doStart keep running, select serves a sender when there is
\* one, callers take their answers, and a child that killProcess is at work on
\* dies (SIGKILL).  Nothing else has to happen: no crash, no TTL, no shutdown,
\* and no end to a load whose progress keeps pushing its deadline back.
FairSpec ==
    /\ Spec
    /\ WF_vars(LoopStep)
    /\ WF_vars(SpawnFails \/ Spawn \/ ChildGone)
    /\ WF_vars(Cancelled /\ (HealthCheckPasses \/ HealthCheckAborts))
    /\ WF_vars(\E c \in Callers : Receive(c))
    /\ WF_vars(\E c \in Callers : Return(c))
    /\ WF_vars(\E c \in Starters : Killing(c) /\ Exit(c))

-----------------------------------------------------------------------------
(* Properties.                                                             *)

\* Nobody is forgotten (issue #946): a call that was received and not answered
\* is where a coming transition of the run loop answers it, and the loop is
\* never at rest with a subscriber whose question is settled.
NobodyForgotten ==
    /\ \A c \in Callers : caller[c] = "parked" /\ answer[c] = "none" =>
          \/ c \in readyWaiters \cup {req, pendingStop, runResp}
          \/ closed /\ c \in Starters
    /\ at = "select" /\ readyWaiters # {} => state = "stopped"
    /\ runResp # None => cmd # None
    /\ at = "exited" => readyWaiters = {} /\ runResp = None

\* A respond channel is sent to once: it holds one answer, and a second send
\* would block the run loop for ever.
AnsweredOnce == [][ \A c \in Callers : answer[c] # "none" => answer'[c] = answer[c] ]_vars

\* No child escapes the run loop: whatever is alive is the child it holds or
\* the one of the start in progress, and the loop does not end before it.
NoOrphan ==
    /\ Alive \subseteq {cmd, req}
    /\ at = "exited" => Alive = {}

\* The handler ServeHTTP loads belongs to the child the loop holds, and a ready
\* process has one.
HandlerCurrent == handler \in {cmd, None} /\ (state = "ready" => handler # None)

\* What an answer says is true when it is given: ready, or stopped with no
\* child left; and a start is aborted only for a stop.
AnswersAreTrue ==
    [][ \A c \in Callers : answer[c] = "none" /\ answer'[c] # "none" =>
          /\ answer'[c] = "ok" /\ Op[c] \in {"EnsureReady", "WaitReady"} => state' = "ready"
          /\ answer'[c] = "ok" /\ Op[c] \in {"Stop", "Run"} => state' = "stopped" /\ Alive' = {}
          /\ answer'[c] = "aborted" => pendingStop # None ]_vars

\* The process keeps the promises the router relies on.
Lifecycle == INSTANCE ProcessLifecycle WITH up <- (Alive # {})
ImplementsLifecycle == Lifecycle!Spec

LoadsForEver == <>[](start.at = "checking")

\* Every Stop returns, also one that has to abort a start, and every EnsureReady
\* does unless a load goes on for ever.
CallsReturn ==
    \A c \in Callers :
        \/ Op[c] \in {"Run", "WaitReady"}
        \/ Op[c] = "EnsureReady" /\ LoadsForEver
        \/ <>(caller[c] = "done")

\* A caller parked while the loop stops something, a start or a running child,
\* returns (issue #946: a subscriber of an aborted start was left parked).
BusyIsSettled ==
    \A c \in Callers :
        (caller[c] = "parked" /\ at \in {"aborting", "stopping", "closing"})
            ~> (caller[c] = "done")

\* Once parentCtx is cancelled the loop ends.
CloseReaps == closed ~> (at = "exited")

\* What the comment of TestProcessCommand_TTL_ResetsOnRequest says: requests in
\* flight prevent the TTL goroutine from stopping the process.
TtlSparesRequests ==
    [][ (at = "select" /\ at' = "stopping" /\ pendingStop' \in Starters)
        => \A q \in Requests : request[q] # "counted" ]_vars
=============================================================================
