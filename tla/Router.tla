------------------------------- MODULE Router -------------------------------
(***************************************************************************)
(* The local router of llama-swap: the run loop and the ServeHTTP callers   *)
(* of internal/router/base.go, the FIFO scheduler the run loop drives       *)
(* (internal/router/scheduler/fifo.go), the swap goroutines it launches,    *)
(* and, reduced to their lifecycle state, the upstream processes            *)
(* (internal/process).  The eviction policy (scheduler.Swapper) is the      *)
(* operator parameter EvictionFor: FIFO works with any policy.              *)
(*                                                                         *)
(* A request is used once, so a run of the system has finitely many         *)
(* requests and every counter is bounded by their number.  The generation   *)
(* of a swap is the request startSwap was called for: startSwap runs at     *)
(* most once per request, so that request identifies the swap as well as    *)
(* nextGeneration does.                                                    *)
(***************************************************************************)
EXTENDS Integers, FiniteSets, SequencesExt

CONSTANTS
    Models,            \* the keys of baseRouter.processes
    Requests,          \* the requests that reach ServeHTTP
    ModelOf,           \* the model a request asks for (HandlerReq.Model)
    Limit,             \* FIFO.limits
    Priority,          \* FifoConfig.Priority
    EvictionFor(_, _), \* Swapper.EvictionFor(target, running)
    Rivals,            \* pairs of models the policy never lets run together
    NoSwap,            \* the generation of a model without an active swap
    Volatile,          \* models whose process may crash or reach its TTL
    MayLeave,          \* requests whose client may disconnect
    Unloads,           \* the Unload calls that are made, by their targets
    GateMayRefuse,     \* whether the start gate may refuse a swap
    MayShutdown        \* whether Shutdown may be called

ASSUME RequestsAssumption ==
    /\ IsFiniteSet(Requests)
    /\ NoSwap \notin Requests
    /\ DOMAIN ModelOf = Requests
    /\ MayLeave \subseteq Requests

ASSUME ConfigAssumption ==
    /\ Limit \in [Models -> Nat \ {0}]
    /\ Priority \in [Models -> Int]
    /\ Unloads \subseteq SUBSET Models

\* What the scheduler needs of a policy: it evicts running models only, never
\* the target itself.
ASSUME PolicyAssumption ==
    \A m \in Models, R \in SUBSET Models : EvictionFor(m, R) \subseteq R \ {m}

\* Rivals evict one another whatever else is running.
ASSUME RivalsAssumption ==
    /\ Rivals \subseteq Models \X Models
    /\ \A a, b \in Models : <<a, b>> \in Rivals =>
          /\ <<b, a>> \in Rivals
          /\ \A R \in SUBSET Models : b \in R => b \in EvictionFor(a, R)

VARIABLES
    active,    \* FIFO.active: generation, evict set and waiters per model
    reserved,  \* FIFO.reserved: admitted requests per model
    inFlight,  \* FIFO.inFlight: granted handlers not yet reported done
    queued,    \* FIFO.queued, in service order
    loop,      \* the control state of baseRouter.run
    calls,     \* Unload calls the run loop has not received yet
    client,    \* the control state of each ServeHTTP caller
    gone,      \* requests whose context is cancelled
    swap,      \* the swap goroutines, by generation
    proc,      \* the state of each upstream process
    down       \* shutdownCtx is cancelled

schedVars == <<active, reserved, inFlight, queued>>
vars == <<active, reserved, inFlight, queued, loop, calls, client, gone,
          swap, proc, down>>

-----------------------------------------------------------------------------
(* State.                                                                  *)

Idle == [gen |-> NoSwap, evict |-> {}, waiters |-> {}]

\* Requests for a model of this router, the only ones the scheduler admits.
Known == {r \in Requests : ModelOf[r] \in Models}

ActiveSwaps == [gen : Known \cup {NoSwap}, evict : SUBSET Models,
                waiters : SUBSET Known]

\* "sent": received by the run loop, not admitted; "refused"/"admitted": the
\* answer is in the Admit buffer; "waiting": parked on Respond; "serving":
\* running the granted handler; "served": sending on serveDoneCh;
\* "cancelling": sending on cancelCh.
ClientStates == {"new", "sent", "refused", "admitted", "waiting", "serving",
                 "served", "cancelling", "done"}

\* "gate": about to call the start gate; "stop": waiting for p.Stop of the
\* models in todo; "ensure": about to be received by the target's EnsureReady;
\* "starting": waiting for the start; "report": sending on swapDoneCh.
SwapStates == [pc : {"none", "gate", "stop", "ensure", "starting", "report", "exit"},
               todo : SUBSET Models, ok : BOOLEAN, cancelled : BOOLEAN]

ProcessStates == {"stopped", "starting", "ready", "stopping", "shutdown"}

\* "select": at the select of run; "grant": answering the callers in fanout
\* with verdict, to continue at after; "drain": in drainQueue, pending still
\* to be looked at; "cancel", "sweep" and "stop": the three phases of OnUnload
\* and of the shutdown.
LoopStates == [at : {"select", "grant", "drain", "cancel", "sweep", "stop", "closed"},
               fanout : SUBSET Known, verdict : {"serve", "error"},
               after : {"select", "drain", "cancel", "sweep"},
               pending : Seq(Known), targets : SUBSET Models,
               todo : SUBSET Models]

ShapeOK ==
    /\ active \in [Models -> ActiveSwaps]
    /\ reserved \in [Models -> Int]
    /\ inFlight \in [Models -> Int]
    /\ queued \in Seq(Known)
    /\ loop \in LoopStates
    /\ calls \subseteq Unloads
    /\ client \in [Requests -> ClientStates]
    /\ gone \subseteq Requests
    /\ swap \in [Requests -> SwapStates]
    /\ proc \in [Models -> ProcessStates]
    /\ down \in BOOLEAN

\* The type invariant.  The Go counters are ints; that they are never negative
\* is what release panics on otherwise.
TypeOK ==
    /\ ShapeOK
    /\ reserved \in [Models -> Nat]
    /\ inFlight \in [Models -> Nat]

Init ==
    /\ active = [m \in Models |-> Idle]
    /\ reserved = [m \in Models |-> 0]
    /\ inFlight = [m \in Models |-> 0]
    /\ queued = << >>
    /\ loop = [at |-> "select", fanout |-> {}, verdict |-> "serve",
               after |-> "select", pending |-> << >>, targets |-> {}, todo |-> {}]
    /\ calls = Unloads
    /\ client = [r \in Requests |-> "new"]
    /\ gone = {}
    /\ swap = [g \in Requests |-> [pc |-> "none", todo |-> {}, ok |-> TRUE,
                                   cancelled |-> FALSE]]
    /\ proc = [m \in Models |-> "stopped"]
    /\ down = FALSE

-----------------------------------------------------------------------------
(* What the scheduler computes from its own state and from Effects.         *)

Active == {m \in Models : active[m].gen # NoSwap}

\* A process the router reports as running: not stopped, not shut down.
Live(m) == proc[m] \notin {"stopped", "shutdown"}

\* Mutant: a model that is being swapped in does not count as running.
RunningSetLiveOnly(m) == {x \in Models : Live(x)} \ {m}

RunningSet(m) == {x \in Models : Live(x)} \cup (Active \ {m})

\* Mutant: two swaps may evict the same model.
CollidesOnTarget(m, evict) ==
    \E x \in Active \ {m} : x \in evict \/ m \in active[x].evict

CollidesWith(m, evict) ==
    \E x \in Active \ {m} :
        \/ x \in evict
        \/ m \in active[x].evict
        \/ evict \cap active[x].evict # {}

\* Mutant: one request in flight is not enough to hold back an eviction.
ConflictsWithMany(evict) == \E e \in evict : inFlight[e] > 1

ConflictsWithInFlight(evict) == \E e \in evict : inFlight[e] > 0

Evict(m) == EvictionFor(m, RunningSet(m))

\* The decision tree of OnRequest, which drainQueue repeats.
Decision(r) ==
    LET m == ModelOf[r] IN
    IF m \in Active THEN "join"
    ELSE IF proc[m] = "ready" /\ Evict(m) = {} /\ ~CollidesWith(m, Evict(m))
         THEN "serve"
    ELSE IF CollidesWith(m, Evict(m)) \/ ConflictsWithInFlight(Evict(m))
         THEN "wait"
    ELSE "swap"

Lower(q, r) == Priority[ModelOf[q]] < Priority[ModelOf[r]]

\* Mutant: the queue is first come, first served.
EnqueueLast(r, i) == i = Len(queued) + 1

\* i is the first place of the queue with a strictly lower priority, or the end.
EnqueuePlace(r, i) ==
    /\ \A j \in 1..Len(queued) : j < i => ~Lower(queued[j], r)
    /\ i <= Len(queued) => Lower(queued[i], r)

Release(m) == reserved' = [reserved EXCEPT ![m] = @ - 1]

\* Mutant: a drain puts what it cannot serve in front.
RequeueFirst(r) == queued' = <<r>> \o queued

Requeue(r) == queued' = Append(queued, r)

Join(r) == active' = [active EXCEPT ![ModelOf[r]].waiters = @ \cup {r}]

StartSwap(r) ==
    LET m == ModelOf[r] IN
    /\ active' = [active EXCEPT ![m] = [gen |-> r, evict |-> Evict(m), waiters |-> {r}]]
    /\ swap' = [swap EXCEPT ![r] = [pc |-> "gate", todo |-> Evict(m), ok |-> TRUE,
                                    cancelled |-> FALSE]]

\* Answer the callers in F one at a time, then continue at next.
FanOut(l, F, verdict, next) ==
    IF F = {} THEN [l EXCEPT !.at = next]
    ELSE [l EXCEPT !.at = "grant", !.fanout = F, !.verdict = verdict, !.after = next]

\* drainQueue takes the whole queue and rebuilds it.
BeginDrain(l) == [l EXCEPT !.pending = queued]

-----------------------------------------------------------------------------
(* Callers: baseRouter.ServeHTTP.                                          *)

\* The client disconnects.
Disconnect(r) ==
    /\ r \in MayLeave \ gone
    /\ client[r] # "done"
    /\ gone' = gone \cup {r}
    /\ UNCHANGED <<schedVars, loop, calls, client, swap, proc, down>>

\* The caller leaves by ctx.Done before the run loop received its request, or
\* by shutdownCtx.Done at any select it is parked in.
GiveUp(r) ==
    /\ \/ client[r] = "new" /\ r \in gone
       \/ down /\ client[r] \in {"new", "sent", "refused", "admitted", "waiting",
                                 "cancelling", "served"}
    /\ client' = [client EXCEPT ![r] = "done"]
    /\ UNCHANGED <<schedVars, loop, calls, gone, swap, proc, down>>

\* The caller reads its admission; a refusal is reported and ends it.
ReadAdmission(r) ==
    /\ client[r] \in {"admitted", "refused"}
    /\ client' = [client EXCEPT ![r] = IF @ = "admitted" THEN "waiting" ELSE "done"]
    /\ UNCHANGED <<schedVars, loop, calls, gone, swap, proc, down>>

\* A received request leaves by ctx.Done and tells the run loop.
Abandon(r) ==
    /\ r \in gone
    /\ client[r] \in {"sent", "refused", "admitted", "waiting"}
    /\ client' = [client EXCEPT ![r] = "cancelling"]
    /\ UNCHANGED <<schedVars, loop, calls, gone, swap, proc, down>>

\* The granted handler returns: answered, failed, or 503 by a process that
\* stopped in between.
ServeEnd(r) ==
    /\ client[r] = "serving"
    /\ client' = [client EXCEPT ![r] = "served"]
    /\ UNCHANGED <<schedVars, loop, calls, gone, swap, proc, down>>

-----------------------------------------------------------------------------
(* The run loop: requests, cancellations, finished handlers.               *)

Admissible(r) == ModelOf[r] \in Models /\ reserved[ModelOf[r]] < Limit[ModelOf[r]]

\* sendAdmission finds the caller gone, or delivers a refusal.
Refuse(r) ==
    /\ r \in gone \/ ~Admissible(r)
    /\ client' = [client EXCEPT ![r] = IF r \in gone THEN "sent" ELSE "refused"]
    /\ UNCHANGED <<schedVars, loop, swap>>

Admit(r) ==
    /\ r \notin gone
    /\ Admissible(r)
    /\ client' = [client EXCEPT ![r] = "admitted"]
    /\ reserved' = [reserved EXCEPT ![ModelOf[r]] = @ + 1]
    /\ UNCHANGED inFlight
    /\ \/ Decision(r) = "join"  /\ Join(r) /\ UNCHANGED <<queued, loop, swap>>
       \/ Decision(r) = "serve" /\ loop' = FanOut(loop, {r}, "serve", "select")
                                /\ UNCHANGED <<active, queued, swap>>
       \/ Decision(r) = "wait"  /\ \E i \in 1..Len(queued) + 1 :
                                    EnqueuePlace(r, i) /\ queued' = InsertAt(queued, i, r)
                                /\ UNCHANGED <<active, loop, swap>>
       \/ Decision(r) = "swap"  /\ StartSwap(r) /\ UNCHANGED <<queued, loop>>

OnRequest(r) ==
    /\ loop.at = "select"
    /\ client[r] = "new"
    /\ Refuse(r) \/ Admit(r)
    /\ UNCHANGED <<calls, gone, proc, down>>

Unqueue(r) ==
    /\ \E i \in 1..Len(queued) : queued[i] = r /\ queued' = RemoveAt(queued, i)
    /\ Release(ModelOf[r])
    /\ UNCHANGED active

Unjoin(r) ==
    LET m == ModelOf[r] IN
    /\ m \in Models /\ r \in active[m].waiters
    /\ active' = [active EXCEPT ![m].waiters = @ \ {r}]
    /\ Release(m)
    /\ UNCHANGED queued

\* The request is in the queue, or a waiter of one swap, or already out.
OnCancel(r) ==
    LET m == ModelOf[r] IN
    /\ loop.at = "select"
    /\ client[r] = "cancelling"
    /\ client' = [client EXCEPT ![r] = "done"]
    /\ \/ Unqueue(r)
       \/ Unjoin(r)
       \/ /\ r \notin ToSet(queued) /\ (m \in Models => r \notin active[m].waiters)
          /\ UNCHANGED <<active, reserved, queued>>
    /\ UNCHANGED <<inFlight, loop, calls, gone, swap, proc, down>>

\* Mutant: the count is compared before the handler is taken off it.
NoneInFlight(m) == inFlight[m] < 1

LastInFlight(m) == inFlight[m] <= 1

\* The last handler of a model frees the queue.
OnServeDone(r) ==
    LET m == ModelOf[r] IN
    /\ loop.at = "select"
    /\ client[r] = "served"
    /\ client' = [client EXCEPT ![r] = "done"]
    /\ inFlight' = [inFlight EXCEPT ![m] = @ - 1]
    /\ Release(m)
    /\ IF LastInFlight(m)
       THEN queued' = << >> /\ loop' = [BeginDrain(loop) EXCEPT !.at = "drain"]
       ELSE UNCHANGED <<queued, loop>>
    /\ UNCHANGED <<active, calls, gone, swap, proc, down>>

\* A swap reports; an outdated generation is ignored.  cancel() joins the
\* goroutine, which exits after its send.
OnSwapDone(g) ==
    LET m == ModelOf[g] IN
    /\ loop.at = "select"
    /\ swap[g].pc = "report"
    /\ swap' = [swap EXCEPT ![g].pc = "exit"]
    /\ IF m \in Active /\ active[m].gen = g
       THEN /\ active' = [active EXCEPT ![m] = Idle]
            /\ queued' = << >>
            /\ loop' = FanOut(BeginDrain(loop), active[m].waiters,
                              IF swap[g].ok THEN "serve" ELSE "error", "drain")
       ELSE UNCHANGED <<active, queued, loop>>
    /\ UNCHANGED <<reserved, inFlight, calls, client, gone, proc, down>>

\* One answer of the current fan-out.  The grant is a rendezvous: it lands
\* only while the caller is parked on Respond, and is given up once the
\* caller's context or the router is done.
Answered(r) ==
    IF loop.fanout = {r}
    THEN [loop EXCEPT !.at = loop.after, !.fanout = {}, !.verdict = "serve",
                      !.after = "select"]
    ELSE [loop EXCEPT !.fanout = @ \ {r}]

\* Mutant: the end of the router does not end a rendezvous.
ContextDone(r) == r \in gone

CallerGone(r) == r \in gone \/ down

\* Mutant: the handler is not counted.
GrantUncounted(r) ==
    /\ client[r] = "waiting"
    /\ client' = [client EXCEPT ![r] = "serving"]
    /\ UNCHANGED <<inFlight, reserved>>

GrantLands(r) ==
    /\ client[r] = "waiting"
    /\ client' = [client EXCEPT ![r] = "serving"]
    /\ inFlight' = [inFlight EXCEPT ![ModelOf[r]] = @ + 1]
    /\ UNCHANGED reserved

\* Mutant: a lost grant keeps its slot.
LossKeepsSlot(r) == CallerGone(r) /\ UNCHANGED <<client, inFlight, reserved>>
GrantIsLost(r) ==
    /\ CallerGone(r)
    /\ Release(ModelOf[r])
    /\ UNCHANGED <<client, inFlight>>

GrantHandler(r) ==
    /\ loop.at = "grant" /\ loop.verdict = "serve"
    /\ r \in loop.fanout
    /\ GrantLands(r) \/ GrantIsLost(r)
    /\ loop' = Answered(r)
    /\ UNCHANGED <<active, queued, calls, gone, swap, proc, down>>

GrantError(r) ==
    /\ loop.at = "grant" /\ loop.verdict = "error"
    /\ r \in loop.fanout
    /\ Release(ModelOf[r])
    /\ \/ client[r] = "waiting" /\ client' = [client EXCEPT ![r] = "done"]
       \/ CallerGone(r) /\ UNCHANGED client
    /\ loop' = Answered(r)
    /\ UNCHANGED <<active, inFlight, queued, calls, gone, swap, proc, down>>

\* One request of drainQueue.  A queued request's model is always known: the
\* process map is fixed, so the unknown-model branch of drainQueue is dead.
DrainQueue ==
    LET r == Head(loop.pending)
        rest == [loop EXCEPT !.pending = Tail(@)]
    IN
    /\ loop.at = "drain" /\ loop.pending # << >>
    /\ \/ Decision(r) = "join"  /\ Join(r) /\ loop' = rest /\ UNCHANGED <<queued, swap>>
       \/ Decision(r) = "serve" /\ loop' = FanOut(rest, {r}, "serve", "drain")
                                /\ UNCHANGED <<active, queued, swap>>
       \/ Decision(r) = "wait"  /\ Requeue(r) /\ loop' = rest
                                /\ UNCHANGED <<active, swap>>
       \/ Decision(r) = "swap"  /\ StartSwap(r) /\ loop' = rest /\ UNCHANGED queued
    /\ UNCHANGED <<reserved, inFlight, calls, client, gone, proc, down>>

DrainEnd ==
    /\ loop.at = "drain" /\ loop.pending = << >>
    /\ loop' = [loop EXCEPT !.at = "select", !.targets = {}]
    /\ UNCHANGED <<schedVars, calls, client, gone, swap, proc, down>>

-----------------------------------------------------------------------------
(* The run loop: unload and shutdown.                                      *)

\* OnUnload(targets), received from sendUnload.
OnUnload(T) ==
    /\ loop.at = "select"
    /\ T \in calls
    /\ calls' = calls \ {T}
    /\ loop' = [loop EXCEPT !.at = "cancel", !.targets = T]
    /\ UNCHANGED <<schedVars, client, gone, swap, proc, down>>

\* handleShutdown cancels shutdownCtx, and with it the context of every swap.
\* OnShutdown and the stops that follow take the phases of an unload of every
\* model; the scheduler state OnShutdown leaves behind is never read again.
OnShutdown ==
    /\ MayShutdown /\ ~down
    /\ loop.at = "select"
    /\ down' = TRUE
    /\ loop' = [loop EXCEPT !.at = "cancel", !.targets = Models]
    /\ UNCHANGED <<schedVars, calls, client, gone, swap, proc>>

Cancelled(g) == swap[g].cancelled \/ down

\* sw.cancel() of the next targeted swap; its second half joins the goroutine.
CancelSwap(m) ==
    /\ loop.at = "cancel"
    /\ m \in loop.targets \cap Active
    /\ \A x \in Active : ~swap[active[x].gen].cancelled
    /\ swap' = [swap EXCEPT ![active[m].gen].cancelled = TRUE]
    /\ UNCHANGED <<schedVars, loop, calls, client, gone, proc, down>>

\* Mutant: the goroutine is cancelled and not joined.
CancelledOnly(m) == swap[active[m].gen].cancelled

Joinable(m) == swap[active[m].gen].cancelled /\ swap[active[m].gen].pc = "exit"

JoinSwap(m) ==
    /\ loop.at = "cancel"
    /\ m \in Active /\ Joinable(m)
    /\ active' = [active EXCEPT ![m] = Idle]
    /\ loop' = FanOut(loop, active[m].waiters, "error", "cancel")
    /\ UNCHANGED <<reserved, inFlight, queued, calls, client, gone, swap, proc, down>>

\* Mutant: the swaps of the targets are left alone.
CancelNone ==
    /\ loop.at = "cancel"
    /\ loop' = [BeginDrain(loop) EXCEPT !.at = "sweep"]
    /\ queued' = << >>
    /\ UNCHANGED <<active, reserved, inFlight, calls, client, gone, swap, proc, down>>

CancelEnd ==
    /\ loop.at = "cancel"
    /\ loop.targets \cap Active = {}
    /\ loop' = [BeginDrain(loop) EXCEPT !.at = "sweep"]
    /\ queued' = << >>
    /\ UNCHANGED <<active, reserved, inFlight, calls, client, gone, swap, proc, down>>

\* Queued requests for the targets are answered with an error, others are kept.
SweepQueue ==
    LET r == Head(loop.pending)
        rest == [loop EXCEPT !.pending = Tail(@)]
    IN
    /\ loop.at = "sweep" /\ loop.pending # << >>
    /\ IF ModelOf[r] \in loop.targets
       THEN loop' = FanOut(rest, {r}, "error", "sweep") /\ UNCHANGED queued
       ELSE loop' = rest /\ Requeue(r)
    /\ UNCHANGED <<active, reserved, inFlight, calls, client, gone, swap, proc, down>>

SweepEnd ==
    /\ loop.at = "sweep" /\ loop.pending = << >>
    /\ loop' = [loop EXCEPT !.at = "stop", !.todo = loop.targets]
    /\ UNCHANGED <<schedVars, calls, client, gone, swap, proc, down>>

\* StopProcesses: one of the parallel p.Stop calls returns.
StopReturns(m) ==
    /\ loop.at = "stop"
    /\ m \in loop.todo /\ proc[m] = "stopped"
    /\ loop' = [loop EXCEPT !.todo = @ \ {m}]
    /\ UNCHANGED <<schedVars, calls, client, gone, swap, proc, down>>

\* All stopped: the unload drains the queue, the shutdown ends every process
\* with procCancel and leaves the run loop.
StopEnd ==
    /\ loop.at = "stop" /\ loop.todo = {}
    /\ IF down
       THEN /\ loop' = [loop EXCEPT !.at = "closed", !.targets = {}]
            /\ proc' = [m \in Models |-> "shutdown"]
            /\ UNCHANGED queued
       ELSE /\ loop' = [BeginDrain(loop) EXCEPT !.at = "drain"]
            /\ queued' = << >>
            /\ UNCHANGED proc
    /\ UNCHANGED <<active, reserved, inFlight, calls, client, gone, swap, down>>

-----------------------------------------------------------------------------
(* Swap goroutines.                                                        *)

SwapGate(g) ==
    /\ swap[g].pc = "gate"
    /\ \/ swap' = [swap EXCEPT ![g].pc = "stop"]
       \/ GateMayRefuse /\ swap' = [swap EXCEPT ![g].pc = "report", ![g].ok = FALSE]
    /\ UNCHANGED <<schedVars, loop, calls, client, gone, proc, down>>

\* p.Stop of one evicted process returns.
SwapStopReturns(g, m) ==
    /\ swap[g].pc = "stop"
    /\ m \in swap[g].todo /\ proc[m] = "stopped"
    /\ swap' = [swap EXCEPT ![g].todo = @ \ {m}]
    /\ UNCHANGED <<schedVars, loop, calls, client, gone, proc, down>>

SwapStopped(g) ==
    /\ swap[g].pc = "stop" /\ swap[g].todo = {}
    /\ swap' = [swap EXCEPT ![g].pc = IF Cancelled(g) THEN "exit" ELSE "ensure"]
    /\ UNCHANGED <<schedVars, loop, calls, client, gone, proc, down>>

\* EnsureReady is received by the target: ready at once, or a start.  While
\* the process is starting or stopping its loop does not receive the request.
EnsureReady(g) ==
    LET m == ModelOf[g] IN
    /\ swap[g].pc = "ensure"
    /\ \/ /\ proc[m] = "ready"
          /\ swap' = [swap EXCEPT ![g].pc = "report"]
          /\ UNCHANGED proc
       \/ /\ proc[m] = "stopped"
          /\ swap' = [swap EXCEPT ![g].pc = "starting"]
          /\ proc' = [proc EXCEPT ![m] = "starting"]
    /\ UNCHANGED <<schedVars, loop, calls, client, gone, down>>

\* Mutant: the report does not select on the context.
SwapCancelledEarly(g) ==
    /\ Cancelled(g)
    /\ swap[g].pc \in {"ensure", "starting"}
    /\ swap' = [swap EXCEPT ![g].pc = "exit"]
    /\ UNCHANGED <<schedVars, loop, calls, client, gone, proc, down>>

\* ctx.Done: out of EnsureReady or of reportSwapDone.  A start that was
\* received goes on without its caller.
SwapCancelled(g) ==
    /\ Cancelled(g)
    /\ swap[g].pc \in {"ensure", "starting", "report"}
    /\ swap' = [swap EXCEPT ![g].pc = "exit"]
    /\ UNCHANGED <<schedVars, loop, calls, client, gone, proc, down>>

-----------------------------------------------------------------------------
(* Processes, reduced to their state (module ProcessCommand has the rest).  *)

\* The result of a start reaches the swap that is waiting for it, if any.
Settle(m, ok) ==
    swap' = [g \in Requests |->
                IF swap[g].pc = "starting" /\ ModelOf[g] = m
                THEN [swap[g] EXCEPT !.pc = "report", !.ok = ok] ELSE swap[g]]

StopWanted(m) ==
    \/ \E g \in Requests : swap[g].pc = "stop" /\ m \in swap[g].todo
    \/ (loop.at = "stop" /\ m \in loop.todo)

StartResult(m) ==
    /\ proc[m] = "starting"
    /\ \E ok \in BOOLEAN :
          /\ proc' = [proc EXCEPT ![m] = IF ok THEN "ready" ELSE "stopped"]
          /\ Settle(m, ok)
    /\ UNCHANGED <<schedVars, loop, calls, client, gone, down>>

\* A Stop received during a start aborts it.
AbortStart(m) ==
    /\ proc[m] = "starting"
    /\ StopWanted(m)
    /\ proc' = [proc EXCEPT ![m] = "stopped"]
    /\ Settle(m, FALSE)
    /\ UNCHANGED <<schedVars, loop, calls, client, gone, down>>

BeginStop(m) ==
    /\ proc[m] = "ready"
    /\ StopWanted(m)
    /\ proc' = [proc EXCEPT ![m] = "stopping"]
    /\ UNCHANGED <<schedVars, loop, calls, client, gone, swap, down>>

EndStop(m) ==
    /\ proc[m] = "stopping"
    /\ proc' = [proc EXCEPT ![m] = "stopped"]
    /\ UNCHANGED <<schedVars, loop, calls, client, gone, swap, down>>

\* The process exits by itself, or its TTL goroutine stops it.
Vanish(m) ==
    /\ m \in Volatile
    /\ proc[m] = "ready"
    /\ \E s \in {"stopped", "stopping"} : proc' = [proc EXCEPT ![m] = s]
    /\ UNCHANGED <<schedVars, loop, calls, client, gone, swap, down>>

-----------------------------------------------------------------------------
ClientStep(r) == GiveUp(r) \/ ReadAdmission(r) \/ Abandon(r) \/ ServeEnd(r)

LoopEvent(r) == OnRequest(r) \/ OnCancel(r) \/ OnServeDone(r) \/ OnSwapDone(r)

LoopStep ==
    \/ \E r \in Requests : GrantHandler(r) \/ GrantError(r)
    \/ DrainQueue \/ DrainEnd
    \/ \E m \in Models : CancelSwap(m) \/ JoinSwap(m) \/ StopReturns(m)
    \/ CancelEnd \/ SweepQueue \/ SweepEnd \/ StopEnd

SwapStep(g) ==
    \/ SwapGate(g) \/ SwapStopped(g) \/ EnsureReady(g) \/ SwapCancelled(g)
    \/ \E m \in Models : SwapStopReturns(g, m)

ProcessStep(m) == StartResult(m) \/ AbortStart(m) \/ BeginStop(m) \/ EndStop(m)

Next ==
    \/ \E r \in Requests : Disconnect(r) \/ ClientStep(r) \/ LoopEvent(r) \/ SwapStep(r)
    \/ LoopStep
    \/ \E T \in Unloads : OnUnload(T)
    \/ OnShutdown
    \/ \E m \in Models : ProcessStep(m) \/ Vanish(m)

Spec == Init /\ [][Next]_vars

\* Every goroutine is scheduled, every channel the run loop selects on is
\* eventually chosen, an upstream answers its requests, a start and a stop end
\* (health check deadline, SIGKILL).  Nobody has to disconnect, to call
\* Shutdown, or to crash.
FairSpec ==
    /\ Spec
    /\ \A r \in Requests : /\ WF_vars(ClientStep(r))
                           /\ WF_vars(LoopEvent(r))
                           /\ WF_vars(SwapStep(r))
    /\ WF_vars(LoopStep)
    /\ \A T \in Unloads : WF_vars(OnUnload(T))
    /\ \A m \in Models : WF_vars(ProcessStep(m))
-----------------------------------------------------------------------------
(* Properties.                                                             *)

Waiters == UNION {active[m].waiters : m \in Models}

\* The requests the scheduler has admitted and still owes an answer.
Held == ToSet(queued) \cup ToSet(loop.pending) \cup Waiters \cup loop.fanout

HeldFor(m) == {r \in Held : ModelOf[r] = m}

\* The requests that run a granted handler or have not reported its end.
Busy(m) == {r \in Requests : client[r] \in {"serving", "served"} /\ ModelOf[r] = m}

\* The concurrency accounting of a model: every reservation belongs to exactly
\* one held or granted request, so release never panics (fifo.go, release),
\* no slot leaks, and the limit bounds the requests of a model past admission.
ReservationsBalance ==
    \A m \in Models :
        /\ reserved[m] = Cardinality(HeldFor(m)) + inFlight[m]
        /\ reserved[m] <= Limit[m]

\* inFlight counts the handlers that will still report on serveDoneCh: a grant
\* that did not land must not strand the counter (fifo.go, grantHandler;
\* base.go, GrantServe), or the model could never be evicted again.
InFlightExact ==
    ~down => \A m \in Models : inFlight[m] = Cardinality(Busy(m))

\* A request is in one place of the scheduler only, its caller is still
\* parked there, and what is granted has left the scheduler: a cancelled
\* request never triggers a load or a grant (scheduler.go, OnCancel).
HeldOnce ==
    /\ \A i, j \in 1..Len(queued \o loop.pending) :
          (queued \o loop.pending)[i] = (queued \o loop.pending)[j] => i = j
    /\ Waiters \cap (ToSet(queued) \cup ToSet(loop.pending) \cup loop.fanout) = {}
    /\ loop.fanout \cap (ToSet(queued) \cup ToSet(loop.pending)) = {}
    /\ \A m \in Models : \A r \in active[m].waiters : ModelOf[r] = m
    /\ ~down => \A r \in Held : client[r] \in {"admitted", "waiting", "cancelling"}

\* The scheduler's books, over every way a request can leave it: reject, cancel,
\* lost grant, error, unload and the end of its handler (fifo.go, release).
RouterAccounts == HeldOnce /\ ReservationsBalance /\ InFlightExact

\* Swaps that run in parallel keep out of each other's way: none stops the
\* target of another, and no process is stopped by two (fifo.go, collidesWith).
SwapsDoNotInterfere ==
    \A a, b \in Active : a # b =>
        /\ a \notin active[b].evict
        /\ active[a].evict \cap active[b].evict = {}

\* A swap never stops a process that is serving requests, from the decision to
\* start it until it is over (fifo.go, conflictsWithInFlight).
NoBusyEviction ==
    \A a \in Active : \A e \in active[a].evict : Busy(e) = {}

\* Two models the policy evicts for one another never have live processes at
\* the same time, whatever is loading, stopping or failing.
RivalsNeverTogether ==
    \A a, b \in Models : <<a, b>> \in Rivals => ~(Live(a) /\ Live(b))

\* A swap goroutine outlives neither its entry in active nor its cancellation:
\* the generation OnSwapDone compares is never an outdated one (base.go,
\* StartSwap: the returned function joins the goroutine).
SwapsAreCurrent ==
    \A g \in Requests : swap[g].pc \notin {"none", "exit"} =>
        /\ ModelOf[g] \in Models
        /\ active[ModelOf[g]].gen = g

\* Two rivals are never swapped in at the same time.
RivalsSwapApart ==
    \A a, b \in Models : <<a, b>> \in Rivals => ~(a \in Active /\ b \in Active)

\* A swap has accounted for every live rival of its target: it is still to be
\* stopped, and none is left when the target may be started.
RivalsCovered ==
    \A g \in Requests, b \in Models :
        <<ModelOf[g], b>> \in Rivals /\ Live(b) =>
            /\ swap[g].pc \in {"gate", "stop"} => b \in swap[g].todo
            /\ swap[g].pc # "ensure"

\* With ShapeOK, an inductive invariant.
SwapSafety ==
    /\ SwapsAreCurrent
    /\ SwapsDoNotInterfere
    /\ RivalsSwapApart
    /\ RivalsCovered
    /\ RivalsNeverTogether

\* No lost wake-up: whenever the run loop is idle with requests in the queue,
\* an event that drains the queue is still to come (fifo.go, drainQueue).
NoStrandedQueue ==
    (loop.at = "select" /\ queued # << >>) =>
        Active # {} \/ \E m \in Models : inFlight[m] > 0

\* From the end of StopProcesses until Unload returns the unloaded models are
\* stopped, and nothing in the scheduler is about to start them again
\* (fifo.go, OnUnload: cancel and join swaps before stopping their targets).
UnloadedStayStopped ==
    loop.at = "drain" \/ (loop.at = "grant" /\ loop.after = "drain") =>
        \A m \in loop.targets : proc[m] = "stopped" /\ m \notin Active /\ HeldFor(m) = {}

\* The queue is in descending priority (fifo.go, enqueue), also while
\* drainQueue is rebuilding it.
QueueByPriority ==
    LET q == queued \o loop.pending IN
    \A i, j \in 1..Len(q) : i < j => Priority[ModelOf[q[i]]] >= Priority[ModelOf[q[j]]]

\* Two requests that stay in the queue never change places: a drain keeps the
\* order of what it cannot serve (fifo.go, drainQueue).
OrderIsStable ==
    [][ LET q  == queued \o loop.pending
            q2 == queued' \o loop'.pending
        IN  \A i, j \in 1..Len(q), k, l \in 1..Len(q2) :
                i < j /\ q[i] = q2[k] /\ q[j] = q2[l] => k < l ]_vars

\* What the comment of OnCancel says (fifo.go): drainQueue never starts a model
\* load for a caller that is no longer there, that is, one that has already left
\* the select of ServeHTTP because its client disconnected.
NoLoadForDeparted ==
    [][ \A r \in Requests :
            loop.at = "drain" /\ swap[r].pc = "none" /\ swap'[r].pc = "gate"
            => client[r] # "cancelling" ]_vars

\* Every caller of ServeHTTP gets an answer or leaves (no request is dropped).
EveryRequestEnds == \A r \in Requests : <>(client[r] = "done")

\* No handler of the run loop blocks it for ever: not a grant to a caller that
\* left, not the join of a cancelled swap, not the stops of an unload.
RunLoopReturns == (loop.at # "select") ~> (loop.at \in {"select", "closed"})

\* Shutdown ends, with every process shut down.
ShutdownEnds == down ~> (loop.at = "closed" /\ \A m \in Models : proc[m] = "shutdown")
=============================================================================
