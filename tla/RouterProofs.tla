---------------------------- MODULE RouterProofs ----------------------------
(***************************************************************************)
(* The shape of the router's state is an invariant: TypeOK of module Router *)
(* without the sign of the two counters, which needs the accounting of      *)
(* reservations; and swap safety.  One lemma per action that touches a      *)
(* structured variable.                                                     *)
(***************************************************************************)
EXTENDS Router, TLAPS, FiniteSetTheorems, SequenceTheorems

\* The empty queue is a queue.
LEMMA EmptyType == << >> \in Seq(Known)
  OBVIOUS

\* The router of newBaseRouter has the shape.
LEMMA InitShape == Init => ShapeOK
<1> SUFFICES ASSUME Init PROVE ShapeOK
  OBVIOUS
<1> USE DEF Init
<1>1. << >> \in Seq(Known)
  OBVIOUS
<1>2. loop \in LoopStates
  BY <1>1 DEF LoopStates
<1>3. active \in [Models -> ActiveSwaps]
  BY DEF Idle, ActiveSwaps
<1>4. swap \in [Requests -> SwapStates]
  BY DEF SwapStates
<1>5. client \in [Requests -> ClientStates] /\ proc \in [Models -> ProcessStates]
  BY DEF ClientStates, ProcessStates
<1>6. reserved \in [Models -> Int] /\ inFlight \in [Models -> Int]
  OBVIOUS
<1>7. queued \in Seq(Known) /\ calls \subseteq Unloads /\ gone \subseteq Requests /\ down \in BOOLEAN
  BY <1>1
<1> QED
  BY <1>2, <1>3, <1>4, <1>5, <1>6, <1>7 DEF ShapeOK

\* What the policy is asked about and answers with are models (Swapper.EvictionFor).
LEMMA EvictType ==
  ASSUME ShapeOK, NEW m \in Models
  PROVE  Evict(m) \subseteq RunningSet(m) \ {m} /\ RunningSet(m) \subseteq Models
  BY PolicyAssumption DEF Evict, RunningSet, Active

\* startSwap keeps the shape of active and swap.
LEMMA StartSwapType ==
  ASSUME ShapeOK, NEW r \in Known, StartSwap(r)
  PROVE  active' \in [Models -> ActiveSwaps] /\ swap' \in [Requests -> SwapStates]
  BY EvictType DEF ShapeOK, StartSwap, ActiveSwaps, SwapStates, Known

\* Replacing the waiters of a swap keeps the shape of active.
LEMMA WaitersType ==
  ASSUME NEW f \in [Models -> ActiveSwaps], NEW m, NEW W,
         m \in Models => W \in SUBSET Known
  PROVE  [f EXCEPT ![m].waiters = W] \in [Models -> ActiveSwaps]
<1>1. CASE m \in Models
  <2>1. [f[m] EXCEPT !.waiters = W] \in ActiveSwaps
    BY <1>1 DEF ActiveSwaps
  <2> QED
    BY <1>1, <2>1
<1> QED
  BY <1>1

\* The fields of an entry of active.
LEMMA ActiveType ==
  ASSUME ShapeOK, NEW m \in Models
  PROVE  /\ active[m].gen \in Known \cup {NoSwap}
         /\ active[m].evict \in SUBSET Models
         /\ active[m].waiters \in SUBSET Known
  BY DEF ShapeOK, ActiveSwaps

\* Joining a swap in progress keeps the shape of active.
LEMMA JoinType ==
  ASSUME ShapeOK, NEW r \in Known, Join(r)
  PROVE  active' \in [Models -> ActiveSwaps]
<1>1. ModelOf[r] \in Models => active[ModelOf[r]].waiters \cup {r} \in SUBSET Known
  BY ActiveType
<1> QED
  BY <1>1, WaitersType DEF Join, ShapeOK

\* The run loop about to answer callers, or going on at once.
LEMMA FanOutType ==
  ASSUME NEW l \in LoopStates, NEW F \in SUBSET Known, NEW v \in {"serve", "error"},
         NEW n \in {"select", "drain", "cancel", "sweep"}
  PROVE  FanOut(l, F, v, n) \in LoopStates
  BY DEF FanOut, LoopStates

\* enqueue yields a queue.
LEMMA InsertType ==
  ASSUME NEW q \in Seq(Known), NEW i \in 1..Len(q) + 1, NEW r \in Known
  PROVE  InsertAt(q, i, r) \in Seq(Known)
  BY DEF InsertAt

\* The pruning of OnCancel yields a queue.
LEMMA RemoveType ==
  ASSUME NEW q \in Seq(Known), NEW i \in 1..Len(q)
  PROVE  RemoveAt(q, i) \in Seq(Known)
  BY DEF RemoveAt

\* One answer of a fan-out keeps the shape of the run loop.
LEMMA AnsweredType ==
  ASSUME ShapeOK, NEW r
  PROVE  Answered(r) \in LoopStates
<1>1. loop.fanout \ {r} \in SUBSET Known
  BY DEF ShapeOK, LoopStates
<1> QED
  BY <1>1 DEF ShapeOK, Answered, LoopStates

\* drainQueue and OnUnload take the next request off what they walk through.
LEMMA PendingType ==
  ASSUME ShapeOK, loop.pending # << >>
  PROVE  /\ Head(loop.pending) \in Known
         /\ [loop EXCEPT !.pending = Tail(@)] \in LoopStates
<1>1. loop.pending \in Seq(Known)
  BY DEF ShapeOK, LoopStates
<1>2. Head(loop.pending) \in Known /\ Tail(loop.pending) \in Seq(Known)
  BY <1>1
<1> QED
  BY <1>2 DEF ShapeOK, LoopStates

\* A step of one caller keeps the shape of client.
LEMMA ClientType ==
  ASSUME ShapeOK, NEW r, NEW c \in ClientStates
  PROVE  [client EXCEPT ![r] = c] \in [Requests -> ClientStates]
  BY DEF ShapeOK

\* The counters stay integers.
LEMMA CounterType ==
  ASSUME NEW f \in [Models -> Int], NEW m
  PROVE  /\ [f EXCEPT ![m] = @ + 1] \in [Models -> Int]
         /\ [f EXCEPT ![m] = @ - 1] \in [Models -> Int]
<1>1. CASE m \in Models
  BY <1>1
<1>2. CASE m \notin Models
  <2>1. [f EXCEPT ![m] = @ + 1] = f /\ [f EXCEPT ![m] = @ - 1] = f
    BY <1>2
  <2> QED
    BY <2>1
<1> QED
  BY <1>1, <1>2

\* The run loop takes the queue to walk through it.
LEMMA BeginDrainType ==
  ASSUME ShapeOK
  PROVE  /\ BeginDrain(loop) \in LoopStates
         /\ \A a \in {"drain", "sweep"} : [BeginDrain(loop) EXCEPT !.at = a] \in LoopStates
  BY DEF ShapeOK, LoopStates, BeginDrain

\* A step of one swap goroutine keeps the shape of swap.
LEMMA SwapType ==
  ASSUME ShapeOK, NEW g, NEW s \in SwapStates
  PROVE  [swap EXCEPT ![g] = s] \in [Requests -> SwapStates]
  BY DEF ShapeOK

\* The variables a scheduler event may change have their types afterwards.
LEMMA OnRequestShape ==
  ASSUME ShapeOK, NEW r \in Requests, OnRequest(r) PROVE ShapeOK'
<1> USE DEF ShapeOK
<1>1. CASE Refuse(r)
  BY <1>1 DEF OnRequest, Refuse, schedVars, ClientStates
<1>2. CASE Admit(r)
  <2>1. r \in Known
    BY <1>2 DEF Admit, Admissible, Known
  <2>2. client' = [client EXCEPT ![r] = "admitted"] /\ inFlight' = inFlight
        /\ reserved' = [reserved EXCEPT ![ModelOf[r]] = @ + 1]
    BY <1>2 DEF Admit
  <2>3. client' \in [Requests -> ClientStates] /\ reserved' \in [Models -> Int]
    BY <2>2, ClientType, CounterType DEF ClientStates
  <2>4. /\ active' \in [Models -> ActiveSwaps] /\ queued' \in Seq(Known)
        /\ loop' \in LoopStates /\ swap' \in [Requests -> SwapStates]
    BY <1>2, <2>1, JoinType, StartSwapType, FanOutType, InsertType DEF Admit
  <2> QED
    BY <2>2, <2>3, <2>4 DEF OnRequest
<1> QED
  BY <1>1, <1>2 DEF OnRequest

\* OnCancel, in its three cases.
LEMMA OnCancelShape ==
  ASSUME ShapeOK, NEW r \in Requests, OnCancel(r) PROVE ShapeOK'
<1> USE DEF ShapeOK
<1>1. client' \in [Requests -> ClientStates]
  BY ClientType DEF OnCancel, ClientStates
<1>2. reserved' = reserved \/ reserved' = [reserved EXCEPT ![ModelOf[r]] = @ - 1]
  BY DEF OnCancel, Unqueue, Unjoin, Release
<1>3. reserved' \in [Models -> Int]
  BY <1>2, CounterType
<1>4. ModelOf[r] \in Models => active[ModelOf[r]].waiters \ {r} \in SUBSET Known
  BY ActiveType
<1>5. \/ active' = active
      \/ active' = [active EXCEPT ![ModelOf[r]].waiters = active[ModelOf[r]].waiters \ {r}]
  BY DEF OnCancel, Unqueue, Unjoin
<1>6. active' \in [Models -> ActiveSwaps]
  <2> DEFINE W == active[ModelOf[r]].waiters \ {r}
  <2>1. ModelOf[r] \in Models => W \in SUBSET Known
    BY <1>4
  <2>2. [active EXCEPT ![ModelOf[r]].waiters = W] \in [Models -> ActiveSwaps]
    <3> HIDE DEF W
    <3> QED
      BY <2>1, WaitersType
  <2> QED
    BY <1>5, <2>2
<1>7. queued' = queued \/ \E i \in 1..Len(queued) : queued' = RemoveAt(queued, i)
  BY DEF OnCancel, Unqueue, Unjoin
<1>8. queued' \in Seq(Known)
  BY <1>7, RemoveType
<1>9. UNCHANGED <<inFlight, loop, calls, gone, swap, proc, down>>
  BY DEF OnCancel
<1> QED
  BY <1>1, <1>3, <1>6, <1>8, <1>9

\* OnServeDone, which may begin a drain.
LEMMA OnServeDoneShape ==
  ASSUME ShapeOK, NEW r \in Requests, OnServeDone(r) PROVE ShapeOK'
<1> USE DEF ShapeOK
<1>1. client' \in [Requests -> ClientStates]
  BY ClientType DEF OnServeDone, ClientStates
<1>2. reserved' = [reserved EXCEPT ![ModelOf[r]] = @ - 1]
      /\ inFlight' = [inFlight EXCEPT ![ModelOf[r]] = @ - 1]
  BY DEF OnServeDone, Release
<1>3. reserved' \in [Models -> Int] /\ inFlight' \in [Models -> Int]
  BY <1>2, CounterType
<1>4. queued' = << >> \/ queued' = queued
  BY DEF OnServeDone
<1>5. loop' \in LoopStates
  BY BeginDrainType DEF OnServeDone
<1>6. UNCHANGED <<active, calls, gone, swap, proc, down>>
  BY DEF OnServeDone
<1>7. queued' \in Seq(Known)
  BY <1>4, EmptyType
<1> QED
  BY <1>1, <1>3, <1>5, <1>6, <1>7

\* OnSwapDone, for the current generation and for an outdated one.
LEMMA OnSwapDoneShape ==
  ASSUME ShapeOK, NEW g \in Requests, OnSwapDone(g) PROVE ShapeOK'
<1> USE DEF ShapeOK
<1>1. swap' = [swap EXCEPT ![g].pc = "exit"] /\ [swap[g] EXCEPT !.pc = "exit"] \in SwapStates
  BY DEF OnSwapDone, SwapStates
<1>2. swap' \in [Requests -> SwapStates]
  BY <1>1, SwapType
<1>3. CASE UNCHANGED <<active, queued, loop>>
  BY <1>2, <1>3 DEF OnSwapDone
<1>4. CASE ModelOf[g] \in Active /\ active[ModelOf[g]].gen = g
             /\ active' = [active EXCEPT ![ModelOf[g]] = Idle] /\ queued' = << >>
  <2>1. Idle \in ActiveSwaps
    BY DEF ActiveSwaps, Idle
  <2>2. active' \in [Models -> ActiveSwaps]
    BY <1>4, <2>1
  <2>3. PICK v \in {"serve", "error"} :
           loop' = FanOut(BeginDrain(loop), active[ModelOf[g]].waiters, v, "drain")
    BY <1>4 DEF OnSwapDone
  <2>4. active[ModelOf[g]].waiters \in SUBSET Known
    BY <1>4, ActiveType DEF Active
  <2>5. loop' \in LoopStates
    BY <2>3, <2>4, FanOutType, BeginDrainType
  <2> QED
    BY <1>2, <1>4, <2>2, <2>5 DEF OnSwapDone
<1> QED
  BY <1>3, <1>4 DEF OnSwapDone

\* The answers of a fan-out, delivered or lost.
LEMMA GrantShape ==
  ASSUME ShapeOK, NEW r \in Requests, GrantHandler(r) \/ GrantError(r) PROVE ShapeOK'
<1> USE DEF ShapeOK
<1>1. loop' = Answered(r)
  BY DEF GrantHandler, GrantError
<1>2. loop' \in LoopStates
  BY <1>1, AnsweredType
<1>3. \/ client' = client
      \/ \E c \in ClientStates : client' = [client EXCEPT ![r] = c]
  BY DEF GrantHandler, GrantError, GrantLands, GrantIsLost, ClientStates
<1>4. client' \in [Requests -> ClientStates]
  BY <1>3, ClientType
<1>5. /\ inFlight' \in {inFlight, [inFlight EXCEPT ![ModelOf[r]] = @ + 1]}
      /\ reserved' \in {reserved, [reserved EXCEPT ![ModelOf[r]] = @ - 1]}
  BY DEF GrantHandler, GrantError, GrantLands, GrantIsLost, Release
<1>6. inFlight' \in [Models -> Int] /\ reserved' \in [Models -> Int]
  BY <1>5, CounterType
<1>7. UNCHANGED <<active, queued, calls, gone, swap, proc, down>>
  BY DEF GrantHandler, GrantError
<1> QED
  BY <1>2, <1>4, <1>6, <1>7

\* A request kept by a drain is put back.
LEMMA AppendType ==
  ASSUME NEW q \in Seq(Known), NEW r \in Known
  PROVE  Append(q, r) \in Seq(Known)
  OBVIOUS

\* One request of drainQueue, in the four cases of the decision tree.
LEMMA DrainQueueShape ==
  ASSUME ShapeOK, DrainQueue PROVE ShapeOK'
<1> USE DEF ShapeOK
<1> DEFINE r == Head(loop.pending)
           rest == [loop EXCEPT !.pending = Tail(@)]
<1>1. r \in Known /\ rest \in LoopStates
  BY PendingType DEF DrainQueue
<1>2. loop' \in {rest, FanOut(rest, {r}, "serve", "drain")}
  BY DEF DrainQueue
<1>3. loop' \in LoopStates
  BY <1>1, <1>2, FanOutType
<1>4. queued' \in {queued, Append(queued, r)}
  BY DEF DrainQueue, Requeue
<1>5. queued' \in Seq(Known)
  BY <1>1, <1>4, AppendType
<1>6. UNCHANGED <<active, swap>> \/ (Join(r) /\ UNCHANGED swap) \/ StartSwap(r)
  BY DEF DrainQueue
<1>7. active' \in [Models -> ActiveSwaps] /\ swap' \in [Requests -> SwapStates]
  BY <1>1, <1>6, JoinType, StartSwapType
<1>8. UNCHANGED <<reserved, inFlight, calls, client, gone, proc, down>>
  BY DEF DrainQueue
<1> QED
  BY <1>3, <1>5, <1>7, <1>8

\* One queued request of OnUnload, answered or kept.
LEMMA SweepQueueShape ==
  ASSUME ShapeOK, SweepQueue PROVE ShapeOK'
<1> USE DEF ShapeOK
<1> DEFINE r == Head(loop.pending)
           rest == [loop EXCEPT !.pending = Tail(@)]
<1>1. r \in Known /\ rest \in LoopStates
  BY PendingType DEF SweepQueue
<1>2. loop' \in {rest, FanOut(rest, {r}, "error", "sweep")}
  BY DEF SweepQueue
<1>3. loop' \in LoopStates
  BY <1>1, <1>2, FanOutType
<1>4. queued' \in {queued, Append(queued, r)}
  BY DEF SweepQueue, Requeue
<1>5. queued' \in Seq(Known)
  BY <1>1, <1>4, AppendType
<1>6. UNCHANGED <<active, reserved, inFlight, calls, client, gone, swap, proc, down>>
  BY DEF SweepQueue
<1> QED
  BY <1>3, <1>5, <1>6

\* OnUnload cancels and joins the swaps of its targets.
LEMMA CancelShape ==
  ASSUME ShapeOK, NEW m \in Models, CancelSwap(m) \/ JoinSwap(m) PROVE ShapeOK'
<1> USE DEF ShapeOK
<1>1. CASE CancelSwap(m)
  <2>1. swap' = [swap EXCEPT ![active[m].gen].cancelled = TRUE]
    BY <1>1 DEF CancelSwap
  <2>2. active[m].gen \in Requests
    BY <1>1, ActiveType DEF CancelSwap, Active, Known
  <2>3. [swap[active[m].gen] EXCEPT !.cancelled = TRUE] \in SwapStates
    BY <2>2 DEF SwapStates
  <2>4. swap' \in [Requests -> SwapStates]
    BY <2>1, <2>3, SwapType
  <2> QED
    BY <1>1, <2>4 DEF CancelSwap, schedVars
<1>2. CASE JoinSwap(m)
  <2>1. active' = [active EXCEPT ![m] = Idle]
        /\ loop' = FanOut(loop, active[m].waiters, "error", "cancel")
    BY <1>2 DEF JoinSwap
  <2>2. active' \in [Models -> ActiveSwaps]
    BY <2>1 DEF ActiveSwaps, Idle
  <2>3. loop' \in LoopStates
    BY <2>1, ActiveType, FanOutType
  <2> QED
    BY <1>2, <2>2, <2>3 DEF JoinSwap
<1> QED
  BY <1>1, <1>2

\* The steps of the run loop from one phase to the next.
LEMMA PhaseShape ==
  ASSUME ShapeOK,
         DrainEnd \/ CancelEnd \/ SweepEnd \/ StopEnd \/ OnShutdown
         \/ (\E T \in Unloads : OnUnload(T)) \/ (\E m \in Models : StopReturns(m))
  PROVE  ShapeOK'
<1> USE DEF ShapeOK
<1>1. CASE DrainEnd \/ SweepEnd \/ (\E m \in Models : StopReturns(m))
  BY <1>1 DEF DrainEnd, SweepEnd, StopReturns, LoopStates, schedVars
<1>2. ASSUME NEW T \in SUBSET Models
      PROVE  [loop EXCEPT !.at = "cancel", !.targets = T] \in LoopStates
  BY DEF LoopStates
<1>3. CASE OnShutdown
  BY <1>2, <1>3 DEF OnShutdown, schedVars
<1>4. CASE \E T \in Unloads : OnUnload(T)
  <2>1. PICK T \in Unloads : OnUnload(T)
    BY <1>4
  <2>2. T \in SUBSET Models
    BY ConfigAssumption
  <2>3. loop' \in LoopStates /\ calls' \subseteq Unloads
    BY <1>2, <2>1, <2>2 DEF OnUnload
  <2> QED
    BY <2>1, <2>3 DEF OnUnload, schedVars
<1>5. CASE CancelEnd
  BY <1>5, BeginDrainType DEF CancelEnd
<1>6. CASE StopEnd
  <2>1. [loop EXCEPT !.at = "closed", !.targets = {}] \in LoopStates
    BY DEF LoopStates
  <2>2. loop' \in LoopStates
    BY <1>6, <2>1, BeginDrainType DEF StopEnd
  <2>3. queued' \in Seq(Known)
    BY <1>6, EmptyType DEF StopEnd
  <2>4. proc' \in [Models -> ProcessStates]
    BY <1>6 DEF StopEnd, ProcessStates
  <2> QED
    BY <1>6, <2>2, <2>3, <2>4 DEF StopEnd
<1> QED
  BY <1>1, <1>5, <1>6, <1>3, <1>4

\* The steps of a swap goroutine.
LEMMA SwapStepShape ==
  ASSUME ShapeOK, NEW g \in Requests, SwapStep(g) PROVE ShapeOK'
<1> USE DEF ShapeOK
<1>1. \E s \in SwapStates : swap' = [swap EXCEPT ![g] = s]
  BY DEF SwapStep, SwapGate, SwapStopped, EnsureReady, SwapCancelled, SwapStopReturns, SwapStates
<1>2. swap' \in [Requests -> SwapStates]
  BY <1>1, SwapType
<1>3. proc' \in [Models -> ProcessStates]
  BY DEF SwapStep, SwapGate, SwapStopped, EnsureReady, SwapCancelled, SwapStopReturns, ProcessStates
<1>4. UNCHANGED <<active, reserved, inFlight, queued, loop, calls, client, gone, down>>
  BY DEF SwapStep, SwapGate, SwapStopped, EnsureReady, SwapCancelled, SwapStopReturns, schedVars
<1> QED
  BY <1>2, <1>3, <1>4

\* The result of a start reaches the swap that waits for it.
LEMMA SettleType ==
  ASSUME ShapeOK, NEW m, NEW ok \in BOOLEAN, Settle(m, ok)
  PROVE  swap' \in [Requests -> SwapStates]
<1>1. ASSUME NEW g \in Requests
      PROVE  [swap[g] EXCEPT !.pc = "report", !.ok = ok] \in SwapStates /\ swap[g] \in SwapStates
  BY DEF ShapeOK, SwapStates
<1> QED
  BY <1>1 DEF Settle

\* The steps of a process.
LEMMA ProcessStepShape ==
  ASSUME ShapeOK, NEW m \in Models, ProcessStep(m) \/ Vanish(m) PROVE ShapeOK'
<1> USE DEF ShapeOK
<1>1. \E s \in ProcessStates : proc' = [proc EXCEPT ![m] = s]
  BY DEF ProcessStep, StartResult, AbortStart, BeginStop, EndStop, Vanish, ProcessStates
<1>2. proc' \in [Models -> ProcessStates]
  BY <1>1
<1>3. swap' = swap \/ \E ok \in BOOLEAN : Settle(m, ok)
  BY DEF ProcessStep, StartResult, AbortStart, BeginStop, EndStop, Vanish
<1>4. swap' \in [Requests -> SwapStates]
  BY <1>3, SettleType
<1>5. UNCHANGED <<active, reserved, inFlight, queued, loop, calls, client, gone, down>>
  BY DEF ProcessStep, StartResult, AbortStart, BeginStop, EndStop, Vanish, schedVars
<1> QED
  BY <1>2, <1>4, <1>5

\* Every step keeps the shape.
LEMMA NextShape == ShapeOK /\ [Next]_vars => ShapeOK'
<1> SUFFICES ASSUME ShapeOK, [Next]_vars PROVE ShapeOK'
  OBVIOUS
<1>1. ASSUME NEW r \in Requests, Disconnect(r) PROVE ShapeOK'
  BY <1>1, RequestsAssumption DEF ShapeOK, Disconnect, schedVars
<1>2. ASSUME NEW r \in Requests, ClientStep(r) PROVE ShapeOK'
  BY <1>2 DEF ShapeOK, ClientStep, GiveUp, ReadAdmission, Abandon, ServeEnd, schedVars, ClientStates
<1>3. ASSUME NEW r \in Requests, LoopEvent(r) PROVE ShapeOK'
  BY <1>3, OnRequestShape, OnCancelShape, OnServeDoneShape, OnSwapDoneShape DEF LoopEvent
<1>4. ASSUME LoopStep PROVE ShapeOK'
  BY <1>4, GrantShape, DrainQueueShape, SweepQueueShape, CancelShape, PhaseShape DEF LoopStep
<1>5. ASSUME UNCHANGED vars PROVE ShapeOK'
  BY <1>5 DEF vars, ShapeOK
<1> QED
  BY <1>1, <1>2, <1>3, <1>4, <1>5, PhaseShape, SwapStepShape, ProcessStepShape DEF Next

\* Every variable keeps its shape: the type invariant but for the sign of the
\* two counters.
THEOREM ShapeInvariant == Spec => []ShapeOK
  BY InitShape, NextShape, PTL DEF Spec


-----------------------------------------------------------------------------
(* Swap safety, for every set of models and requests and every policy:     *)
(* swap goroutines are current, parallel swaps stay out of each other's    *)
(* way, and rivals never have live processes together.                     *)

\* There is no swap and no live process at the start.
LEMMA InitSafety == Init => SwapSafety
  BY DEF Init, SwapSafety, SwapsAreCurrent, SwapsDoNotInterfere, RivalsSwapApart,
         RivalsCovered, RivalsNeverTogether, Active, Live, Idle

\* What a step that starts and ends no swap leaves alone.
LEMMA SafetyFrame ==
  ASSUME ShapeOK, SwapSafety,
         \A m \in Models : active'[m].gen = active[m].gen /\ active'[m].evict = active[m].evict,
         \A g \in Requests : swap'[g].pc = swap[g].pc /\ swap'[g].todo = swap[g].todo,
         UNCHANGED proc
  PROVE  SwapSafety'
<1>1. Active' = Active
  BY DEF Active
<1>2. SwapsAreCurrent'
  BY DEF SwapSafety, SwapsAreCurrent
<1>3. SwapsDoNotInterfere'
  BY <1>1 DEF SwapSafety, SwapsDoNotInterfere, Active
<1>4. RivalsSwapApart'
  BY <1>1 DEF SwapSafety, RivalsSwapApart
<1>5. RivalsCovered' /\ RivalsNeverTogether'
  BY DEF SwapSafety, RivalsCovered, RivalsNeverTogether, Live
<1> QED
  BY <1>2, <1>3, <1>4, <1>5 DEF SwapSafety

\* Rivals are distinct, and a live or active rival of m is in the evict set
\* EvictionFor computes for m.
LEMMA RivalEvicted ==
  ASSUME ShapeOK, NEW a \in Models, NEW b \in Models, <<a, b>> \in Rivals
  PROVE  /\ a # b /\ <<b, a>> \in Rivals
         /\ Live(b) \/ b \in Active => b \in Evict(a)
<1>1. a # b
  <2>1. b \in EvictionFor(a, {b})
    BY RivalsAssumption
  <2> QED
    BY <2>1, PolicyAssumption
<1>2. RunningSet(a) \subseteq Models
  BY EvictType
<1>3. Live(b) \/ b \in Active => b \in RunningSet(a)
  BY <1>1 DEF RunningSet
<1> QED
  BY <1>1, <1>2, <1>3, RivalsAssumption DEF Evict

\* startSwap, under the guards of the decision tree that lead to it.
LEMMA StartSwapSafe ==
  ASSUME ShapeOK, SwapSafety, NEW r \in Known, Decision(r) = "swap", StartSwap(r), UNCHANGED proc
  PROVE  SwapSafety'
<1> DEFINE m == ModelOf[r]
<1>1. m \in Models /\ r \in Requests /\ r # NoSwap
  BY RequestsAssumption DEF Known
<1>2. m \notin Active /\ ~CollidesWith(m, Evict(m))
  BY DEF Decision
<1>3. \A x \in Models : active'[x] = IF x = m THEN [gen |-> r, evict |-> Evict(m), waiters |-> {r}]
                                     ELSE active[x]
  BY <1>1 DEF StartSwap, ShapeOK
<1>4. \A g \in Requests : swap'[g] = IF g = r THEN [pc |-> "gate", todo |-> Evict(m), ok |-> TRUE,
                                                     cancelled |-> FALSE]
                                     ELSE swap[g]
  BY DEF StartSwap, ShapeOK
<1> HIDE DEF m
<1>5. Active' = Active \cup {m}
  BY <1>1, <1>3 DEF Active
<1>6. SwapsAreCurrent'
  <2> SUFFICES ASSUME NEW g \in Requests, swap'[g].pc \notin {"none", "exit"}
               PROVE  ModelOf[g] \in Models /\ active'[ModelOf[g]].gen = g
    BY DEF SwapsAreCurrent
  <2>1. CASE g = r
    BY <1>1, <1>3, <2>1 DEF m
  <2>2. CASE g # r
    <3>1. ModelOf[g] \in Models /\ active[ModelOf[g]].gen = g
      BY <1>4, <2>2 DEF SwapSafety, SwapsAreCurrent
    <3>2. ModelOf[g] # m
      BY <1>2, <3>1, RequestsAssumption DEF Active
    <3> QED
      BY <1>3, <3>1, <3>2
  <2> QED
    BY <2>1, <2>2
<1>7. SwapsDoNotInterfere'
  <2>1. \A x \in Active : /\ x # m /\ x \notin Evict(m) /\ m \notin active[x].evict
                          /\ Evict(m) \cap active[x].evict = {}
    BY <1>2 DEF CollidesWith
  <2>2. active'[m].evict = Evict(m) /\ \A x \in Active : active'[x].evict = active[x].evict
    BY <1>1, <1>3, <2>1 DEF Active
  <2> QED
    BY <1>5, <2>1, <2>2 DEF SwapSafety, SwapsDoNotInterfere
<1>8. RivalsSwapApart'
  <2>1. \A b \in Active : <<m, b>> \notin Rivals
    BY <1>1, <1>2, RivalEvicted DEF CollidesWith, Active
  <2> QED
    BY <1>1, <1>5, <2>1, RivalEvicted DEF SwapSafety, RivalsSwapApart, Active
<1>9. RivalsCovered'
  <2> SUFFICES ASSUME NEW g \in Requests, NEW b \in Models, <<ModelOf[g], b>> \in Rivals,
                      Live(b)
               PROVE  /\ swap'[g].pc \in {"gate", "stop"} => b \in swap'[g].todo
                      /\ swap'[g].pc # "ensure"
    BY DEF RivalsCovered, Live
  <2>1. CASE g = r
    <3>1. <<m, b>> \in Rivals
      BY <2>1 DEF m
    <3>2. b \in Evict(m)
      BY <1>1, <3>1, RivalEvicted
    <3>3. swap'[g].pc = "gate" /\ swap'[g].todo = Evict(m)
      BY <1>4, <2>1
    <3> QED
      BY <3>2, <3>3
  <2>2. CASE g # r
    BY <1>4, <2>2 DEF SwapSafety, RivalsCovered
  <2> QED
    BY <2>1, <2>2
<1>10. RivalsNeverTogether'
  BY DEF SwapSafety, RivalsNeverTogether, Live
<1> QED
  BY <1>6, <1>7, <1>8, <1>9, <1>10 DEF SwapSafety

\* A swap leaves active: its goroutine has exited, or exits in this step.
LEMMA EndSwapSafe ==
  ASSUME ShapeOK, SwapSafety, NEW m \in Models, active' = [active EXCEPT ![m] = Idle],
         \A g \in Requests : \/ swap'[g].pc = "exit"
                             \/ swap'[g] = swap[g] /\ g # active[m].gen,
         UNCHANGED proc
  PROVE  SwapSafety'
<1>1. \A x \in Models : active'[x] = IF x = m THEN Idle ELSE active[x]
  BY DEF ShapeOK
<1>2. Active' = Active \ {m}
  BY <1>1 DEF Active, Idle
<1>3. SwapsAreCurrent'
  BY <1>1 DEF SwapSafety, SwapsAreCurrent
<1>4. SwapsDoNotInterfere'
  BY <1>1, <1>2 DEF SwapSafety, SwapsDoNotInterfere, Active
<1>5. RivalsSwapApart'
  BY <1>2 DEF SwapSafety, RivalsSwapApart
<1>6. RivalsCovered' /\ RivalsNeverTogether'
  BY DEF SwapSafety, RivalsCovered, RivalsNeverTogether, Live
<1> QED
  BY <1>3, <1>4, <1>5, <1>6 DEF SwapSafety

\* A running swap goroutine takes one step and stays out of active.
LEMMA SwapStepSafe ==
  ASSUME ShapeOK, SwapSafety, NEW g \in Requests, SwapStep(g)
  PROVE  SwapSafety'
<1>1. UNCHANGED active
  BY DEF SwapStep, SwapGate, SwapStopped, EnsureReady, SwapCancelled, SwapStopReturns, schedVars
<1>2. \A h \in Requests : h # g => swap'[h] = swap[h]
  BY DEF ShapeOK, SwapStep, SwapGate, SwapStopped, EnsureReady, SwapCancelled, SwapStopReturns
<1>3. swap[g].pc \notin {"none", "exit"}
  BY DEF SwapStep, SwapGate, SwapStopped, EnsureReady, SwapCancelled, SwapStopReturns
<1>4. ModelOf[g] \in Models /\ ModelOf[g] \in Active
  BY <1>3, RequestsAssumption DEF SwapSafety, SwapsAreCurrent, Active
<1>5. SwapsAreCurrent'
  BY <1>1, <1>2, <1>3 DEF SwapSafety, SwapsAreCurrent
<1>6. SwapsDoNotInterfere' /\ RivalsSwapApart'
  BY <1>1 DEF SwapSafety, SwapsDoNotInterfere, RivalsSwapApart, Active
<1>7. CASE UNCHANGED proc
  <2>1. RivalsNeverTogether'
    BY <1>7 DEF SwapSafety, RivalsNeverTogether, Live
  <2>2. ASSUME NEW b \in Models, <<ModelOf[g], b>> \in Rivals, Live(b)
        PROVE  /\ swap'[g].pc \in {"gate", "stop"} => b \in swap'[g].todo
               /\ swap'[g].pc # "ensure"
    <3>1. /\ swap[g].pc \in {"gate", "stop"} => b \in swap[g].todo
          /\ swap[g].pc # "ensure"
      BY <2>2 DEF SwapSafety, RivalsCovered
    <3>2. proc[b] # "stopped"
      BY <2>2 DEF Live
    <3>3. CASE SwapGate(g)
      <4>1. swap[g].pc = "gate" /\ swap[g] \in SwapStates
        BY <3>3 DEF SwapGate, ShapeOK
      <4>2. swap'[g].pc = "report" \/ (swap'[g].pc = "stop" /\ swap'[g].todo = swap[g].todo)
        BY <3>3 DEF SwapGate, ShapeOK, SwapStates
      <4> QED
        BY <3>1, <4>1, <4>2
    <3>4. CASE EnsureReady(g) \/ SwapCancelled(g)
      BY <3>4 DEF ShapeOK, SwapStates, EnsureReady, SwapCancelled
    <3>5. CASE SwapStopped(g)
      BY <3>1, <3>5 DEF SwapStopped
    <3>6. CASE \E m \in Models : SwapStopReturns(g, m)
      <4>1. PICK m \in Models : SwapStopReturns(g, m)
        BY <3>6
      <4>2. swap'[g].pc = "stop" /\ swap'[g].todo = swap[g].todo \ {m} /\ m # b
        BY <3>2, <4>1 DEF ShapeOK, SwapStates, SwapStopReturns
      <4> QED
        BY <3>1, <4>1, <4>2 DEF SwapStopReturns
    <3> QED
      BY <3>3, <3>4, <3>5, <3>6 DEF SwapStep
  <2>3. RivalsCovered'
    BY <1>2, <1>7, <2>2 DEF SwapSafety, RivalsCovered, Live
  <2> QED
    BY <1>5, <1>6, <2>1, <2>3 DEF SwapSafety
<1>8. CASE swap[g].pc = "ensure" /\ proc' = [proc EXCEPT ![ModelOf[g]] = "starting"]
           /\ swap'[g].pc = "starting"
  <2>1. \A b \in Models : <<ModelOf[g], b>> \in Rivals \/ <<b, ModelOf[g]>> \in Rivals
           => ~Live(b) /\ b # ModelOf[g] /\ b \notin Active
    BY <1>4, <1>8, RivalEvicted DEF SwapSafety, RivalsCovered, RivalsSwapApart
  <2>2. \A b \in Models : Live(b)' => Live(b) \/ b = ModelOf[g]
    BY <1>8 DEF Live, ShapeOK
  <2>3. RivalsNeverTogether'
    BY <1>4, <2>1, <2>2 DEF SwapSafety, RivalsNeverTogether
  <2>4. ASSUME NEW h \in Requests, NEW b \in Models, <<ModelOf[h], b>> \in Rivals, Live(b)'
        PROVE  /\ swap'[h].pc \in {"gate", "stop"} => b \in swap'[h].todo
               /\ swap'[h].pc # "ensure"
    <3>1. CASE h = g
      BY <1>8, <3>1
    <3>2. CASE h # g /\ swap[h].pc \in {"gate", "stop", "ensure"}
      <4>1. ModelOf[h] \in Active /\ ModelOf[h] \in Models
        BY <3>2, RequestsAssumption DEF SwapSafety, SwapsAreCurrent, Active
      <4>2. b # ModelOf[g]
        BY <2>1, <2>4, <4>1
      <4> QED
        BY <1>2, <2>2, <2>4, <3>2, <4>2 DEF SwapSafety, RivalsCovered
    <3> QED
      BY <1>2, <3>1, <3>2
  <2>5. RivalsCovered'
    BY <2>4 DEF RivalsCovered, Live
  <2> QED
    BY <1>5, <1>6, <2>3, <2>5 DEF SwapSafety
<1>9. CASE EnsureReady(g)
  <2>1. CASE UNCHANGED proc
    BY <1>7, <2>1
  <2>2. CASE swap' = [swap EXCEPT ![g].pc = "starting"]
             /\ proc' = [proc EXCEPT ![ModelOf[g]] = "starting"]
    <3>1. swap'[g].pc = "starting"
      BY <2>2 DEF ShapeOK, SwapStates
    <3>2. swap[g].pc = "ensure"
      BY <1>9 DEF EnsureReady
    <3> QED
      BY <1>8, <2>2, <3>1, <3>2
  <2> QED
    BY <1>9, <2>1, <2>2 DEF EnsureReady
<1>10. CASE ~EnsureReady(g)
  BY <1>7, <1>10 DEF SwapStep, SwapGate, SwapStopped, SwapCancelled, SwapStopReturns
<1> QED
  BY <1>9, <1>10

\* A step of a process brings none to life; the result of a start goes to the
\* swap that waits for it.
LEMMA ProcessStepSafe ==
  ASSUME ShapeOK, SwapSafety, UNCHANGED active,
         \A b \in Models : Live(b)' => Live(b),
         \A g \in Requests : \/ swap'[g] = swap[g]
                             \/ swap[g].pc = "starting" /\ swap'[g].pc = "report"
  PROVE  SwapSafety'
<1>1. SwapsAreCurrent'
  BY DEF SwapSafety, SwapsAreCurrent
<1>2. SwapsDoNotInterfere' /\ RivalsSwapApart'
  BY DEF SwapSafety, SwapsDoNotInterfere, RivalsSwapApart, Active
<1>3. RivalsCovered' /\ RivalsNeverTogether'
  BY DEF SwapSafety, RivalsCovered, RivalsNeverTogether
<1> QED
  BY <1>1, <1>2, <1>3 DEF SwapSafety

\* Every step keeps the swap invariant, one step of the proof per action.
LEMMA NextSafety == ShapeOK /\ SwapSafety /\ [Next]_vars => SwapSafety'
<1> SUFFICES ASSUME ShapeOK, SwapSafety, [Next]_vars PROVE SwapSafety'
  OBVIOUS
<1>1. ASSUME NEW r \in Requests, Disconnect(r) \/ ClientStep(r) PROVE SwapSafety'
  BY <1>1, SafetyFrame DEF Disconnect, ClientStep, GiveUp, ReadAdmission, Abandon, ServeEnd,
     schedVars
<1>2. ASSUME UNCHANGED <<active, swap, proc>> PROVE SwapSafety'
  BY <1>2, SafetyFrame
<1>3. ASSUME NEW r \in Known, Join(r), UNCHANGED <<swap, proc>> PROVE SwapSafety'
  <2>1. \A m \in Models : active'[m].gen = active[m].gen /\ active'[m].evict = active[m].evict
    BY <1>3 DEF Join, ShapeOK, ActiveSwaps
  <2> QED
    BY <1>3, <2>1, SafetyFrame
<1>4. ASSUME NEW r \in Requests, OnRequest(r) PROVE SwapSafety'
  <2>1. CASE UNCHANGED <<active, swap, proc>>
    BY <1>2, <2>1
  <2>2. CASE Admit(r) /\ ~UNCHANGED <<active, swap, proc>>
    <3>1. r \in Known
      BY <1>4, <2>2 DEF Admit, Admissible, Known
    <3>2. UNCHANGED proc
      BY <1>4 DEF OnRequest
    <3>3. (Join(r) /\ UNCHANGED swap) \/ (Decision(r) = "swap" /\ StartSwap(r))
      BY <2>2, <3>2 DEF Admit
    <3> QED
      BY <1>3, <3>1, <3>2, <3>3, StartSwapSafe
  <2> QED
    BY <1>4, <2>1, <2>2 DEF OnRequest, Refuse, schedVars
<1>5. ASSUME NEW r \in Requests, OnCancel(r) PROVE SwapSafety'
  <2>1. \A m \in Models : active'[m].gen = active[m].gen /\ active'[m].evict = active[m].evict
    BY <1>5 DEF OnCancel, Unqueue, Unjoin, ShapeOK, ActiveSwaps
  <2> QED
    BY <1>5, <2>1, SafetyFrame DEF OnCancel
<1>6. ASSUME NEW g \in Requests, OnSwapDone(g) PROVE SwapSafety'
  <2>1. ModelOf[g] \in Active /\ ModelOf[g] \in Models /\ active[ModelOf[g]].gen = g
    BY <1>6, RequestsAssumption DEF OnSwapDone, SwapSafety, SwapsAreCurrent, Active
  <2>2. active' = [active EXCEPT ![ModelOf[g]] = Idle] /\ UNCHANGED proc
    BY <1>6, <2>1 DEF OnSwapDone
  <2>3. \A h \in Requests : swap'[h].pc = "exit" \/ (swap'[h] = swap[h] /\ h # g)
    BY <1>6 DEF OnSwapDone, ShapeOK, SwapStates
  <2> QED
    BY <2>1, <2>2, <2>3, EndSwapSafe
<1>7. ASSUME NEW m \in Models, CancelSwap(m) PROVE SwapSafety'
  <2>1. \A g \in Requests : swap'[g].pc = swap[g].pc /\ swap'[g].todo = swap[g].todo
    BY <1>7 DEF CancelSwap, ShapeOK, SwapStates
  <2> QED
    BY <1>7, <2>1, SafetyFrame DEF CancelSwap, schedVars
<1>8. ASSUME NEW m \in Models, JoinSwap(m) PROVE SwapSafety'
  <2>1. active' = [active EXCEPT ![m] = Idle] /\ UNCHANGED <<swap, proc>>
    BY <1>8 DEF JoinSwap
  <2>2. \A g \in Requests : swap'[g].pc = "exit" \/ (swap'[g] = swap[g] /\ g # active[m].gen)
    BY <1>8, <2>1 DEF JoinSwap, Joinable
  <2> QED
    BY <2>1, <2>2, EndSwapSafe
<1>9. ASSUME DrainQueue PROVE SwapSafety'
  <2> DEFINE r == Head(loop.pending)
  <2>1. r \in Known
    BY <1>9, PendingType DEF DrainQueue
  <2>2. \/ UNCHANGED <<active, swap>>
        \/ Join(r) /\ UNCHANGED swap
        \/ Decision(r) = "swap" /\ StartSwap(r)
    BY <1>9 DEF DrainQueue
  <2>3. UNCHANGED proc
    BY <1>9 DEF DrainQueue
  <2> HIDE DEF r
  <2> QED
    BY <1>2, <1>3, <2>1, <2>2, <2>3, StartSwapSafe
<1>10. ASSUME StopEnd PROVE SwapSafety'
  <2>1. \A b \in Models : Live(b)' => Live(b)
    BY <1>10 DEF StopEnd, Live
  <2> QED
    BY <1>10, <2>1, ProcessStepSafe DEF StopEnd
<1>11. ASSUME LoopStep PROVE SwapSafety'
  <2>1. CASE DrainEnd \/ CancelEnd \/ SweepQueue \/ SweepEnd \/ (\E m \in Models : StopReturns(m))
             \/ (\E r \in Requests : GrantHandler(r) \/ GrantError(r))
    BY <2>1, <1>2 DEF DrainEnd, CancelEnd, SweepQueue, SweepEnd, StopReturns, GrantHandler,
       GrantError, schedVars
  <2> QED
    BY <1>7, <1>8, <1>9, <1>10, <1>11, <2>1 DEF LoopStep
<1>12. ASSUME NEW m \in Models, ProcessStep(m) \/ Vanish(m) PROVE SwapSafety'
  <2>1. UNCHANGED active
    BY <1>12 DEF ProcessStep, StartResult, AbortStart, BeginStop, EndStop, Vanish, schedVars
  <2>2. \A b \in Models : Live(b)' => Live(b)
    BY <1>12 DEF ProcessStep, StartResult, AbortStart, BeginStop, EndStop, Vanish, Live, ShapeOK
  <2>3. \A g \in Requests : \/ swap'[g] = swap[g]
                            \/ swap[g].pc = "starting" /\ swap'[g].pc = "report"
    BY <1>12 DEF ProcessStep, StartResult, AbortStart, BeginStop, EndStop, Vanish, Settle, ShapeOK,
                 SwapStates
  <2> QED
    BY <2>1, <2>2, <2>3, ProcessStepSafe
<1>13. ASSUME NEW r \in Requests, OnServeDone(r) PROVE SwapSafety'
  BY <1>13, <1>2 DEF OnServeDone
<1>14. ASSUME OnShutdown \/ (\E T \in Unloads : OnUnload(T)) \/ UNCHANGED vars PROVE SwapSafety'
  BY <1>14, <1>2 DEF OnShutdown, OnUnload, vars, schedVars
<1> QED
  BY <1>1, <1>4, <1>5, <1>6, <1>11, <1>12, <1>13, <1>14, SwapStepSafe DEF Next, LoopEvent

\* Swaps are current, disjoint and cover the live rivals of their targets, in
\* every state (startSwap under the decision tree of OnRequest and drainQueue).
THEOREM SwapSafetyInvariant == Spec => []SwapSafety
<1>1. Init => ShapeOK /\ SwapSafety
  BY InitShape, InitSafety
<1>2. (ShapeOK /\ SwapSafety) /\ [Next]_vars => (ShapeOK /\ SwapSafety)'
  BY NextShape, NextSafety
<1> QED
  BY <1>1, <1>2, PTL DEF Spec

\* Whatever the policy, two models it evicts for one another never have live
\* processes at the same time.
THEOREM RivalsExcluded == Spec => []RivalsNeverTogether
  BY SwapSafetyInvariant, PTL DEF SwapSafety

\* The generation test of OnSwapDone never meets an outdated swap.
THEOREM SwapsCurrent == Spec => []SwapsAreCurrent
  BY SwapSafetyInvariant, PTL DEF SwapSafety

\* Swaps that run in parallel have disjoint targets and evict sets.
THEOREM SwapsDisjoint == Spec => []SwapsDoNotInterfere
  BY SwapSafetyInvariant, PTL DEF SwapSafety
=============================================================================
