---------------------------- MODULE RouterLoopProofs ----------------------------
(***************************************************************************)
(* What the run loop of the router promises, for every set of models and     *)
(* requests and every policy: the order of its queue, the wake-up of what is *)
(* queued, the models it spares and the models it has unloaded (fifo.go:    *)
(* enqueue, drainQueue, conflictsWithInFlight, OnUnload).                    *)
(***************************************************************************)
EXTENDS RouterAccountsProofs

CONSTANTS GroupOf, SwapGroups, Exclusive, Persistent   \* a configuration of groups
Groups == INSTANCE GroupPolicy

-----------------------------------------------------------------------------
(* The order of the queue.                                                 *)

Prio(r) == Priority[ModelOf[r]]

Sorted(s) == \A i, j \in 1..Len(s) : i < j => Prio(s[i]) >= Prio(s[j])

\* i is where enqueue puts a request into the line s.
PlaceIn(s, r, i) ==
    /\ \A j \in 1..Len(s) : j < i => Prio(s[j]) >= Prio(r)
    /\ i <= Len(s) => Prio(s[i]) < Prio(r)

Inserted(s, t) ==
    \E r \in Known \ ToSet(s), i \in 1..Len(s) + 1 :
        PlaceIn(s, r, i) /\ t = InsertAt(s, i, r)

Removed(s, t) == \E k \in 1..Len(s) : t = RemoveAt(s, k)

\* Priorities are comparable.
LEMMA PrioType == \A r \in Known : Prio(r) \in Int
  BY ConfigAssumption DEF Known, Prio

\* enqueue keeps the queue sorted.
LEMMA InsertSorted ==
  ASSUME NEW s \in Seq(Known), Sorted(s), NEW r \in Known, NEW i \in 1..Len(s) + 1,
         PlaceIn(s, r, i)
  PROVE  Sorted(InsertAt(s, i, r))
<1> DEFINE t == InsertAt(s, i, r)
<1>1. /\ Len(t) = Len(s) + 1
      /\ \A j \in 1..Len(s) + 1 : t[j] = IF j < i THEN s[j] ELSE IF j = i THEN r ELSE s[j - 1]
  BY InsertPlaces
<1> HIDE DEF t
<1>2. \A j \in 1..Len(s) : Prio(s[j]) \in Int
  BY PrioType
<1>3. Prio(r) \in Int
  BY PrioType
<1>4. \A j \in 1..Len(s) : IF j < i THEN Prio(s[j]) >= Prio(r) ELSE Prio(s[j]) < Prio(r)
  <2> SUFFICES ASSUME NEW j \in 1..Len(s), j >= i PROVE Prio(s[j]) < Prio(r)
    BY DEF PlaceIn
  <2>1. i \in 1..Len(s) /\ Prio(s[i]) < Prio(r)
    BY DEF PlaceIn
  <2>2. j = i \/ Prio(s[i]) >= Prio(s[j])
    BY <2>1 DEF Sorted
  <2> QED
    BY <1>2, <1>3, <2>1, <2>2
<1>5. ASSUME NEW j \in 1..Len(t), NEW k \in 1..Len(t), j < k PROVE Prio(t[j]) >= Prio(t[k])
  <2>1. CASE k < i
    <3>1. t[j] = s[j] /\ t[k] = s[k] /\ j \in 1..Len(s) /\ k \in 1..Len(s)
      BY <1>1, <1>5, <2>1
    <3> QED
      BY <1>5, <3>1 DEF Sorted
  <2>2. CASE k = i
    <3>1. t[j] = s[j] /\ t[k] = r /\ j \in 1..Len(s) /\ j < i
      BY <1>1, <1>5, <2>2
    <3> QED
      BY <1>4, <3>1
  <2>3. CASE k > i /\ j = i
    <3> DEFINE l == k - 1
    <3>1. t[j] = r /\ t[k] = s[l] /\ l \in 1..Len(s) /\ ~(l < i)
      BY <1>1, <1>5, <2>3
    <3> HIDE DEF l
    <3> QED
      BY <1>2, <1>3, <1>4, <3>1
  <2>4. CASE k > i /\ j < i
    <3> DEFINE l == k - 1
    <3>1. t[j] = s[j] /\ t[k] = s[l] /\ j \in 1..Len(s) /\ l \in 1..Len(s) /\ j < l
      BY <1>1, <1>5, <2>4
    <3> HIDE DEF l
    <3> QED
      BY <3>1 DEF Sorted
  <2>5. CASE j > i
    <3> DEFINE l == k - 1
               n == j - 1
    <3>1. t[j] = s[n] /\ t[k] = s[l] /\ n \in 1..Len(s) /\ l \in 1..Len(s) /\ n < l
      BY <1>1, <1>5, <2>5
    <3> HIDE DEF l, n
    <3> QED
      BY <3>1 DEF Sorted
  <2> QED
    BY <1>1, <1>5, <2>1, <2>2, <2>3, <2>4, <2>5
<1> QED
  BY <1>5 DEF Sorted, t

\* A request that leaves keeps the queue sorted.
LEMMA RemoveSorted ==
  ASSUME NEW s \in Seq(Known), Sorted(s), NEW i \in 1..Len(s)
  PROVE  Sorted(RemoveAt(s, i))
<1> DEFINE t == RemoveAt(s, i)
<1>1. /\ Len(t) = Len(s) - 1
      /\ \A j \in 1..Len(s) - 1 : t[j] = IF j < i THEN s[j] ELSE s[j + 1]
  BY RemovePlaces
<1> HIDE DEF t
<1>2. ASSUME NEW j \in 1..Len(t), NEW k \in 1..Len(t), j < k PROVE Prio(t[j]) >= Prio(t[k])
  <2> DEFINE x == IF j < i THEN j ELSE j + 1
             y == IF k < i THEN k ELSE k + 1
  <2>1. x \in 1..Len(s) /\ y \in 1..Len(s) /\ x < y /\ t[j] = s[x] /\ t[k] = s[y]
    BY <1>1, <1>2
  <2> HIDE DEF x, y
  <2> QED
    BY <2>1 DEF Sorted
<1> QED
  BY <1>2 DEF Sorted, t

\* Neither changes the order of those that stay.
Stable(s, t) ==
    \A i, j \in 1..Len(s), k, l \in 1..Len(t) : i < j /\ s[i] = t[k] /\ s[j] = t[l] => k < l

\* enqueue keeps the order of those that stay.
LEMMA InsertStable ==
  ASSUME NEW s \in Seq(Known), NoRepeat(s), NEW r \in Known \ ToSet(s), NEW n \in 1..Len(s) + 1
  PROVE  Stable(s, InsertAt(s, n, r))
<1> DEFINE t == InsertAt(s, n, r)
<1>1. /\ Len(t) = Len(s) + 1
      /\ \A j \in 1..Len(s) + 1 : t[j] = IF j < n THEN s[j] ELSE IF j = n THEN r ELSE s[j - 1]
  BY InsertPlaces
<1>2. \A j \in 1..Len(s) : s[j] # r
  BY InSet
<1> HIDE DEF t
<1>3. ASSUME NEW i \in 1..Len(s), NEW k \in 1..Len(t), s[i] = t[k]
      PROVE  k = IF i < n THEN i ELSE i + 1
  <2>1. k # n
    BY <1>1, <1>2, <1>3
  <2> DEFINE x == IF k < n THEN k ELSE k - 1
  <2>2. x \in 1..Len(s) /\ t[k] = s[x]
    BY <1>1, <2>1
  <2>3. x = i
    <3> HIDE DEF x
    <3> QED
      BY <1>3, <2>2 DEF NoRepeat
  <2> QED
    BY <1>1, <2>1, <2>3
<1>4. ASSUME NEW i \in 1..Len(s), NEW j \in 1..Len(s), NEW k \in 1..Len(t), NEW l \in 1..Len(t),
             i < j, s[i] = t[k], s[j] = t[l]
      PROVE  k < l
  <2>1. k = (IF i < n THEN i ELSE i + 1) /\ l = IF j < n THEN j ELSE j + 1
    BY <1>3, <1>4
  <2> QED
    BY <1>4, <2>1
<1> QED
  BY <1>4 DEF Stable, t

\* So does a request that leaves.
LEMMA RemoveStable ==
  ASSUME NEW s \in Seq(Known), NoRepeat(s), NEW n \in 1..Len(s)
  PROVE  Stable(s, RemoveAt(s, n))
<1> DEFINE t == RemoveAt(s, n)
<1>1. /\ Len(t) = Len(s) - 1
      /\ \A j \in 1..Len(s) - 1 : t[j] = IF j < n THEN s[j] ELSE s[j + 1]
  BY RemovePlaces
<1> HIDE DEF t
<1>2. ASSUME NEW i \in 1..Len(s), NEW k \in 1..Len(t), s[i] = t[k]
      PROVE  i = IF k < n THEN k ELSE k + 1
  <2> DEFINE x == IF k < n THEN k ELSE k + 1
  <2>1. x \in 1..Len(s) /\ t[k] = s[x]
    BY <1>1
  <2> HIDE DEF x
  <2>2. x = i
    BY <1>2, <2>1 DEF NoRepeat
  <2> QED
    BY <2>2 DEF x
<1>3. ASSUME NEW i \in 1..Len(s), NEW j \in 1..Len(s), NEW k \in 1..Len(t), NEW l \in 1..Len(t),
             i < j, s[i] = t[k], s[j] = t[l]
      PROVE  k < l
  <2>1. i = (IF k < n THEN k ELSE k + 1) /\ j = IF l < n THEN l ELSE l + 1
    BY <1>2, <1>3
  <2> QED
    BY <1>3, <2>1
<1> QED
  BY <1>3 DEF Stable, t

\* The line of a step is the one before, with one request more or one fewer.
LEMMA NextLine ==
  ASSUME HoldInv, ShapeOK', [Next]_vars
  PROVE  Line' = Line \/ Inserted(Line, Line') \/ Removed(Line, Line')
<1>1. Line \in Seq(Known)
  BY LineType DEF HoldInv
<1>2. ASSUME NEW r \in Requests, OnRequest(r)
      PROVE  Line' = Line \/ Inserted(Line, Line')
  <2>1. /\ loop.pending = << >> /\ queued \in Seq(Known)
        /\ client[r] = "new" /\ ~down
    BY <1>2 DEF OnRequest, HoldInv, Books, LoopOK, Phase, PhaseOf, ShapeOK
  <2>2. Line = queued
    BY <2>1 DEF Line
  <2>3. CASE UNCHANGED <<queued, loop>>
    BY <2>3 DEF Line
  <2>4. CASE loop' = FanOut(loop, {r}, "serve", "select") /\ UNCHANGED queued
    <3>1. loop'.pending = loop.pending
      BY <2>4 DEF FanOut, HoldInv, ShapeOK, LoopStates
    <3> QED
      BY <2>4, <3>1 DEF Line
  <2>5. CASE /\ \E i \in 1..Len(queued) + 1 : EnqueuePlace(r, i) /\ queued' = InsertAt(queued, i, r)
             /\ UNCHANGED loop /\ r \in Known
    <3>1. PICK i \in 1..Len(queued) + 1 : EnqueuePlace(r, i) /\ queued' = InsertAt(queued, i, r)
      BY <2>5
    <3>2. InsertAt(queued, i, r) \in Seq(Known)
      BY <2>1, <2>5, InsertPlaces
    <3>3. Line' = InsertAt(Line, i, r)
      BY <2>1, <2>2, <2>5, <3>1, <3>2 DEF Line
    <3>4. r \notin ToSet(Line)
      <4>1. r \notin Held
        BY <2>1, HeldCallers DEF HoldInv, Books
      <4> QED
        BY <4>1, HeldIs DEF HoldInv
    <3>5. PlaceIn(queued, r, i)
      <4>1. Prio(r) \in Int /\ \A j \in 1..Len(queued) : Prio(queued[j]) \in Int
        BY <2>1, <2>5, PrioType
      <4> QED
        BY <3>1, <4>1 DEF EnqueuePlace, Lower, PlaceIn, Prio
    <3> QED
      BY <2>2, <2>5, <3>1, <3>3, <3>4, <3>5 DEF Inserted
  <2> QED
    BY <1>2, <2>3, <2>4, <2>5 DEF OnRequest, Refuse, Admit, Admissible, Known, schedVars
<1>3. ASSUME NEW r \in Requests, OnCancel(r) PROVE Line' = Line \/ Removed(Line, Line')
  <2>1. /\ loop.pending = << >> /\ queued \in Seq(Known) /\ UNCHANGED loop
    BY <1>3 DEF OnCancel, HoldInv, Books, LoopOK, Phase, PhaseOf, ShapeOK
  <2>2. CASE UNCHANGED queued
    BY <2>1, <2>2 DEF Line
  <2>3. CASE Unqueue(r)
    <3>1. PICK i \in 1..Len(queued) : queued' = RemoveAt(queued, i)
      BY <2>3 DEF Unqueue
    <3>2. RemoveAt(queued, i) \in Seq(Known)
      BY <2>1, RemovePlaces
    <3>3. Line = queued /\ Line' = RemoveAt(queued, i)
      BY <2>1, <3>1, <3>2 DEF Line
    <3> QED
      BY <3>3 DEF Removed
  <2> QED
    BY <1>3, <2>2, <2>3 DEF OnCancel, Unjoin
<1>4. ASSUME NEW r \in Requests, \/ Disconnect(r) \/ ClientStep(r) \/ OnServeDone(r) \/ OnSwapDone(r)
                                 \/ GrantHandler(r) \/ GrantError(r)
      PROVE  Line' = Line
  BY <1>4, ClientHold, OnServeDoneHold, OnSwapDoneHold, GrantHold
<1>5. ASSUME DrainQueue \/ SweepQueue PROVE Line' = Line \/ Removed(Line, Line')
  BY <1>5, DrainQueueHold, SweepQueueHold DEF Removed
<1>6. ASSUME \/ DrainEnd \/ CancelEnd \/ SweepEnd \/ StopEnd \/ OnShutdown
             \/ \E m \in Models : CancelSwap(m) \/ StopReturns(m) \/ JoinSwap(m)
             \/ \E T \in Unloads : OnUnload(T)
      PROVE  Line' = Line
  BY <1>6, PhaseHold, JoinSwapHold
<1>7. ASSUME LoopStep PROVE Line' = Line \/ Removed(Line, Line')
  BY <1>4, <1>5, <1>6, <1>7 DEF LoopStep
<1>8. ASSUME UNCHANGED <<queued, loop>> PROVE Line' = Line
  BY <1>8 DEF Line
<1>9. ASSUME NEW r \in Requests, SwapStep(r) PROVE Line' = Line
  BY <1>8, <1>9 DEF SwapStep, SwapGate, SwapStopped, EnsureReady, SwapCancelled, SwapStopReturns, schedVars
<1>10. ASSUME NEW m \in Models, ProcessStep(m) \/ Vanish(m) PROVE Line' = Line
  BY <1>8, <1>10 DEF ProcessStep, StartResult, AbortStart, BeginStop, EndStop, Vanish, schedVars
<1>11. ASSUME UNCHANGED vars PROVE Line' = Line
  BY <1>8, <1>11 DEF vars
<1> QED
  BY <1>2, <1>3, <1>4, <1>6, <1>7, <1>9, <1>10, <1>11 DEF Next, LoopEvent

\* Every step keeps the line sorted, and the order of those that stay in it.
LEMMA NextSorted ==
  ASSUME HoldInv, ShapeOK', [Next]_vars
  PROVE  Stable(Line, Line') /\ (Sorted(Line) => Sorted(Line'))
<1>1. Line \in Seq(Known) /\ NoRepeat(Line)
  BY LineType DEF HoldInv, Books, PlacesOK
<1>2. Line' = Line \/ Inserted(Line, Line') \/ Removed(Line, Line')
  BY NextLine
<1>3. CASE Line' = Line
  <2>1. Stable(Line, Line)
    BY <1>1 DEF Stable, NoRepeat
  <2> QED
    BY <1>3, <2>1
<1>4. CASE Inserted(Line, Line')
  <2>1. PICK r \in Known \ ToSet(Line), i \in 1..Len(Line) + 1 :
                PlaceIn(Line, r, i) /\ Line' = InsertAt(Line, i, r)
    BY <1>4 DEF Inserted
  <2>2. Stable(Line, InsertAt(Line, i, r))
    BY <1>1, InsertStable
  <2>3. Sorted(Line) => Sorted(InsertAt(Line, i, r))
    BY <1>1, <2>1, InsertSorted
  <2> QED
    BY <2>1, <2>2, <2>3
<1>5. CASE Removed(Line, Line')
  <2>1. PICK i \in 1..Len(Line) : Line' = RemoveAt(Line, i)
    BY <1>5 DEF Removed
  <2> QED
    BY <1>1, <2>1, RemoveStable, RemoveSorted
<1> QED
  BY <1>2, <1>3, <1>4, <1>5

\* The queue is in descending priority, also while a drain or an unload walks
\* through it (fifo.go, enqueue, drainQueue).
THEOREM QueueSorted == Spec => []QueueByPriority
<1>1. Init => Sorted(Line)
  <2>1. Init => Line = << >>
    BY DEF Init, Line
  <2> QED
    BY <2>1 DEF Sorted
<1>2. AccountsInv /\ Sorted(Line) /\ [Next]_vars => Sorted(Line)'
  <2>1. AccountsInv /\ [Next]_vars => HoldInv /\ ShapeOK'
    BY NextShape DEF AccountsInv, HoldInv
  <2> QED
    BY <2>1, NextSorted
<1>3. Sorted(Line) => QueueByPriority
  BY DEF Sorted, QueueByPriority, Line, Prio
<1> QED
  BY <1>1, <1>2, <1>3, AccountsInvariant, PTL DEF Spec

\* Two requests that stay in the queue never change places: a drain puts back
\* what it cannot serve in the order it found it (fifo.go, drainQueue).
THEOREM QueueOrderKept == Spec => OrderIsStable
<1>1. AccountsInv /\ [Next]_vars => [Stable(Line, Line')]_vars
  <2>1. AccountsInv /\ [Next]_vars => HoldInv /\ ShapeOK'
    BY NextShape DEF AccountsInv, HoldInv
  <2> QED
    BY <2>1, NextSorted
<1>2. Stable(Line, Line') =>
         LET q  == queued \o loop.pending
             q2 == queued' \o loop'.pending
         IN  \A i, j \in 1..Len(q), k, l \in 1..Len(q2) :
                 i < j /\ q[i] = q2[k] /\ q[j] = q2[l] => k < l
  BY DEF Stable, Line
<1>3. AccountsInv /\ [Next]_vars =>
         [LET q  == queued \o loop.pending
              q2 == queued' \o loop'.pending
          IN  \A i, j \in 1..Len(q), k, l \in 1..Len(q2) :
                  i < j /\ q[i] = q2[k] /\ q[j] = q2[l] => k < l]_vars
  BY <1>1, <1>2
<1> QED
  BY <1>3, AccountsInvariant, PTL DEF Spec, OrderIsStable

-----------------------------------------------------------------------------
(* The wake-up of the queue.                                               *)

\* The steps that are none of the run loop's.
Elsewhere ==
    \/ \E r \in Requests : Disconnect(r) \/ ClientStep(r) \/ SwapStep(r)
    \/ \E m \in Models : ProcessStep(m) \/ Vanish(m)
    \/ UNCHANGED vars

\* They leave the scheduler and the run loop alone.
LEMMA ElsewhereKeeps ==
  Elsewhere => UNCHANGED <<active, reserved, inFlight, queued, loop, down>>
  BY DEF Elsewhere, Disconnect, ClientStep, GiveUp, ReadAdmission, Abandon, ServeEnd, SwapStep, SwapGate,
     SwapStopped, EnsureReady, SwapCancelled, SwapStopReturns, ProcessStep, StartResult, AbortStart,
     BeginStop, EndStop, Vanish, schedVars, vars

\* A step is one of the run loop's or one of the others.
LEMMA StepIs ==
  ASSUME [Next]_vars
  PROVE  \/ Elsewhere
         \/ \E r \in Requests : OnRequest(r) \/ OnCancel(r) \/ OnServeDone(r) \/ OnSwapDone(r)
                                \/ GrantHandler(r) \/ GrantError(r)
         \/ DrainQueue \/ SweepQueue \/ \E m \in Models : JoinSwap(m)
         \/ DrainEnd \/ CancelEnd \/ SweepEnd \/ StopEnd \/ OnShutdown
         \/ \E m \in Models : CancelSwap(m) \/ StopReturns(m)
         \/ \E T \in Unloads : OnUnload(T)
  BY DEF Next, Elsewhere, LoopEvent, LoopStep

\* A request is queued only if a swap or a handler it waits for will end.
LEMMA WaitsForSomething ==
  ASSUME ShapeOK, NEW r \in Known, Decision(r) = "wait"
  PROVE  Active # {} \/ \E m \in Models : inFlight[m] > 0
<1>1. ModelOf[r] \in Models
  BY DEF Known
<1>2. CollidesWith(ModelOf[r], Evict(ModelOf[r])) \/ ConflictsWithInFlight(Evict(ModelOf[r]))
  BY DEF Decision
<1>3. Evict(ModelOf[r]) \subseteq Models
  BY <1>1, EvictType
<1> QED
  BY <1>2, <1>3 DEF CollidesWith, ConflictsWithInFlight

\* The wake-up of a queue that a drain is rebuilding, or has rebuilt.
WakeUpComes ==
    Phase \in {"select", "drain"} /\ queued # << >> =>
        Active # {} \/ \E m \in Models : inFlight[m] > 0

\* Every step of the run loop keeps the wake-up, or leaves nobody to wake.
LEMMA NextWakeUp ==
  ASSUME HoldInv, ShapeOK', CountsOK, WakeUpComes, [Next]_vars
  PROVE  WakeUpComes'
<1> USE DEF HoldInv, Books
<1>1. ASSUME Active \subseteq Active', inFlight' = inFlight, queued' = queued, Phase' = Phase
      PROVE  WakeUpComes'
  BY <1>1 DEF WakeUpComes
<1>2. ASSUME queued' = << >> \/ Phase' \notin {"select", "drain"} PROVE WakeUpComes'
  BY <1>2 DEF WakeUpComes
<1>3. ASSUME NEW r \in Known, Decision(r) = "wait", UNCHANGED <<active, inFlight>> PROVE WakeUpComes'
  BY <1>3, WaitsForSomething DEF WakeUpComes, Active
<1>4. CASE Elsewhere
  <2>1. Active' = Active /\ inFlight' = inFlight /\ queued' = queued /\ Phase' = Phase
    BY <1>4, ElsewhereKeeps DEF Active, Phase
  <2> QED
    BY <1>1, <2>1
<1>5. ASSUME NEW r \in Requests, OnRequest(r) PROVE WakeUpComes'
  <2>1. inFlight' = inFlight /\ Phase = "select" /\ loop.fanout = {} /\ loop \in LoopStates
    BY <1>5 DEF OnRequest, Refuse, Admit, schedVars, Phase, PhaseOf, LoopOK, ShapeOK
  <2>2. CASE Refuse(r)
    BY <1>1, <2>2 DEF Refuse, schedVars, Active, Phase
  <2>3. CASE Admit(r)
    <3>1. r \in Known
      BY <2>3 DEF Admit, Admissible, Known
    <3>2. CASE Decision(r) = "join" /\ Join(r) /\ UNCHANGED <<queued, loop>>
      <4>1. ModelOf[r] \in Active
        BY <3>2 DEF Decision
      <4>2. Active' = Active
        BY <3>1, <3>2, <4>1, JoinEffect
      <4> QED
        BY <1>1, <2>1, <3>2, <4>2 DEF Phase
    <3>3. CASE loop' = FanOut(loop, {r}, "serve", "select") /\ UNCHANGED <<active, queued>>
      <4>1. {r} \in SUBSET Known
        BY <3>1
      <4>2. Phase' = "select"
        BY <2>1, <3>3, <4>1, FanOutEffect DEF Phase
      <4> QED
        BY <1>1, <2>1, <3>3, <4>2 DEF Active
    <3>4. CASE Decision(r) = "wait" /\ UNCHANGED active
      BY <1>3, <2>1, <3>1, <3>4
    <3>5. CASE Decision(r) = "swap" /\ StartSwap(r) /\ UNCHANGED <<queued, loop>>
      <4>1. ModelOf[r] \notin Active
        BY <3>5 DEF Decision
      <4>2. Active \subseteq Active'
        BY <3>1, <3>5, <4>1, StartSwapEffect
      <4> QED
        BY <1>1, <2>1, <3>5, <4>2 DEF Phase
    <3> QED
      BY <2>3, <3>2, <3>3, <3>4, <3>5 DEF Admit
  <2> QED
    BY <1>5, <2>2, <2>3 DEF OnRequest
<1>6. ASSUME NEW r \in Requests, OnCancel(r) PROVE WakeUpComes'
  <2>1. inFlight' = inFlight /\ loop' = loop
    BY <1>6 DEF OnCancel
  <2>2. queued' # << >> => queued # << >>
    BY <1>6 DEF OnCancel, Unqueue, Unjoin
  <2>3. Active' = Active
    <3>1. CASE Unjoin(r)
      BY <3>1, UnjoinEffect
    <3> QED
      BY <1>6, <3>1 DEF OnCancel, Unqueue, Active
  <2> QED
    BY <2>1, <2>2, <2>3 DEF WakeUpComes, Phase
<1>7. ASSUME NEW r \in Requests, OnServeDone(r) PROVE WakeUpComes'
  <2> DEFINE m == ModelOf[r]
  <2>1. m \in Models
    BY <1>7 DEF OnServeDone, CallersOK, Known
  <2>2. CASE LastInFlight(m)
    BY <1>2, <1>7, <2>2 DEF OnServeDone
  <2>3. CASE ~LastInFlight(m)
    <3>1. inFlight[m] \in Nat /\ ~(inFlight[m] <= 1)
      BY <2>1, <2>3 DEF CountsOK, LastInFlight
    <3>2. inFlight'[m] = inFlight[m] - 1
      BY <1>7, <2>1 DEF OnServeDone, ShapeOK
    <3>3. inFlight'[m] > 0
      BY <3>1, <3>2
    <3> QED
      BY <2>1, <3>3 DEF WakeUpComes
  <2> QED
    BY <2>2, <2>3
<1>8. ASSUME NEW g \in Requests, OnSwapDone(g) PROVE WakeUpComes'
  <2>1. inFlight' = inFlight
    BY <1>8 DEF OnSwapDone
  <2>2. queued' = << >> \/ UNCHANGED <<active, queued, loop>>
    BY <1>8 DEF OnSwapDone
  <2> QED
    BY <1>1, <1>2, <2>1, <2>2 DEF Active, Phase
<1>9. ASSUME NEW r \in Requests, GrantHandler(r) \/ GrantError(r) PROVE WakeUpComes'
  <2>1. /\ loop.at = "grant" /\ r \in loop.fanout /\ loop' = Answered(r)
        /\ UNCHANGED <<active, queued, down>>
    BY <1>9 DEF GrantHandler, GrantError
  <2>2. Phase' = Phase /\ Active' = Active
    BY <2>1, AnsweredEffect DEF Active
  <2>3. ModelOf[r] \in Models
    BY <1>9, GrantHold DEF Known
  <2>4. \A m \in Models : inFlight'[m] >= inFlight[m]
    <3>1. CASE GrantLands(r)
      BY <2>3, <3>1 DEF GrantLands, ShapeOK
    <3>2. CASE inFlight' = inFlight
      BY <3>2 DEF ShapeOK
    <3> QED
      BY <1>9, <3>1, <3>2 DEF GrantHandler, GrantError, GrantIsLost
  <2>5. \A m \in Models : inFlight[m] > 0 => inFlight'[m] > 0
    BY <2>4 DEF ShapeOK
  <2> QED
    BY <2>1, <2>2, <2>5 DEF WakeUpComes
<1>10. CASE DrainQueue
  <2> DEFINE r == Head(loop.pending)
             rest == [loop EXCEPT !.pending = Tail(@)]
  <2>1. r \in Known /\ inFlight' = inFlight /\ Phase = "drain"
    BY <1>10, PendingType DEF DrainQueue, Phase, PhaseOf
  <2>2. rest \in LoopStates /\ PhaseOf(rest) = "drain" /\ rest.fanout = {}
    BY <1>10, PendingEffect DEF DrainQueue, LoopOK, PhaseOf
  <2> HIDE DEF rest
  <2>3. CASE Decision(r) = "join" /\ Join(r) /\ loop' = rest /\ UNCHANGED queued
    <3>1. ModelOf[r] \in Active
      BY <2>3 DEF Decision
    <3>2. Active' = Active
      BY <2>1, <2>3, <3>1, JoinEffect
    <3> QED
      BY <1>1, <2>1, <2>2, <2>3, <3>2 DEF Phase
  <2>4. CASE loop' = FanOut(rest, {r}, "serve", "drain") /\ UNCHANGED <<active, queued>>
    <3>1. {r} \in SUBSET Known
      BY <2>1
    <3>2. Phase' = "drain"
      BY <2>2, <2>4, <3>1, FanOutEffect DEF Phase
    <3> QED
      BY <1>1, <2>1, <2>4, <3>2 DEF Active
  <2>5. CASE Decision(r) = "wait" /\ UNCHANGED active
    BY <1>3, <2>1, <2>5
  <2>6. CASE Decision(r) = "swap" /\ StartSwap(r) /\ loop' = rest /\ UNCHANGED queued
    <3>1. ModelOf[r] \notin Active
      BY <2>6 DEF Decision
    <3>2. Active \subseteq Active'
      BY <2>1, <2>6, <3>1, StartSwapEffect
    <3> QED
      BY <1>1, <2>1, <2>2, <2>6, <3>2 DEF Phase
  <2> QED
    BY <1>10, <2>3, <2>4, <2>5, <2>6 DEF DrainQueue, rest
<1>11. CASE SweepQueue \/ (\E m \in Models : JoinSwap(m))
  <2>1. CASE SweepQueue
    <3> DEFINE rest == [loop EXCEPT !.pending = Tail(@)]
    <3>1. rest \in LoopStates /\ PhaseOf(rest) = "sweep" /\ rest.fanout = {}
      BY <2>1, PendingEffect DEF SweepQueue, LoopOK, PhaseOf
    <3>2. {Head(loop.pending)} \in SUBSET Known
      BY <2>1, PendingType DEF SweepQueue
    <3> HIDE DEF rest
    <3>3. loop' = rest \/ loop' = FanOut(rest, {Head(loop.pending)}, "error", "sweep")
      BY <2>1 DEF SweepQueue, rest
    <3>4. Phase' = "sweep"
      BY <3>1, <3>2, <3>3, FanOutEffect DEF Phase
    <3> QED
      BY <1>2, <3>4
  <2>2. ASSUME NEW m \in Models, JoinSwap(m) PROVE WakeUpComes'
    <3>1. /\ loop.fanout = {} /\ loop \in LoopStates
          /\ loop' = FanOut(loop, active[m].waiters, "error", "cancel")
      BY <2>2 DEF JoinSwap, LoopOK, ShapeOK
    <3>2. active[m].waiters \in SUBSET Known
      BY ActiveType
    <3>3. Phase' = "cancel"
      BY <3>1, <3>2, FanOutEffect DEF Phase
    <3> QED
      BY <1>2, <3>3
  <2> QED
    BY <1>11, <2>1, <2>2
<1>12. CASE CancelEnd \/ (StopEnd /\ ~down)
  BY <1>2, <1>12 DEF CancelEnd, StopEnd
<1>13. CASE \/ SweepEnd \/ OnShutdown \/ (StopEnd /\ down)
            \/ \E m \in Models : CancelSwap(m) \/ StopReturns(m)
            \/ \E T \in Unloads : OnUnload(T)
  <2>1. Phase' \notin {"select", "drain"}
    BY <1>13 DEF SweepEnd, StopEnd, OnShutdown, CancelSwap, StopReturns, OnUnload, Phase, PhaseOf,
       ShapeOK, LoopStates, schedVars
  <2> QED
    BY <1>2, <2>1
<1>14. CASE DrainEnd
  <2>1. Phase = "drain" /\ UNCHANGED <<active, inFlight, queued>>
    BY <1>14 DEF DrainEnd, Phase, PhaseOf, schedVars
  <2> QED
    BY <2>1 DEF WakeUpComes, Active
<1> QED
  BY <1>4, <1>5, <1>6, <1>7, <1>8, <1>9, <1>10, <1>11, <1>12, <1>13, <1>14, StepIs

\* No lost wake-up: when the run loop is idle and requests are queued, a swap
\* or a handler is still to report, and its report drains the queue.
THEOREM WakeUpNotLost == Spec => []NoStrandedQueue
<1>1. Init => WakeUpComes
  BY DEF Init, WakeUpComes
<1>2. AccountsInv /\ WakeUpComes /\ [Next]_vars => WakeUpComes'
  <2>1. AccountsInv /\ [Next]_vars => HoldInv /\ CountsOK /\ ShapeOK'
    BY NextShape DEF AccountsInv, HoldInv
  <2> QED
    BY <2>1, NextWakeUp
<1>3. WakeUpComes => NoStrandedQueue
  BY DEF WakeUpComes, NoStrandedQueue, Phase, PhaseOf
<1> QED
  BY <1>1, <1>2, <1>3, AccountsInvariant, PTL DEF Spec

-----------------------------------------------------------------------------
(* The models a swap spares.                                               *)

\* No grant goes to a model that a swap is going to stop.
GrantsSpared ==
    loop.at = "grant" /\ loop.verdict = "serve" =>
        \A r \in loop.fanout : \A a \in Active : ModelOf[r] \notin active[a].evict

\* A request is granted at once only to a model that no swap is going to stop.
LEMMA ServedIsSpared ==
  ASSUME NEW r \in Known, Decision(r) = "serve"
  PROVE  \A a \in Active : ModelOf[r] \notin active[a].evict
  BY DEF Decision, CollidesWith

\* The grants of every step go to models that are spared.
LEMMA NextSpared ==
  ASSUME HoldInv, ShapeOK', SwapSafety, GrantsSpared, [Next]_vars
  PROVE  GrantsSpared'
<1> USE DEF HoldInv, Books
<1>1. ASSUME loop'.at # "grant" \/ loop'.verdict # "serve" PROVE GrantsSpared'
  BY <1>1 DEF GrantsSpared
<1>2. CASE Elsewhere
  BY <1>2, ElsewhereKeeps DEF GrantsSpared, Active
<1>3. ASSUME NEW l \in LoopStates, l.fanout = {}, NEW r \in Known, Decision(r) = "serve",
             NEW n \in {"select", "drain"}, loop' = FanOut(l, {r}, "serve", n), UNCHANGED active
      PROVE  GrantsSpared'
  <2>1. {r} \in SUBSET Known
    BY <1>3
  <2>2. loop'.fanout = {r}
    BY <1>3, <2>1, FanOutEffect
  <2> QED
    BY <1>3, <2>2, ServedIsSpared DEF GrantsSpared, Active
<1>4. ASSUME NEW r \in Requests, OnRequest(r) PROVE GrantsSpared'
  <2>1. CASE UNCHANGED loop
    BY <1>1, <1>4, <2>1 DEF OnRequest
  <2>2. CASE Admit(r) /\ ~UNCHANGED loop
    <3>1. r \in Known /\ loop \in LoopStates /\ loop.fanout = {}
      BY <1>4, <2>2 DEF Admit, Admissible, Known, OnRequest, LoopOK, ShapeOK
    <3>2. Decision(r) = "serve" /\ loop' = FanOut(loop, {r}, "serve", "select") /\ UNCHANGED active
      BY <2>2 DEF Admit
    <3> QED
      BY <1>3, <3>1, <3>2
  <2> QED
    BY <1>4, <2>1, <2>2 DEF OnRequest, Refuse
<1>5. ASSUME NEW r \in Requests, OnCancel(r) \/ OnServeDone(r) PROVE GrantsSpared'
  <2>1. loop'.at # "grant"
    BY <1>5, BeginDrainEffect DEF OnCancel, OnServeDone, LoopStates
  <2> QED
    BY <1>1, <2>1
<1>6. ASSUME NEW g \in Requests, OnSwapDone(g) PROVE GrantsSpared'
  <2> DEFINE m == ModelOf[g]
             W == active[m].waiters
  <2>1. loop.at = "select" /\ loop.fanout = {}
    BY <1>6 DEF OnSwapDone, LoopOK
  <2>2. CASE UNCHANGED loop
    BY <1>1, <2>1, <2>2
  <2>3. CASE /\ m \in Active
             /\ active' = [active EXCEPT ![m] = Idle]
             /\ \E v \in {"serve", "error"} : loop' = FanOut(BeginDrain(loop), W, v, "drain")
    <3>1. m \in Models
      BY <2>3 DEF Active
    <3>2. /\ Active' = Active \ {m} /\ W \in SUBSET Known
          /\ \A a \in Models : a # m => active'[a] = active[a]
      BY <2>3, <3>1, EndSwapEffect
    <3>3. BeginDrain(loop) \in LoopStates /\ BeginDrain(loop).fanout = {}
      BY <2>1, BeginDrainEffect
    <3>4. loop'.fanout = W
      BY <2>3, <3>2, <3>3, FanOutEffect
    <3>5. \A r \in W : ModelOf[r] = m
      BY <3>1 DEF WaitersOK
    <3>6. \A a \in Active : a # m => m \notin active[a].evict
      BY <2>3 DEF SwapSafety, SwapsDoNotInterfere
    <3>7. \A a \in Active' : a \in Active /\ a # m /\ active'[a] = active[a]
      BY <3>2 DEF Active
    <3> QED
      BY <3>4, <3>5, <3>6, <3>7 DEF GrantsSpared
  <2> QED
    BY <1>6, <2>2, <2>3 DEF OnSwapDone
<1>7. ASSUME NEW r \in Requests, GrantHandler(r) \/ GrantError(r) PROVE GrantsSpared'
  <2>1. /\ loop.at = "grant" /\ r \in loop.fanout /\ loop' = Answered(r) /\ UNCHANGED active
    BY <1>7 DEF GrantHandler, GrantError
  <2>2. loop'.fanout \subseteq loop.fanout /\ (loop'.at = "grant" => loop'.verdict = loop.verdict)
    BY <2>1, AnsweredEffect
  <2> QED
    BY <2>1, <2>2 DEF GrantsSpared, Active
<1>8. CASE DrainQueue
  <2> DEFINE r == Head(loop.pending)
             rest == [loop EXCEPT !.pending = Tail(@)]
  <2>1. r \in Known
    BY <1>8, PendingType DEF DrainQueue
  <2>2. rest \in LoopStates /\ rest.at = "drain" /\ rest.fanout = {}
    BY <1>8, PendingEffect DEF DrainQueue, LoopOK
  <2> HIDE DEF r, rest
  <2>3. CASE loop' = rest
    BY <1>1, <2>2, <2>3
  <2>4. CASE Decision(r) = "serve" /\ loop' = FanOut(rest, {r}, "serve", "drain") /\ UNCHANGED active
    BY <1>3, <2>1, <2>2, <2>4
  <2> QED
    BY <1>8, <2>3, <2>4 DEF DrainQueue, r, rest
<1>9. CASE SweepQueue
  <2> DEFINE rest == [loop EXCEPT !.pending = Tail(@)]
  <2>1. rest \in LoopStates /\ rest.at = "sweep" /\ rest.fanout = {}
    BY <1>9, PendingEffect DEF SweepQueue, LoopOK
  <2>2. {Head(loop.pending)} \in SUBSET Known /\ {Head(loop.pending)} # {}
    BY <1>9, PendingType DEF SweepQueue
  <2> HIDE DEF rest
  <2>3. loop' = rest \/ loop' = FanOut(rest, {Head(loop.pending)}, "error", "sweep")
    BY <1>9 DEF SweepQueue, rest
  <2>4. loop'.at # "grant" \/ loop'.verdict # "serve"
    BY <2>1, <2>2, <2>3, FanOutEffect
  <2> QED
    BY <1>1, <2>4
<1>10. ASSUME NEW m \in Models, JoinSwap(m) PROVE GrantsSpared'
  <2>1. /\ loop.fanout = {} /\ loop \in LoopStates
        /\ loop' = FanOut(loop, active[m].waiters, "error", "cancel")
    BY <1>10 DEF JoinSwap, LoopOK, ShapeOK
  <2>2. active[m].waiters \in SUBSET Known
    BY ActiveType
  <2>3. loop'.at # "grant" \/ loop'.verdict # "serve"
    BY <2>1, <2>2, FanOutEffect
  <2> QED
    BY <1>1, <2>3
<1>11. CASE \/ DrainEnd \/ CancelEnd \/ SweepEnd \/ StopEnd \/ OnShutdown
            \/ \E m \in Models : CancelSwap(m) \/ StopReturns(m)
            \/ \E T \in Unloads : OnUnload(T)
  <2>1. loop'.at # "grant"
    BY <1>11, BeginDrainEffect DEF DrainEnd, CancelEnd, SweepEnd, StopEnd, OnShutdown, CancelSwap,
       StopReturns, OnUnload, ShapeOK, LoopStates
  <2> QED
    BY <1>1, <2>1
<1> QED
  BY <1>2, <1>4, <1>5, <1>6, <1>7, <1>8, <1>9, <1>10, <1>11, StepIs

\* No step starts a handler of a model that a swap is going to stop, or a swap
\* that would stop a model with a handler.
LEMMA NextNotBusy ==
  ASSUME HoldInv, ShapeOK', CountsOK, GrantsSpared, NoBusyEviction, [Next]_vars
  PROVE  NoBusyEviction'
<1> USE DEF HoldInv, Books
<1>1. ASSUME \A a \in Active' : a \in Active /\ active'[a].evict = active[a].evict,
             \A r \in Requests : client'[r] \in {"serving", "served"} =>
                                     client[r] \in {"serving", "served"}
      PROVE  NoBusyEviction'
  BY <1>1 DEF NoBusyEviction, Busy
<1>2. ASSUME NEW r \in Known, Decision(r) = "swap", StartSwap(r), ~down,
             \A x \in Requests : client'[x] \in {"serving", "served"} =>
                                     client[x] \in {"serving", "served"}
      PROVE  NoBusyEviction'
  <2> DEFINE n == ModelOf[r]
  <2>1. n \in Models /\ n \notin Active /\ Evict(n) \subseteq Models
    BY <1>2, EvictType DEF Decision, Known
  <2>2. /\ Active' = Active \cup {n} /\ active'[n].evict = Evict(n)
        /\ \A m \in Models : m # n => active'[m] = active[m]
    BY <1>2, <2>1, StartSwapEffect
  <2>3. \A e \in Evict(n) : ~(inFlight[e] > 0)
    BY <1>2 DEF Decision, ConflictsWithInFlight
  <2>4. ASSUME NEW e \in Evict(n) PROVE Busy(e) = {}
    <3>1. e \in Models /\ inFlight[e] = Cardinality(Busy(e)) /\ inFlight[e] \in Nat
      BY <1>2, <2>1, <2>4 DEF CountsOK, InFlightExact
    <3>2. Cardinality(Busy(e)) = 0
      BY <2>3, <2>4, <3>1
    <3>3. IsFiniteSet(Busy(e))
      <4>1. Busy(e) \in SUBSET Requests
        BY DEF Busy
      <4> QED
        BY <4>1, RequestsAssumption, FS_Subset
    <3> QED
      BY <3>2, <3>3, FS_EmptySet
  <2>5. \A e : Busy(e)' \subseteq Busy(e)
    BY <1>2 DEF Busy
  <2> HIDE DEF n
  <2>6. ASSUME NEW a \in Active', NEW e \in active'[a].evict PROVE Busy(e)' = {}
    <3>1. CASE a = n
      BY <2>2, <2>4, <2>5, <2>6, <3>1
    <3>2. CASE a # n
      <4>1. a \in Active /\ active'[a] = active[a]
        BY <2>2, <3>2 DEF Active
      <4> QED
        BY <2>5, <2>6, <4>1 DEF NoBusyEviction
    <3> QED
      BY <3>1, <3>2
  <2> QED
    BY <2>6 DEF NoBusyEviction
<1>3. ASSUME \A m \in Models : active'[m].gen = active[m].gen /\ active'[m].evict = active[m].evict
      PROVE  \A a \in Active' : a \in Active /\ active'[a].evict = active[a].evict
  BY <1>3 DEF Active
<1>4. CASE Elsewhere
  <2>1. UNCHANGED active
    BY <1>4, ElsewhereKeeps
  <2>2. \A r \in Requests : client'[r] \in {"serving", "served"} => client[r] \in {"serving", "served"}
    BY <1>4 DEF Elsewhere, Disconnect, ClientStep, GiveUp, ReadAdmission, Abandon, ServeEnd, SwapStep,
       SwapGate, SwapStopped, EnsureReady, SwapCancelled, SwapStopReturns, ProcessStep, StartResult,
       AbortStart, BeginStop, EndStop, Vanish, vars, ShapeOK
  <2> QED
    BY <1>1, <1>3, <2>1, <2>2
<1>5. ASSUME NEW r \in Requests, OnRequest(r) PROVE NoBusyEviction'
  <2>1. \A x \in Requests : client'[x] \in {"serving", "served"} => client[x] \in {"serving", "served"}
    BY <1>5 DEF OnRequest, Refuse, Admit, ShapeOK
  <2>2. CASE UNCHANGED active
    BY <1>1, <1>3, <2>1, <2>2
  <2>3. CASE Admit(r)
    <3>1. r \in Known /\ ~down
      BY <1>5, <2>3 DEF Admit, Admissible, Known, OnRequest, LoopOK, Phase, PhaseOf
    <3>2. CASE Decision(r) = "join" /\ Join(r)
      <4>1. ModelOf[r] \in Active
        BY <3>2 DEF Decision
      <4> QED
        BY <1>1, <1>3, <2>1, <3>1, <3>2, <4>1, JoinEffect
    <3>3. CASE Decision(r) = "swap" /\ StartSwap(r)
      BY <1>2, <2>1, <3>1, <3>3
    <3> QED
      BY <2>2, <2>3, <3>2, <3>3 DEF Admit
  <2> QED
    BY <1>5, <2>2, <2>3 DEF OnRequest, Refuse, schedVars
<1>6. ASSUME NEW r \in Requests, OnCancel(r) \/ OnServeDone(r) PROVE NoBusyEviction'
  <2>1. \A x \in Requests : client'[x] \in {"serving", "served"} => client[x] \in {"serving", "served"}
    BY <1>6 DEF OnCancel, OnServeDone, ShapeOK
  <2>2. CASE Unjoin(r)
    BY <1>1, <1>3, <2>1, <2>2, UnjoinEffect
  <2>3. CASE UNCHANGED active
    BY <1>1, <1>3, <2>1, <2>3
  <2> QED
    BY <1>6, <2>2, <2>3 DEF OnCancel, Unqueue, OnServeDone
<1>7. ASSUME NEW m \in Models, active' = [active EXCEPT ![m] = Idle], UNCHANGED client
      PROVE  NoBusyEviction'
  <2>1. Active' = Active \ {m} /\ \A x \in Models : x # m => active'[x] = active[x]
    BY <1>7, EndSwapEffect
  <2>2. \A a \in Active' : a \in Active /\ active'[a].evict = active[a].evict
    BY <2>1 DEF Active
  <2> QED
    BY <1>1, <1>7, <2>2
<1>8. ASSUME UNCHANGED <<active, client>> PROVE NoBusyEviction'
  BY <1>1, <1>3, <1>8
<1>9. ASSUME NEW g \in Requests, OnSwapDone(g) PROVE NoBusyEviction'
  <2>1. UNCHANGED client
    BY <1>9 DEF OnSwapDone
  <2>2. \/ UNCHANGED active
        \/ ModelOf[g] \in Models /\ active' = [active EXCEPT ![ModelOf[g]] = Idle]
    BY <1>9 DEF OnSwapDone, Active
  <2> QED
    BY <1>7, <1>8, <2>1, <2>2
<1>10. ASSUME NEW r \in Requests, GrantHandler(r) \/ GrantError(r) PROVE NoBusyEviction'
  <2>1. UNCHANGED active
    BY <1>10 DEF GrantHandler, GrantError
  <2>2. CASE GrantHandler(r) /\ GrantLands(r)
    <3>1. \A x \in Requests : client'[x] = IF x = r THEN "serving" ELSE client[x]
      BY <2>2 DEF GrantLands, ShapeOK
    <3>2. \A e : e # ModelOf[r] => Busy(e)' = Busy(e)
      BY <3>1 DEF Busy
    <3>3. \A a \in Active : ModelOf[r] \notin active[a].evict
      BY <2>2 DEF GrantHandler, GrantsSpared
    <3> QED
      BY <2>1, <3>2, <3>3 DEF NoBusyEviction, Active
  <2>3. CASE UNCHANGED client \/ client' = [client EXCEPT ![r] = "done"]
    <3>1. \A x \in Requests : client'[x] \in {"serving", "served"} => client[x] \in {"serving", "served"}
      BY <2>3 DEF ShapeOK
    <3> QED
      BY <1>1, <1>3, <2>1, <3>1
  <2> QED
    BY <1>10, <2>2, <2>3 DEF GrantHandler, GrantIsLost, GrantError
<1>11. CASE DrainQueue
  <2> DEFINE r == Head(loop.pending)
  <2>1. r \in Known /\ ~down /\ UNCHANGED client
    BY <1>11, PendingType DEF DrainQueue, LoopOK, Phase, PhaseOf
  <2>2. UNCHANGED active \/ (Decision(r) = "join" /\ Join(r)) \/ (Decision(r) = "swap" /\ StartSwap(r))
    BY <1>11 DEF DrainQueue
  <2> HIDE DEF r
  <2>3. CASE Decision(r) = "join" /\ Join(r)
    <3>1. ModelOf[r] \in Active
      BY <2>3 DEF Decision
    <3> QED
      BY <1>1, <1>3, <2>1, <2>3, <3>1, JoinEffect
  <2> QED
    BY <1>2, <1>8, <2>1, <2>2, <2>3
<1>12. ASSUME NEW m \in Models, JoinSwap(m) PROVE NoBusyEviction'
  BY <1>7, <1>12 DEF JoinSwap
<1>13. CASE \/ SweepQueue \/ DrainEnd \/ CancelEnd \/ SweepEnd \/ StopEnd \/ OnShutdown
            \/ \E m \in Models : CancelSwap(m) \/ StopReturns(m)
            \/ \E T \in Unloads : OnUnload(T)
  BY <1>8, <1>13 DEF SweepQueue, DrainEnd, CancelEnd, SweepEnd, StopEnd, OnShutdown, CancelSwap,
     StopReturns, OnUnload, schedVars
<1> QED
  BY <1>4, <1>5, <1>6, <1>9, <1>10, <1>11, <1>12, <1>13, StepIs

\* A swap never stops a process that is serving requests, from the decision to
\* start it until it is over (fifo.go, conflictsWithInFlight, collidesWith).
THEOREM BusySpared == Spec => []NoBusyEviction
<1>1. Init => GrantsSpared /\ NoBusyEviction
  BY DEF Init, GrantsSpared, NoBusyEviction, Active, Idle
<1>2. AccountsInv /\ SwapSafety /\ GrantsSpared /\ NoBusyEviction /\ [Next]_vars
         => GrantsSpared' /\ NoBusyEviction'
  <2>1. AccountsInv /\ [Next]_vars => HoldInv /\ CountsOK /\ ShapeOK'
    BY NextShape DEF AccountsInv, HoldInv
  <2> QED
    BY <2>1, NextSpared, NextNotBusy
<1> QED
  BY <1>1, <1>2, AccountsInvariant, SwapSafetyInvariant, PTL DEF Spec

-----------------------------------------------------------------------------
(* The models an unload has stopped.                                       *)

\* The phases of an unload: first no swap of a target is left, then no queued
\* request for one, then no process.
TargetsOK ==
    /\ Phase \in {"sweep", "stop", "drain"} =>
          /\ loop.targets \cap Active = {}
          /\ \A r \in ToSet(queued) : ModelOf[r] \notin loop.targets
    /\ Phase = "stop" => \A m \in loop.targets \ loop.todo : proc[m] = "stopped"
    /\ Phase = "drain" =>
          /\ \A m \in loop.targets : proc[m] = "stopped"
          /\ \A r \in ToSet(loop.pending) \cup loop.fanout : ModelOf[r] \notin loop.targets

\* What a walk has put back.
LEMMA RequeueSet ==
  ASSUME ShapeOK, NEW r \in Known, Requeue(r)
  PROVE  ToSet(queued') = ToSet(queued) \cup {r}
<1>1. queued \in Seq(Known) /\ <<r>> \in Seq(Known) /\ queued' = queued \o <<r>>
  BY DEF ShapeOK, Requeue
<1>2. ToSet(<<r>>) = {r}
  BY DEF ToSet
<1>3. \A t \in Seq(Known) : ToSet(queued \o t) = ToSet(queued) \cup ToSet(t)
  BY <1>1, ConcatSet
<1>4. ToSet(queued \o <<r>>) = ToSet(queued) \cup ToSet(<<r>>)
  BY <1>1, <1>3
<1> QED
  BY <1>1, <1>2, <1>4

\* A stopped process starts only for a swap of its model.
LEMMA StoppedStays ==
  ASSUME HoldInv, SwapSafety, Elsewhere
  PROVE  \A m \in Models : proc[m] = "stopped" /\ m \notin Active => proc'[m] = "stopped"
<1> USE DEF HoldInv
<1>1. CASE UNCHANGED proc
  BY <1>1
<1>2. ASSUME NEW g \in Requests, EnsureReady(g)
      PROVE  \A m \in Models : proc[m] = "stopped" /\ m \notin Active => proc'[m] = "stopped"
  <2>1. ModelOf[g] \in Active
    BY <1>2, RequestsAssumption DEF EnsureReady, SwapSafety, SwapsAreCurrent, Active
  <2> QED
    BY <1>2, <2>1 DEF EnsureReady, ShapeOK
<1>3. ASSUME NEW n \in Models, ProcessStep(n) \/ Vanish(n)
      PROVE  \A m \in Models : proc[m] = "stopped" => proc'[m] = "stopped"
  BY <1>3 DEF ProcessStep, StartResult, AbortStart, BeginStop, EndStop, Vanish, ShapeOK
<1>4. ASSUME NEW r \in Requests, Disconnect(r) \/ ClientStep(r) \/ (SwapStep(r) /\ ~EnsureReady(r))
      PROVE  UNCHANGED proc
  BY <1>4 DEF Disconnect, ClientStep, GiveUp, ReadAdmission, Abandon, ServeEnd, SwapStep, SwapGate,
     SwapStopped, SwapCancelled, SwapStopReturns
<1>5. UNCHANGED vars => UNCHANGED proc
  BY DEF vars
<1> QED
  BY <1>1, <1>2, <1>3, <1>4, <1>5 DEF Elsewhere

\* Every step keeps what the phases of an unload have reached.
LEMMA NextTargets ==
  ASSUME HoldInv, ShapeOK', SwapSafety, TargetsOK, [Next]_vars
  PROVE  TargetsOK'
<1> USE DEF HoldInv, Books
<1>1. ASSUME Phase' \notin {"sweep", "stop", "drain"} PROVE TargetsOK'
  BY <1>1 DEF TargetsOK
<1>2. ASSUME Phase' = "drain", loop'.targets = {} PROVE TargetsOK'
  BY <1>2 DEF TargetsOK
<1>3. CASE Elsewhere
  <2>1. UNCHANGED <<active, queued, loop>>
    BY <1>3, ElsewhereKeeps
  <2>2. Active' = Active /\ Phase' = Phase
    BY <2>1 DEF Active, Phase
  <2>3. \A m \in Models : proc[m] = "stopped" /\ m \notin Active => proc'[m] = "stopped"
    BY <1>3, StoppedStays
  <2>4. loop.targets \subseteq Models
    BY DEF ShapeOK, LoopStates
  <2> QED
    BY <2>1, <2>2, <2>3, <2>4 DEF TargetsOK
<1>4. ASSUME NEW r \in Requests, OnRequest(r) PROVE TargetsOK'
  <2>1. loop \in LoopStates /\ loop.at = "select" /\ loop.fanout = {}
    BY <1>4 DEF OnRequest, LoopOK, ShapeOK
  <2>2. CASE UNCHANGED loop
    BY <1>1, <2>1, <2>2 DEF Phase, PhaseOf
  <2>3. CASE r \in Known /\ loop' = FanOut(loop, {r}, "serve", "select")
    <3>1. {r} \in SUBSET Known
      BY <2>3
    <3> QED
      BY <1>1, <2>1, <2>3, <3>1, FanOutEffect DEF Phase
  <2> QED
    BY <1>4, <2>2, <2>3 DEF OnRequest, Refuse, Admit, Admissible, Known
<1>5. ASSUME NEW r \in Requests, OnCancel(r) PROVE TargetsOK'
  BY <1>1, <1>5 DEF OnCancel, Phase, PhaseOf
<1>6. ASSUME NEW r \in Requests, OnServeDone(r) PROVE TargetsOK'
  <2>1. loop.at = "select" /\ loop.targets = {}
    BY <1>6 DEF OnServeDone, LoopOK, Phase, PhaseOf
  <2>2. loop'.at = "select" \/ (loop'.at = "drain" /\ loop'.targets = {})
    BY <1>6, <2>1, BeginDrainEffect DEF OnServeDone, LoopStates
  <2> QED
    BY <1>1, <1>2, <2>2 DEF Phase, PhaseOf
<1>7. ASSUME NEW g \in Requests, OnSwapDone(g) PROVE TargetsOK'
  <2> DEFINE m == ModelOf[g]
             W == active[m].waiters
  <2>1. loop.at = "select" /\ loop.targets = {} /\ loop.fanout = {}
    BY <1>7 DEF OnSwapDone, LoopOK, Phase, PhaseOf
  <2>2. CASE UNCHANGED loop
    BY <1>1, <2>1, <2>2 DEF Phase, PhaseOf
  <2>3. CASE /\ m \in Active
             /\ \E v \in {"serve", "error"} : loop' = FanOut(BeginDrain(loop), W, v, "drain")
    <3>1. W \in SUBSET Known
      BY <2>3, ActiveType DEF Active
    <3>2. BeginDrain(loop) \in LoopStates /\ BeginDrain(loop).fanout = {}
          /\ BeginDrain(loop).targets = {}
      BY <2>1, BeginDrainEffect
    <3>3. Phase' = "drain" /\ loop'.targets = {}
      BY <2>3, <3>1, <3>2, FanOutEffect DEF Phase
    <3> QED
      BY <1>2, <3>3
  <2> QED
    BY <1>7, <2>2, <2>3 DEF OnSwapDone
<1>8. ASSUME NEW r \in Requests, GrantHandler(r) \/ GrantError(r) PROVE TargetsOK'
  <2>1. /\ loop.at = "grant" /\ r \in loop.fanout /\ loop' = Answered(r)
        /\ UNCHANGED <<active, queued, proc>>
    BY <1>8 DEF GrantHandler, GrantError
  <2>2. /\ Phase' = Phase /\ loop'.targets = loop.targets /\ loop'.todo = loop.todo
        /\ loop'.pending = loop.pending /\ loop'.fanout \subseteq loop.fanout
    BY <2>1, AnsweredEffect
  <2>3. Active' = Active
    BY <2>1 DEF Active
  <2> QED
    BY <2>1, <2>2, <2>3 DEF TargetsOK
<1>9. CASE DrainQueue
  <2> DEFINE r == Head(loop.pending)
             rest == [loop EXCEPT !.pending = Tail(@)]
  <2>1. r \in Known /\ Phase = "drain" /\ UNCHANGED proc /\ loop.pending # << >>
    BY <1>9, PendingType DEF DrainQueue, Phase, PhaseOf
  <2>2. /\ rest \in LoopStates /\ PhaseOf(rest) = "drain" /\ rest.fanout = {}
        /\ rest.pending = Tail(loop.pending) /\ rest.targets = loop.targets
    BY <1>9, PendingEffect DEF DrainQueue, LoopOK, PhaseOf
  <2>3. r \in ToSet(loop.pending) /\ ToSet(Tail(loop.pending)) \subseteq ToSet(loop.pending)
    <3>1. queued \in Seq(Known) /\ loop.pending \in Seq(Known)
      BY DEF ShapeOK, LoopStates
    <3> QED
      BY <2>1, <3>1, HeadOfLine
  <2>4. /\ ModelOf[r] \notin loop.targets /\ loop.targets \cap Active = {}
        /\ \A x \in ToSet(queued) \cup ToSet(Tail(loop.pending)) : ModelOf[x] \notin loop.targets
        /\ \A m \in loop.targets : proc[m] = "stopped"
    BY <2>1, <2>3 DEF TargetsOK
  <2> HIDE DEF r, rest
  <2>5. ASSUME Phase' = "drain", loop'.targets = loop.targets, loop'.pending = Tail(loop.pending),
               loop'.fanout \subseteq {r}, ToSet(queued') \subseteq ToSet(queued) \cup {r},
               Active' \subseteq Active \cup {ModelOf[r]}
        PROVE  TargetsOK'
    BY <2>1, <2>4, <2>5 DEF TargetsOK
  <2>6. CASE Decision(r) = "join" /\ Join(r) /\ loop' = rest /\ UNCHANGED queued
    <3>1. ModelOf[r] \in Active
      BY <2>6 DEF Decision
    <3>2. Active' = Active
      BY <2>1, <2>6, <3>1, JoinEffect
    <3> QED
      BY <2>2, <2>5, <2>6, <3>2 DEF Phase
  <2>7. CASE loop' = FanOut(rest, {r}, "serve", "drain") /\ UNCHANGED <<active, queued>>
    <3>1. {r} \in SUBSET Known
      BY <2>1
    <3>2. /\ loop'.fanout = {r} /\ Phase' = "drain" /\ loop'.pending = Tail(loop.pending)
          /\ loop'.targets = loop.targets
      BY <2>2, <2>7, <3>1, FanOutEffect DEF Phase
    <3> QED
      BY <2>5, <2>7, <3>2 DEF Active
  <2>8. CASE Requeue(r) /\ loop' = rest /\ UNCHANGED active
    <3>1. ToSet(queued') = ToSet(queued) \cup {r}
      BY <2>1, <2>8, RequeueSet
    <3> QED
      BY <2>2, <2>5, <2>8, <3>1 DEF Phase, Active
  <2>9. CASE Decision(r) = "swap" /\ StartSwap(r) /\ loop' = rest /\ UNCHANGED queued
    <3>1. ModelOf[r] \notin Active
      BY <2>9 DEF Decision
    <3>2. Active' = Active \cup {ModelOf[r]}
      BY <2>1, <2>9, <3>1, StartSwapEffect
    <3> QED
      BY <2>2, <2>5, <2>9, <3>2 DEF Phase
  <2> QED
    BY <1>9, <2>6, <2>7, <2>8, <2>9 DEF DrainQueue, r, rest
<1>10. CASE SweepQueue
  <2> DEFINE r == Head(loop.pending)
             rest == [loop EXCEPT !.pending = Tail(@)]
  <2>1. r \in Known /\ Phase = "sweep" /\ UNCHANGED active
    BY <1>10, PendingType DEF SweepQueue, Phase, PhaseOf
  <2>2. /\ rest \in LoopStates /\ PhaseOf(rest) = "sweep" /\ rest.fanout = {}
        /\ rest.targets = loop.targets
    BY <1>10, PendingEffect DEF SweepQueue, LoopOK, PhaseOf
  <2>3. {r} \in SUBSET Known
    BY <2>1
  <2> HIDE DEF r, rest
  <2>4. Phase' = "sweep" /\ loop'.targets = loop.targets
    <3>1. loop' = rest \/ loop' = FanOut(rest, {r}, "error", "sweep")
      BY <1>10 DEF SweepQueue, r, rest
    <3> QED
      BY <2>2, <2>3, <3>1, FanOutEffect DEF Phase
  <2>5. UNCHANGED queued \/ (ModelOf[r] \notin loop.targets /\ Requeue(r))
    BY <1>10 DEF SweepQueue, r
  <2>6. \A x \in ToSet(queued') : x \in ToSet(queued) \/ (x = r /\ ModelOf[r] \notin loop.targets)
    BY <2>1, <2>5, RequeueSet
  <2>7. Active' = Active
    BY <2>1 DEF Active
  <2> QED
    BY <2>1, <2>4, <2>6, <2>7 DEF TargetsOK
<1>11. ASSUME NEW m \in Models, JoinSwap(m) PROVE TargetsOK'
  <2>1. /\ loop.fanout = {} /\ loop \in LoopStates
        /\ loop' = FanOut(loop, active[m].waiters, "error", "cancel")
    BY <1>11 DEF JoinSwap, LoopOK, ShapeOK
  <2>2. active[m].waiters \in SUBSET Known
    BY ActiveType
  <2> QED
    BY <1>1, <2>1, <2>2, FanOutEffect DEF Phase
<1>12. CASE CancelEnd
  <2>1. queued' = << >> /\ UNCHANGED active /\ loop.targets \cap Active = {}
        /\ loop' = [BeginDrain(loop) EXCEPT !.at = "sweep"]
    BY <1>12 DEF CancelEnd
  <2>2. Phase' = "sweep" /\ loop'.targets = loop.targets
    BY <2>1, BeginDrainEffect DEF Phase, PhaseOf, LoopStates
  <2>3. ToSet(queued') = {} /\ Active' = Active
    BY <2>1 DEF ToSet, Active
  <2> QED
    BY <2>1, <2>2, <2>3 DEF TargetsOK
<1>13. CASE SweepEnd
  <2>1. /\ Phase = "sweep" /\ Phase' = "stop" /\ loop'.targets = loop.targets
        /\ loop'.todo = loop.targets /\ UNCHANGED <<active, queued>>
    BY <1>13 DEF SweepEnd, Phase, PhaseOf, ShapeOK, LoopStates, schedVars
  <2> QED
    BY <2>1 DEF TargetsOK, Active
<1>14. ASSUME NEW m \in Models, StopReturns(m) PROVE TargetsOK'
  <2>1. /\ Phase = "stop" /\ Phase' = "stop" /\ loop'.targets = loop.targets
        /\ loop'.todo = loop.todo \ {m} /\ proc[m] = "stopped" /\ UNCHANGED <<active, queued, proc>>
    BY <1>14 DEF StopReturns, Phase, PhaseOf, ShapeOK, LoopStates, schedVars
  <2> QED
    BY <2>1 DEF TargetsOK, Active
<1>15. CASE StopEnd
  <2>1. CASE down
    BY <1>1, <1>15, <2>1 DEF StopEnd, Phase, PhaseOf, ShapeOK, LoopStates
  <2>2. CASE ~down
    <3>1. /\ loop.at = "stop" /\ loop.todo = {} /\ queued' = << >> /\ UNCHANGED <<active, proc>>
          /\ loop' = [BeginDrain(loop) EXCEPT !.at = "drain"]
      BY <1>15, <2>2 DEF StopEnd
    <3>2. /\ Phase' = "drain" /\ loop'.targets = loop.targets /\ loop'.pending = queued
          /\ loop'.fanout = {}
      BY <3>1, BeginDrainEffect DEF Phase, PhaseOf, LoopStates, LoopOK
    <3>3. Phase = "stop" /\ loop.targets \ loop.todo = loop.targets
      BY <3>1 DEF Phase, PhaseOf
    <3>4. ToSet(queued') = {} /\ Active' = Active
      BY <3>1 DEF ToSet, Active
    <3> QED
      BY <3>1, <3>2, <3>3, <3>4 DEF TargetsOK
  <2> QED
    BY <2>1, <2>2
<1>16. CASE \/ DrainEnd \/ OnShutdown
            \/ \E m \in Models : CancelSwap(m)
            \/ \E T \in Unloads : OnUnload(T)
  BY <1>1, <1>16 DEF DrainEnd, OnShutdown, CancelSwap, OnUnload, Phase, PhaseOf, ShapeOK, LoopStates
<1> QED
  BY <1>3, <1>4, <1>5, <1>6, <1>7, <1>8, <1>9, <1>10, <1>11, <1>12, <1>13, <1>14, <1>15, <1>16, StepIs

\* From the end of StopProcesses until Unload returns the unloaded models are
\* stopped, and nothing in the scheduler is about to start them again
\* (fifo.go, OnUnload: cancel and join swaps before stopping their targets).
THEOREM UnloadedStopped == Spec => []UnloadedStayStopped
<1>1. Init => TargetsOK
  BY DEF Init, TargetsOK, Phase, PhaseOf
<1>2. AccountsInv /\ SwapSafety /\ TargetsOK /\ [Next]_vars => TargetsOK'
  <2>1. AccountsInv /\ [Next]_vars => HoldInv /\ ShapeOK'
    BY NextShape DEF AccountsInv, HoldInv
  <2> QED
    BY <2>1, NextTargets
<1>3. AccountsInv /\ TargetsOK => UnloadedStayStopped
  <2> SUFFICES ASSUME HoldInv, TargetsOK, Phase = "drain", NEW m \in loop.targets
               PROVE  proc[m] = "stopped" /\ m \notin Active /\ HeldFor(m) = {}
    BY DEF UnloadedStayStopped, AccountsInv, Phase, PhaseOf
  <2>1. proc[m] = "stopped" /\ m \notin Active
    BY DEF TargetsOK
  <2>2. \A r \in ToSet(queued) \cup ToSet(loop.pending) \cup loop.fanout : ModelOf[r] # m
    BY DEF TargetsOK
  <2>3. \A r \in Waiters : ModelOf[r] # m
    BY <2>1, InWaiters DEF HoldInv, Books, WaitersOK
  <2> QED
    BY <2>1, <2>2, <2>3 DEF HeldFor, Held
<1> QED
  BY <1>1, <1>2, <1>3, AccountsInvariant, SwapSafetyInvariant, PTL DEF Spec

-----------------------------------------------------------------------------
(* The policy of the group router.                                         *)

\* Whatever the groups of a configuration are, the group policy is one the scheduler
\* can rely on (PolicyAssumption), and its mutually exclusive models are rivals
\* (RivalsAssumption): two members of one swapping group, and two members of different
\* groups that are both exclusive and not persistent (group.go, EvictionFor).
THEOREM GroupPolicyFits ==
  /\ \A m \in Models, R \in SUBSET Models : Groups!GroupEvictionFor(m, R) \subseteq R \ {m}
  /\ Groups!MutuallyExclusive(Models) \subseteq Models \X Models
  /\ \A a, b \in Models : <<a, b>> \in Groups!MutuallyExclusive(Models) =>
        /\ <<b, a>> \in Groups!MutuallyExclusive(Models)
        /\ \A R \in SUBSET Models : b \in R => b \in Groups!GroupEvictionFor(a, R)
  /\ \A a, b \in Models : a # b =>
        (<<a, b>> \in Groups!MutuallyExclusive(Models) <=>
           \/ GroupOf[a] = GroupOf[b] /\ GroupOf[a] \in SwapGroups
           \/ /\ GroupOf[a] # GroupOf[b]
              /\ {GroupOf[a], GroupOf[b]} \subseteq Exclusive \ Persistent)
<1>1. \A m \in Models, R \in SUBSET Models : Groups!GroupEvictionFor(m, R) \subseteq R \ {m}
  BY DEF Groups!GroupEvictionFor
<1>2. Groups!MutuallyExclusive(Models) \subseteq Models \X Models
  BY DEF Groups!MutuallyExclusive
<1>3. ASSUME NEW a \in Models, NEW b \in Models
      PROVE  <<a, b>> \in Groups!MutuallyExclusive(Models) <=>
               a # b /\ Groups!Evicts(a, b) /\ Groups!Evicts(b, a)
  BY DEF Groups!MutuallyExclusive
<1>4. ASSUME NEW a \in Models, NEW b \in Models, <<a, b>> \in Groups!MutuallyExclusive(Models)
      PROVE  /\ <<b, a>> \in Groups!MutuallyExclusive(Models)
             /\ \A R \in SUBSET Models : b \in R => b \in Groups!GroupEvictionFor(a, R)
  <2>1. a # b /\ Groups!Evicts(a, b) /\ Groups!Evicts(b, a)
    BY <1>3, <1>4
  <2> QED
    BY <1>3, <2>1 DEF Groups!GroupEvictionFor
<1>5. ASSUME NEW a \in Models, NEW b \in Models, a # b
      PROVE  <<a, b>> \in Groups!MutuallyExclusive(Models) <=>
               \/ GroupOf[a] = GroupOf[b] /\ GroupOf[a] \in SwapGroups
               \/ /\ GroupOf[a] # GroupOf[b]
                  /\ {GroupOf[a], GroupOf[b]} \subseteq Exclusive \ Persistent
  BY <1>3, <1>5 DEF Groups!Evicts
<1> QED
  BY <1>1, <1>2, <1>4, <1>5
=============================================================================
