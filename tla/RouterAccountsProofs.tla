-------------------------- MODULE RouterAccountsProofs --------------------------
(***************************************************************************)
(* The books of the FIFO scheduler for every set of models and requests:    *)
(* where a request is held, what is reserved for it, and how many handlers  *)
(* are in flight (fifo.go: enqueue, release, grantHandler, drainQueue).     *)
(***************************************************************************)
EXTENDS RouterProofs

-----------------------------------------------------------------------------
(* The inductive invariant.                                                *)

\* Everybody in the queue, also while drainQueue or OnUnload walks through it.
Line == queued \o loop.pending

NoRepeat(s) == \A i, j \in 1..Len(s) : s[i] = s[j] => i = j

\* What the run loop is doing, or will go on with after its answers.
PhaseOf(l) == IF l.at = "grant" THEN l.after ELSE l.at
Phase == PhaseOf(loop)

\* What the phase says about the variables of the run loop.
LoopOK ==
    /\ loop.at # "grant" => loop.fanout = {}
    /\ Phase \in {"select", "cancel", "stop", "closed"} => loop.pending = << >>
    /\ Phase = "select" => loop.targets = {}
    /\ down => Phase \notin {"select", "drain"}

\* A request waits for the swap of its own model, and for no other.
WaitersOK ==
    \A m \in Models :
        /\ m \notin Active => active[m].waiters = {}
        /\ \A r \in active[m].waiters : ModelOf[r] = m

\* The line, the waiters and the fan-out have no request in common.
PlacesOK ==
    /\ NoRepeat(Line)
    /\ Waiters \cap ToSet(Line) = {}
    /\ Waiters \cap loop.fanout = {}
    /\ loop.fanout \cap ToSet(Line) = {}

\* What a place, or a handler, says about the caller.
CallersOK ==
    /\ ~down => \A r \in ToSet(Line) \cup Waiters \cup loop.fanout :
                    client[r] \in {"admitted", "waiting", "cancelling"}
    /\ \A r \in Requests : client[r] \in {"serving", "served"} => r \in Known

Books == LoopOK /\ WaitersOK /\ PlacesOK /\ CallersOK
HoldInv == ShapeOK /\ Books

CountsOK == ReservationsBalance /\ InFlightExact /\ inFlight \in [Models -> Nat]

-----------------------------------------------------------------------------
(* Queues as sequences.                                                    *)

\* The elements of a queue are those at its places.
LEMMA InSet ==
  ASSUME NEW S, NEW s \in Seq(S)
  PROVE  /\ \A i \in 1..Len(s) : s[i] \in ToSet(s)
         /\ \A x \in ToSet(s) : \E i \in 1..Len(s) : s[i] = x
         /\ ToSet(s) \subseteq S
  BY DEF ToSet

\* What a concatenation holds.
LEMMA ConcatSet ==
  ASSUME NEW S, NEW s \in Seq(S), NEW t \in Seq(S)
  PROVE  ToSet(s \o t) = ToSet(s) \cup ToSet(t)
<1>1. Len(s \o t) = Len(s) + Len(t) /\ s \o t \in Seq(S)
  OBVIOUS
<1>2. \A i \in 1..Len(s) : (s \o t)[i] = s[i]
  OBVIOUS
<1>3. \A i \in 1..Len(t) : (s \o t)[Len(s) + i] = t[i]
  OBVIOUS
<1>4. \A i \in 1..Len(s) + Len(t) : i \in 1..Len(s) \/ (i - Len(s) \in 1..Len(t) /\ i = Len(s) + (i - Len(s)))
  OBVIOUS
<1>5. ToSet(s \o t) \subseteq ToSet(s) \cup ToSet(t)
  <2> DEFINE u == s \o t
  <2>0. \A x \in ToSet(u) : \E i \in 1..Len(u) : u[i] = x
    <3>1. u \in Seq(S)
      BY <1>1
    <3> HIDE DEF u
    <3> QED
      BY <3>1, InSet
  <2> SUFFICES ASSUME NEW i \in 1..Len(s \o t) PROVE (s \o t)[i] \in ToSet(s) \cup ToSet(t)
    BY <2>0
  <2>1. CASE i \in 1..Len(s)
    BY <1>2, <2>1, InSet
  <2>2. CASE i - Len(s) \in 1..Len(t) /\ i = Len(s) + (i - Len(s))
    <3>1. (s \o t)[i] = t[i - Len(s)]
      BY <1>3, <2>2
    <3> QED
      BY <2>2, <3>1, InSet
  <2> QED
    BY <1>1, <1>4, <2>1, <2>2
<1>6. ToSet(s) \subseteq ToSet(s \o t)
  <2> SUFFICES ASSUME NEW i \in 1..Len(s) PROVE s[i] \in ToSet(s \o t)
    BY InSet
  <2>1. i \in 1..Len(s \o t) /\ (s \o t)[i] = s[i]
    BY <1>1, <1>2
  <2> QED
    BY <1>1, <2>1, InSet
<1>7. ToSet(t) \subseteq ToSet(s \o t)
  <2> SUFFICES ASSUME NEW i \in 1..Len(t) PROVE t[i] \in ToSet(s \o t)
    BY InSet
  <2>1. Len(s) + i \in 1..Len(s \o t) /\ (s \o t)[Len(s) + i] = t[i]
    BY <1>1, <1>3
  <2> QED
    BY <1>1, <2>1, InSet
<1> QED
  BY <1>5, <1>6, <1>7

\* enqueue moves those behind the new place by one.
LEMMA InsertPlaces ==
  ASSUME NEW S, NEW s \in Seq(S), NEW i \in 1..Len(s) + 1, NEW e \in S
  PROVE  /\ InsertAt(s, i, e) \in Seq(S)
         /\ Len(InsertAt(s, i, e)) = Len(s) + 1
         /\ \A j \in 1..Len(s) + 1 : InsertAt(s, i, e)[j] =
                IF j < i THEN s[j] ELSE IF j = i THEN e ELSE s[j - 1]
<1> DEFINE a == SubSeq(s, 1, i - 1)
           b == SubSeq(s, i, Len(s))
<1>1. /\ a \in Seq(S) /\ Len(a) = i - 1
      /\ \A j \in 1..i - 1 : a[j] = s[j]
  OBVIOUS
<1>2. /\ b \in Seq(S) /\ Len(b) = Len(s) - i + 1
      /\ \A j \in 1..Len(s) - i + 1 : b[j] = s[i + j - 1]
  OBVIOUS
<1>3. InsertAt(s, i, e) = a \o <<e>> \o b
  BY DEF InsertAt
<1> HIDE DEF a, b
<1>4. /\ a \o <<e>> \in Seq(S) /\ Len(a \o <<e>>) = i
      /\ \A j \in 1..i : (a \o <<e>>)[j] = IF j < i THEN a[j] ELSE e
  BY <1>1
<1>5. /\ a \o <<e>> \o b \in Seq(S) /\ Len(a \o <<e>> \o b) = Len(s) + 1
      /\ \A j \in 1..Len(s) + 1 : (a \o <<e>> \o b)[j] =
              IF j <= i THEN (a \o <<e>>)[j] ELSE b[j - i]
  BY <1>2, <1>4, ConcatProperties
<1>6. \A j \in 1..Len(s) + 1 : j > i => b[j - i] = s[j - 1]
  BY <1>2
<1>7. ASSUME NEW j \in 1..Len(s) + 1
      PROVE  InsertAt(s, i, e)[j] = IF j < i THEN s[j] ELSE IF j = i THEN e ELSE s[j - 1]
  BY <1>1, <1>3, <1>4, <1>5, <1>6
<1> QED
  BY <1>3, <1>5, <1>7

\* The pruning of OnCancel moves those behind up by one.
LEMMA RemovePlaces ==
  ASSUME NEW S, NEW s \in Seq(S), NEW i \in 1..Len(s)
  PROVE  /\ RemoveAt(s, i) \in Seq(S)
         /\ Len(RemoveAt(s, i)) = Len(s) - 1
         /\ \A j \in 1..Len(s) - 1 : RemoveAt(s, i)[j] = IF j < i THEN s[j] ELSE s[j + 1]
<1> DEFINE a == SubSeq(s, 1, i - 1)
           b == SubSeq(s, i + 1, Len(s))
<1>1. /\ a \in Seq(S) /\ Len(a) = i - 1
      /\ \A j \in 1..i - 1 : a[j] = s[j]
  OBVIOUS
<1>2. /\ b \in Seq(S) /\ Len(b) = Len(s) - i
      /\ \A j \in 1..Len(s) - i : b[j] = s[i + j]
  OBVIOUS
<1>3. RemoveAt(s, i) = a \o b
  BY DEF RemoveAt
<1> HIDE DEF a, b
<1>4. /\ a \o b \in Seq(S) /\ Len(a \o b) = Len(s) - 1
      /\ \A j \in 1..Len(s) - 1 : (a \o b)[j] = IF j <= i - 1 THEN a[j] ELSE b[j - (i - 1)]
  <2>1. Len(a) + Len(b) = Len(s) - 1
    BY <1>1, <1>2
  <2>2. /\ a \o b \in Seq(S) /\ Len(a \o b) = Len(a) + Len(b)
        /\ \A j \in 1..Len(a) + Len(b) : (a \o b)[j] = IF j <= Len(a) THEN a[j] ELSE b[j - Len(a)]
    BY <1>1, <1>2, ConcatProperties
  <2> QED
    BY <1>1, <2>1, <2>2
<1>5. \A j \in 1..Len(s) - 1 : j >= i => b[j - (i - 1)] = s[j + 1]
  BY <1>2
<1>6. ASSUME NEW j \in 1..Len(s) - 1
      PROVE  RemoveAt(s, i)[j] = IF j < i THEN s[j] ELSE s[j + 1]
  BY <1>1, <1>3, <1>4, <1>5
<1> QED
  BY <1>3, <1>4, <1>6

\* What a queue holds after enqueue.
LEMMA InsertSet ==
  ASSUME NEW S, NEW s \in Seq(S), NEW i \in 1..Len(s) + 1, NEW e \in S
  PROVE  /\ ToSet(InsertAt(s, i, e)) = ToSet(s) \cup {e}
         /\ NoRepeat(s) /\ e \notin ToSet(s) => NoRepeat(InsertAt(s, i, e))
<1> DEFINE t == InsertAt(s, i, e)
<1>1. /\ t \in Seq(S) /\ Len(t) = Len(s) + 1
      /\ \A j \in 1..Len(s) + 1 : t[j] = IF j < i THEN s[j] ELSE IF j = i THEN e ELSE s[j - 1]
  BY InsertPlaces
<1> HIDE DEF t
<1>2. ToSet(t) \subseteq ToSet(s) \cup {e}
  <2> SUFFICES ASSUME NEW j \in 1..Len(t) PROVE t[j] \in ToSet(s) \cup {e}
    BY <1>1, InSet
  <2>1. CASE j < i
    <3>1. j \in 1..Len(s) /\ t[j] = s[j]
      BY <1>1, <2>1
    <3> QED
      BY <3>1, InSet
  <2>2. CASE j = i
    BY <1>1, <2>2
  <2>3. CASE j > i
    <3>1. j - 1 \in 1..Len(s) /\ t[j] = s[j - 1]
      BY <1>1, <2>3
    <3> QED
      BY <3>1, InSet
  <2> QED
    BY <1>1, <2>1, <2>2, <2>3
<1>3. e \in ToSet(t)
  <2>1. i \in 1..Len(t) /\ t[i] = e
    BY <1>1
  <2> QED
    BY <1>1, <2>1, InSet
<1>4. ToSet(s) \subseteq ToSet(t)
  <2> SUFFICES ASSUME NEW j \in 1..Len(s) PROVE s[j] \in ToSet(t)
    BY InSet
  <2>1. CASE j < i
    <3>1. j \in 1..Len(t) /\ t[j] = s[j]
      BY <1>1, <2>1
    <3> QED
      BY <1>1, <3>1, InSet
  <2>2. CASE j >= i
    <3> DEFINE k == j + 1
    <3>1. k \in 1..Len(s) + 1 /\ k > i /\ k - 1 = j /\ k \in 1..Len(t)
      BY <1>1, <2>2
    <3> HIDE DEF k
    <3>2. t[k] = s[j]
      BY <1>1, <3>1
    <3> QED
      BY <1>1, <3>1, <3>2, InSet
  <2> QED
    BY <2>1, <2>2
<1>5. ASSUME NoRepeat(s), e \notin ToSet(s) PROVE NoRepeat(t)
  <2>1. \A j \in 1..Len(s) : s[j] # e
    BY <1>5, InSet
  <2> QED
    BY <1>1, <1>5, <2>1 DEF NoRepeat
<1> QED
  BY <1>2, <1>3, <1>4, <1>5 DEF t

\* What a queue holds after a request has left it.
LEMMA RemoveSet ==
  ASSUME NEW S, NEW s \in Seq(S), NEW i \in 1..Len(s), NoRepeat(s)
  PROVE  /\ s[i] \in ToSet(s)
         /\ ToSet(RemoveAt(s, i)) = ToSet(s) \ {s[i]}
         /\ NoRepeat(RemoveAt(s, i))
<1> DEFINE t == RemoveAt(s, i)
<1>1. /\ t \in Seq(S) /\ Len(t) = Len(s) - 1
      /\ \A j \in 1..Len(s) - 1 : t[j] = IF j < i THEN s[j] ELSE s[j + 1]
  BY RemovePlaces
<1> HIDE DEF t
<1>2. ToSet(t) \subseteq ToSet(s) \ {s[i]}
  <2> SUFFICES ASSUME NEW j \in 1..Len(t) PROVE t[j] \in ToSet(s) \ {s[i]}
    BY <1>1, InSet
  <2> DEFINE k == IF j < i THEN j ELSE j + 1
  <2>1. k \in 1..Len(s) /\ k # i /\ t[j] = s[k]
    BY <1>1
  <2> HIDE DEF k
  <2> QED
    BY <2>1, InSet DEF NoRepeat
<1>3. ToSet(s) \ {s[i]} \subseteq ToSet(t)
  <2> SUFFICES ASSUME NEW j \in 1..Len(s), j # i PROVE s[j] \in ToSet(t)
    BY InSet
  <2> DEFINE k == IF j < i THEN j ELSE j - 1
  <2>1. k \in 1..Len(t) /\ t[k] = s[j]
    BY <1>1
  <2> HIDE DEF k
  <2> QED
    BY <1>1, <2>1, InSet
<1>4. ASSUME NEW j \in 1..Len(t), NEW k \in 1..Len(t), t[j] = t[k] PROVE j = k
  <2> DEFINE x == IF j < i THEN j ELSE j + 1
             y == IF k < i THEN k ELSE k + 1
  <2>1. x \in 1..Len(s) /\ y \in 1..Len(s) /\ t[j] = s[x] /\ t[k] = s[y]
    BY <1>1
  <2>2. x = y
    <3> HIDE DEF x, y
    <3> QED
      BY <1>4, <2>1 DEF NoRepeat
  <2> QED
    BY <1>1, <2>2
<1>5. s[i] \in ToSet(s)
  BY InSet
<1> QED
  BY <1>2, <1>3, <1>4, <1>5 DEF t, NoRepeat

\* drainQueue takes the first pending request out of the line, or puts it back.
LEMMA HeadOfLine ==
  ASSUME NEW S, NEW q \in Seq(S), NEW p \in Seq(S), p # << >>
  PROVE  /\ Len(q) + 1 \in 1..Len(q \o p)
         /\ (q \o p)[Len(q) + 1] = Head(p)
         /\ q \o Tail(p) = RemoveAt(q \o p, Len(q) + 1)
         /\ Append(q, Head(p)) \o Tail(p) = q \o p
         /\ Head(p) \in ToSet(p) /\ ToSet(Tail(p)) \subseteq ToSet(p)
<1>1. Len(p) > 0 /\ Len(q \o p) = Len(q) + Len(p)
  OBVIOUS
<1>2. (q \o p)[Len(q) + 1] = Head(p)
  BY <1>1
<1>3. q \o Tail(p) = RemoveAt(q \o p, Len(q) + 1)
  <2> DEFINE t == RemoveAt(q \o p, Len(q) + 1)
             u == q \o Tail(p)
  <2>1. q \o p \in Seq(S) /\ u \in Seq(S) /\ Len(u) = Len(q) + Len(p) - 1
    BY <1>1
  <2>2. /\ t \in Seq(S) /\ Len(t) = Len(q) + Len(p) - 1
        /\ \A j \in 1..Len(q \o p) - 1 : t[j] = IF j < Len(q) + 1 THEN (q \o p)[j] ELSE (q \o p)[j + 1]
    <3>1. Len(q) + 1 \in 1..Len(q \o p)
      BY <1>1
    <3>2. /\ t \in Seq(S) /\ Len(t) = Len(q \o p) - 1
          /\ \A j \in 1..Len(q \o p) - 1 :
                t[j] = IF j < Len(q) + 1 THEN (q \o p)[j] ELSE (q \o p)[j + 1]
      BY <2>1, <3>1, RemovePlaces
    <3> HIDE DEF t
    <3> QED
      BY <1>1, <3>2
  <2>3. \A j \in 1..Len(u) : u[j] = IF j <= Len(q) THEN q[j] ELSE p[j - Len(q) + 1]
    BY <1>1
  <2>4. \A j \in 1..Len(u) : t[j] = IF j <= Len(q) THEN q[j] ELSE p[j - Len(q) + 1]
    <3> HIDE DEF t
    <3> QED
      BY <1>1, <2>1, <2>2
  <2> HIDE DEF t, u
  <2>5. \A j \in 1..Len(u) : u[j] = t[j]
    BY <2>3, <2>4
  <2>6. u = t
    BY <2>1, <2>2, <2>5, SeqEqual
  <2> QED
    BY <2>6 DEF t, u
<1>4. Append(q, Head(p)) \o Tail(p) = q \o p
  OBVIOUS
<1>5. Head(p) \in ToSet(p) /\ ToSet(Tail(p)) \subseteq ToSet(p)
  BY <1>1 DEF ToSet
<1>6. Len(q) + 1 \in 1..Len(q \o p)
  BY <1>1
<1> QED
  BY <1>2, <1>3, <1>4, <1>5, <1>6, Zenon

-----------------------------------------------------------------------------
(* What the helpers of the actions do to the places.                       *)

\* The line is a queue, before and after a step.
LEMMA LineType ==
  /\ ShapeOK => Line \in Seq(Known) /\ ToSet(Line) = ToSet(queued) \cup ToSet(loop.pending)
  /\ ShapeOK' => Line' \in Seq(Known) /\ ToSet(Line)' = ToSet(queued') \cup ToSet(loop'.pending)
<1>1. ASSUME ShapeOK
      PROVE  Line \in Seq(Known) /\ ToSet(Line) = ToSet(queued) \cup ToSet(loop.pending)
  <2>1. queued \in Seq(Known) /\ loop.pending \in Seq(Known)
    BY <1>1 DEF ShapeOK, LoopStates
  <2> QED
    BY <2>1, ConcatSet DEF Line
<1>2. ASSUME ShapeOK'
      PROVE  Line' \in Seq(Known) /\ ToSet(Line)' = ToSet(queued') \cup ToSet(loop'.pending)
  <2>1. queued' \in Seq(Known) /\ loop'.pending \in Seq(Known)
    BY <1>2 DEF ShapeOK, LoopStates
  <2> QED
    BY <2>1, ConcatSet DEF Line
<1> QED
  BY <1>1, <1>2

\* A fan-out holds the callers it will answer, and goes on where it is told.
LEMMA FanOutEffect ==
  ASSUME NEW l \in LoopStates, l.fanout = {}, NEW F \in SUBSET Known,
         NEW v \in {"serve", "error"}, NEW n \in {"select", "drain", "cancel", "sweep"},
         NEW k, k = FanOut(l, F, v, n)
  PROVE  /\ k.fanout = F /\ PhaseOf(k) = n
         /\ k.pending = l.pending /\ k.targets = l.targets /\ k.todo = l.todo
         /\ F # {} => k.at = "grant" /\ k.verdict = v
         /\ F = {} => k.at = n
  BY DEF FanOut, PhaseOf, LoopStates

\* One answer takes one caller out of the fan-out.
LEMMA AnsweredEffect ==
  ASSUME ShapeOK, loop.at = "grant", NEW r \in loop.fanout, loop' = Answered(r)
  PROVE  /\ loop'.fanout = loop.fanout \ {r} /\ Phase' = Phase
         /\ loop'.pending = loop.pending /\ loop'.targets = loop.targets
         /\ loop'.todo = loop.todo
         /\ loop'.at # "grant" => loop'.fanout = {}
         /\ loop'.at = "grant" => loop'.verdict = loop.verdict
  BY DEF ShapeOK, LoopStates, Answered, Phase, PhaseOf

\* The queue becomes what is to be walked through.
LEMMA BeginDrainEffect ==
  ASSUME ShapeOK
  PROVE  /\ BeginDrain(loop) \in LoopStates
         /\ BeginDrain(loop).at = loop.at /\ BeginDrain(loop).fanout = loop.fanout
         /\ BeginDrain(loop).pending = queued
         /\ BeginDrain(loop).targets = loop.targets /\ BeginDrain(loop).todo = loop.todo
  BY BeginDrainType DEF ShapeOK, LoopStates, BeginDrain

\* The next request of a walk.
LEMMA PendingEffect ==
  ASSUME ShapeOK, loop.pending # << >>
  PROVE  LET rest == [loop EXCEPT !.pending = Tail(@)]
         IN  /\ rest \in LoopStates
             /\ rest.at = loop.at /\ rest.fanout = loop.fanout
             /\ rest.pending = Tail(loop.pending)
             /\ rest.targets = loop.targets /\ rest.todo = loop.todo
  BY PendingType DEF ShapeOK, LoopStates

\* The waiters of all models.
LEMMA InWaiters ==
  /\ \A x : x \in Waiters <=> \E m \in Models : x \in active[m].waiters
  /\ \A x : x \in Waiters' <=> \E m \in Models : x \in active'[m].waiters
  BY DEF Waiters

\* The request becomes a waiter of the swap of its model.
LEMMA JoinEffect ==
  ASSUME ShapeOK, WaitersOK, NEW r \in Known, Join(r), ModelOf[r] \in Active
  PROVE  /\ Waiters' = Waiters \cup {r} /\ WaitersOK' /\ Active' = Active
         /\ \A m \in Models : active'[m].gen = active[m].gen /\ active'[m].evict = active[m].evict
<1> DEFINE n == ModelOf[r]
<1>1. n \in Models
  BY DEF Known
<1>2. \A m \in Models : active'[m] =
          IF m = n THEN [active[m] EXCEPT !.waiters = @ \cup {r}] ELSE active[m]
  BY <1>1 DEF Join, ShapeOK
<1>3. \A m \in Models : /\ active'[m].gen = active[m].gen /\ active'[m].evict = active[m].evict
                        /\ active'[m].waiters = IF m = n THEN active[m].waiters \cup {r}
                                                ELSE active[m].waiters
  BY <1>2 DEF ShapeOK, ActiveSwaps
<1>4. Active' = Active
  BY <1>3 DEF Active
<1> HIDE DEF n
<1>5. Waiters' = Waiters \cup {r}
  BY <1>1, <1>3, InWaiters
<1>6. WaitersOK'
  <2> SUFFICES ASSUME NEW m \in Models
               PROVE  /\ m \notin Active => active'[m].waiters = {}
                      /\ \A x \in active'[m].waiters : ModelOf[x] = m
    BY <1>4 DEF WaitersOK
  <2>1. CASE m = n
    <3>1. m \in Active /\ ModelOf[r] = m
      BY <2>1 DEF n
    <3>2. active'[m].waiters = active[m].waiters \cup {r}
      BY <1>3, <2>1
    <3> QED
      BY <3>1, <3>2 DEF WaitersOK
  <2>2. CASE m # n
    BY <1>3, <2>2 DEF WaitersOK
  <2> QED
    BY <2>1, <2>2
<1> QED
  BY <1>3, <1>4, <1>5, <1>6

\* The request becomes the first waiter of a new swap.
LEMMA StartSwapEffect ==
  ASSUME ShapeOK, WaitersOK, NEW r \in Known, StartSwap(r), ModelOf[r] \notin Active
  PROVE  /\ Waiters' = Waiters \cup {r} /\ WaitersOK' /\ Active' = Active \cup {ModelOf[r]}
         /\ \A m \in Models : m # ModelOf[r] => active'[m] = active[m]
         /\ active'[ModelOf[r]].evict = Evict(ModelOf[r])
<1> DEFINE n == ModelOf[r]
<1>1. n \in Models /\ r # NoSwap
  BY RequestsAssumption DEF Known
<1>2. \A m \in Models : active'[m] =
          IF m = n THEN [gen |-> r, evict |-> Evict(n), waiters |-> {r}] ELSE active[m]
  BY <1>1 DEF StartSwap, ShapeOK
<1>3. Active' = Active \cup {n}
  BY <1>1, <1>2 DEF Active
<1>4. active[n].waiters = {}
  BY <1>1 DEF WaitersOK
<1> HIDE DEF n
<1>5. Waiters' = Waiters \cup {r}
  BY <1>1, <1>2, <1>4, InWaiters
<1>6. WaitersOK'
  BY <1>1, <1>2, <1>3 DEF WaitersOK, n
<1> QED
  BY <1>1, <1>2, <1>3, <1>5, <1>6 DEF n

\* The request stops waiting.
LEMMA UnjoinEffect ==
  ASSUME ShapeOK, WaitersOK, NEW r, Unjoin(r)
  PROVE  /\ Waiters' = Waiters \ {r} /\ r \in Waiters /\ WaitersOK' /\ Active' = Active
         /\ \A m \in Models : active'[m].gen = active[m].gen /\ active'[m].evict = active[m].evict
<1> DEFINE n == ModelOf[r]
<1>1. n \in Models /\ r \in active[n].waiters
  BY DEF Unjoin
<1>2. \A m \in Models : active'[m] =
          IF m = n THEN [active[m] EXCEPT !.waiters = @ \ {r}] ELSE active[m]
  BY <1>1 DEF Unjoin, ShapeOK
<1>3. \A m \in Models : /\ active'[m].gen = active[m].gen /\ active'[m].evict = active[m].evict
                        /\ active'[m].waiters = IF m = n THEN active[m].waiters \ {r}
                                                ELSE active[m].waiters
  BY <1>2 DEF ShapeOK, ActiveSwaps
<1>4. Active' = Active
  BY <1>3 DEF Active
<1>5. \A m \in Models : r \in active[m].waiters => m = n
  BY DEF WaitersOK
<1> HIDE DEF n
<1>6. Waiters' = Waiters \ {r} /\ r \in Waiters
  BY <1>1, <1>3, <1>5, InWaiters
<1>7. WaitersOK'
  BY <1>3, <1>4 DEF WaitersOK
<1> QED
  BY <1>3, <1>4, <1>6, <1>7

\* A swap ends, and its waiters with it.
LEMMA EndSwapEffect ==
  ASSUME ShapeOK, WaitersOK, NEW n \in Models, active' = [active EXCEPT ![n] = Idle]
  PROVE  /\ Waiters' = Waiters \ active[n].waiters /\ active[n].waiters \subseteq Waiters
         /\ active[n].waiters \subseteq Known
         /\ WaitersOK' /\ Active' = Active \ {n}
         /\ \A m \in Models : m # n => active'[m] = active[m]
<1>1. \A m \in Models : active'[m] = IF m = n THEN Idle ELSE active[m]
  BY DEF ShapeOK
<1>2. Active' = Active \ {n}
  BY <1>1 DEF Active, Idle
<1>3. \A m \in Models : m # n => active[m].waiters \cap active[n].waiters = {}
  BY DEF WaitersOK
<1>4. Waiters' = Waiters \ active[n].waiters /\ active[n].waiters \subseteq Waiters
  BY <1>1, <1>3, InWaiters DEF Idle
<1>5. WaitersOK'
  BY <1>1, <1>2 DEF WaitersOK, Idle
<1>6. active[n].waiters \subseteq Known
  BY ActiveType
<1> QED
  BY <1>1, <1>2, <1>4, <1>5, <1>6

\* Who is held is in the line, waits for a swap, or is about to be answered.
LEMMA HeldIs ==
  /\ ShapeOK => Held = ToSet(Line) \cup Waiters \cup loop.fanout
  /\ ShapeOK' => Held' = ToSet(Line)' \cup Waiters' \cup loop'.fanout
  BY LineType DEF Held

\* The callers of the held requests are parked.
LEMMA HeldCallers ==
  /\ ShapeOK => Held \subseteq Known
  /\ ShapeOK /\ CallersOK /\ ~down =>
        \A x \in Held : client[x] \in {"admitted", "waiting", "cancelling"}
<1>1. ASSUME ShapeOK PROVE Held \subseteq Known
  <2>1. Line \in Seq(Known) /\ Held = ToSet(Line) \cup Waiters \cup loop.fanout
    BY <1>1, LineType, HeldIs
  <2>2. ToSet(Line) \subseteq Known
    BY <2>1, InSet
  <2>3. Waiters \subseteq Known
    BY <1>1, ActiveType, InWaiters
  <2>4. loop.fanout \subseteq Known
    BY <1>1 DEF ShapeOK, LoopStates
  <2> QED
    BY <2>1, <2>2, <2>3, <2>4
<1>2. ASSUME ShapeOK, CallersOK, ~down
      PROVE  \A x \in Held : client[x] \in {"admitted", "waiting", "cancelling"}
  BY <1>2, HeldIs DEF CallersOK
<1> QED
  BY <1>1, <1>2

\* What a step has to show of the callers.
LEMMA CallersStep ==
  ASSUME ShapeOK',
         ~down' => \A x \in Held' : client'[x] \in {"admitted", "waiting", "cancelling"},
         \A x \in Requests : client'[x] \in {"serving", "served"} => x \in Known
  PROVE  CallersOK'
<1>1. Held' = ToSet(Line)' \cup Waiters' \cup loop'.fanout
  BY HeldIs
<1> QED
  BY <1>1 DEF CallersOK

\* When the queue becomes what is to be walked through, the line is the same.
LEMMA DrainKeepsLine ==
  ASSUME ShapeOK, loop.pending = << >>, queued' = << >>, loop'.pending = queued
  PROVE  Line' = Line
<1>1. queued \in Seq(Known)
  BY DEF ShapeOK
<1>2. queued \o << >> = queued /\ << >> \o queued = queued
  BY <1>1
<1> QED
  BY <1>2 DEF Line

\* A step that keeps the line and only moves callers from waiting to a fan-out.
LEMMA HeldStays ==
  ASSUME ShapeOK, ShapeOK', PlacesOK, Line' = Line,
         Waiters' \cup loop'.fanout = Waiters \cup loop.fanout,
         Waiters' \cap loop'.fanout = {}
  PROVE  PlacesOK' /\ Held' = Held
<1>1. Held = ToSet(Line) \cup Waiters \cup loop.fanout
  BY HeldIs
<1>2. Held' = ToSet(Line) \cup Waiters' \cup loop'.fanout
  BY HeldIs
<1> QED
  BY <1>1, <1>2 DEF PlacesOK

\* A step that takes the first pending request out of the line to another place.
LEMMA HeadTaken ==
  ASSUME ShapeOK, ShapeOK', PlacesOK, loop.pending # << >>, queued' = queued,
         loop'.pending = Tail(loop.pending),
         Waiters' \cup loop'.fanout = Waiters \cup loop.fanout \cup {Head(loop.pending)},
         Waiters' \cap loop'.fanout = {}
  PROVE  /\ PlacesOK' /\ Held' = Held
         /\ Len(queued) + 1 \in 1..Len(Line) /\ Line[Len(queued) + 1] = Head(loop.pending)
         /\ Line' = RemoveAt(Line, Len(queued) + 1)
<1> DEFINE r == Head(loop.pending)
           k == Len(queued) + 1
<1>1. queued \in Seq(Known) /\ loop.pending \in Seq(Known) /\ Line \in Seq(Known)
  BY LineType DEF ShapeOK, LoopStates
<1>2. k \in 1..Len(Line) /\ Line[k] = r
  BY <1>1, HeadOfLine DEF Line
<1>3. Line' = RemoveAt(Line, k)
  BY <1>1, HeadOfLine DEF Line
<1>4. NoRepeat(Line)
  BY DEF PlacesOK
<1> HIDE DEF k
<1>5. /\ Line[k] \in ToSet(Line) /\ ToSet(RemoveAt(Line, k)) = ToSet(Line) \ {Line[k]}
      /\ NoRepeat(RemoveAt(Line, k))
  BY <1>1, <1>2, <1>4, RemoveSet
<1>6. r \in ToSet(Line) /\ ToSet(Line') = ToSet(Line) \ {r} /\ NoRepeat(Line')
  BY <1>2, <1>3, <1>5
<1> HIDE DEF r
<1>7. Held = ToSet(Line) \cup Waiters \cup loop.fanout
  BY HeldIs
<1>8. Held' = ToSet(Line') \cup Waiters' \cup loop'.fanout
  BY HeldIs
<1>9. Waiters' \cup loop'.fanout = Waiters \cup loop.fanout \cup {r}
  BY DEF r
<1>10. PlacesOK' /\ Held' = Held
  BY <1>6, <1>7, <1>8, <1>9 DEF PlacesOK
<1> QED
  BY <1>2, <1>3, <1>10 DEF k, r

\* Nobody who is held moves, and no caller of one: what is left to show.
LEMMA BooksStay ==
  ASSUME HoldInv, ShapeOK', UNCHANGED active, Line' = Line, loop'.fanout = loop.fanout, LoopOK',
         ~down' => ~down /\ \A x \in Held : client'[x] \in {"admitted", "waiting", "cancelling"},
         \A x \in Requests : client'[x] \in {"serving", "served"} => x \in Known
  PROVE  Books' /\ Held' = Held
<1>1. Waiters' = Waiters /\ WaitersOK'
  BY DEF HoldInv, Books, Waiters, WaitersOK, Active
<1>2. PlacesOK' /\ Held' = Held
  BY <1>1, HeldStays DEF HoldInv, Books, PlacesOK
<1>3. CallersOK'
  BY <1>2, CallersStep
<1> QED
  BY <1>1, <1>2, <1>3 DEF Books

-----------------------------------------------------------------------------
(* The books over the steps of the scheduler.                              *)

\* A new request takes one place, if it is admitted.
LEMMA OnRequestHold ==
  ASSUME HoldInv, ShapeOK', NEW r \in Requests, OnRequest(r)
  PROVE  /\ Books'
         /\ \/ Held' = Held /\ UNCHANGED reserved
            \/ /\ r \in Known /\ r \notin Held /\ Held' = Held \cup {r}
               /\ reserved[ModelOf[r]] < Limit[ModelOf[r]]
               /\ reserved' = [reserved EXCEPT ![ModelOf[r]] = @ + 1]
<1> USE DEF HoldInv, Books
<1>1. /\ loop.at = "select" /\ Phase = "select" /\ ~down /\ loop.pending = << >>
      /\ loop.fanout = {} /\ Line = queued
  BY LineType DEF OnRequest, LoopOK, Phase, PhaseOf, Line, ShapeOK
<1>2. r \notin Held
  BY <1>1, HeldIs DEF OnRequest, CallersOK
<1>3. CASE Refuse(r)
  <2>1. UNCHANGED <<active, reserved, queued, loop, down>>
    BY <1>3 DEF OnRequest, Refuse, schedVars
  <2>2. Line' = Line /\ Waiters' = Waiters /\ Held' = Held
    BY <2>1 DEF Line, Waiters, Held
  <2>3. \A x \in Requests : x # r => client'[x] = client[x]
    BY <1>3 DEF Refuse, ShapeOK
  <2>4. client'[r] \in {"sent", "refused"}
    BY <1>3 DEF Refuse, ShapeOK
  <2>5. CallersOK'
    <3>1. \A x \in Held' : x # r /\ x \in Requests
      BY <1>2, <2>2, HeldCallers DEF Known
    <3> QED
      BY <2>1, <2>2, <2>3, <2>4, <3>1, HeldCallers, CallersStep DEF CallersOK
  <2> QED
    BY <2>1, <2>2, <2>5 DEF LoopOK, WaitersOK, PlacesOK, Active, Phase, PhaseOf
<1>4. CASE Admit(r)
  <2>1. /\ r \in Known /\ reserved[ModelOf[r]] < Limit[ModelOf[r]]
        /\ reserved' = [reserved EXCEPT ![ModelOf[r]] = @ + 1]
        /\ UNCHANGED down
    BY <1>4 DEF Admit, Admissible, Known, OnRequest
  <2>2. \A x \in Requests : client'[x] = IF x = r THEN "admitted" ELSE client[x]
    BY <1>4 DEF Admit, ShapeOK
  <2>3. r \notin ToSet(Line) /\ r \notin Waiters /\ r \notin loop.fanout
    BY <1>2, HeldIs
  <2>4. SUFFICES LoopOK' /\ WaitersOK' /\ PlacesOK' /\ Held' = Held \cup {r}
    <3>1. \A x \in Held' : x \in Requests /\ (x = r \/ x \in Held)
      BY <2>4, HeldCallers DEF Known
    <3>2. CallersOK'
      BY <2>1, <2>2, <2>4, <3>1, HeldCallers, CallersStep DEF CallersOK
    <3> QED
      BY <1>2, <2>1, <2>4, <3>2
  <2>5. CASE Decision(r) = "join" /\ Join(r) /\ UNCHANGED <<queued, loop>>
    <3>1. ModelOf[r] \in Active
      BY <2>5 DEF Decision
    <3>2. Waiters' = Waiters \cup {r} /\ WaitersOK'
      BY <2>1, <2>5, <3>1, JoinEffect
    <3>3. Line' = Line
      BY <2>5 DEF Line
    <3> QED
      BY <2>1, <2>3, <2>5, <3>2, <3>3, HeldIs DEF LoopOK, PlacesOK, Phase, PhaseOf
  <2>6. CASE loop' = FanOut(loop, {r}, "serve", "select") /\ UNCHANGED <<active, queued>>
    <3>0. loop \in LoopStates /\ {r} \in SUBSET Known /\ {r} # {}
      BY <2>1 DEF ShapeOK
    <3>1. /\ loop'.fanout = {r} /\ PhaseOf(loop') = "select" /\ loop'.pending = loop.pending
          /\ loop'.targets = loop.targets /\ loop'.at = "grant"
      BY <1>1, <2>6, <3>0, FanOutEffect
    <3>2. Line' = Line /\ Waiters' = Waiters /\ WaitersOK'
      BY <2>6, <3>1 DEF Line, Waiters, WaitersOK, Active
    <3> QED
      BY <1>1, <2>1, <2>3, <3>1, <3>2, HeldIs DEF LoopOK, PlacesOK, Phase
  <2>7. CASE (\E i \in 1..Len(queued) + 1 : queued' = InsertAt(queued, i, r)) /\ UNCHANGED <<active, loop>>
    <3>1. PICK i \in 1..Len(queued) + 1 : queued' = InsertAt(queued, i, r)
      BY <2>7
    <3>2. Line' = queued'
      BY <1>1, <2>7, LineType DEF Line, ShapeOK
    <3>3. queued \in Seq(Known) /\ NoRepeat(queued) /\ r \notin ToSet(queued)
      BY <1>1, <2>3 DEF ShapeOK, PlacesOK
    <3>4. ToSet(queued') = ToSet(queued) \cup {r} /\ NoRepeat(queued')
      BY <2>1, <3>1, <3>3, InsertSet
    <3>5. ToSet(Line)' = ToSet(Line) \cup {r} /\ NoRepeat(Line)'
      BY <1>1, <3>2, <3>4
    <3>6. Waiters' = Waiters /\ WaitersOK'
      BY <2>7 DEF Waiters, WaitersOK, Active
    <3> QED
      BY <2>1, <2>3, <2>7, <3>5, <3>6, HeldIs DEF LoopOK, PlacesOK, Phase, PhaseOf
  <2>8. CASE Decision(r) = "swap" /\ StartSwap(r) /\ UNCHANGED <<queued, loop>>
    <3>1. ModelOf[r] \notin Active
      BY <2>8 DEF Decision
    <3>2. Waiters' = Waiters \cup {r} /\ WaitersOK'
      BY <2>1, <2>8, <3>1, StartSwapEffect
    <3>3. Line' = Line
      BY <2>8 DEF Line
    <3> QED
      BY <2>1, <2>3, <2>8, <3>2, <3>3, HeldIs DEF LoopOK, PlacesOK, Phase, PhaseOf
  <2> QED
    BY <1>4, <2>5, <2>6, <2>7, <2>8 DEF Admit
<1> QED
  BY <1>3, <1>4 DEF OnRequest

\* A cancelled request leaves its place, if it still has one.
LEMMA OnCancelHold ==
  ASSUME HoldInv, ShapeOK', NEW r \in Requests, OnCancel(r)
  PROVE  /\ Books'
         /\ \/ Held' = Held /\ UNCHANGED reserved
            \/ /\ r \in Held /\ Held' = Held \ {r}
               /\ reserved' = [reserved EXCEPT ![ModelOf[r]] = @ - 1]
<1> USE DEF HoldInv, Books
<1>1. /\ Phase = "select" /\ ~down /\ loop.pending = << >> /\ loop.fanout = {} /\ Line = queued
      /\ UNCHANGED <<loop, down>> /\ queued \in Seq(Known) /\ Line' = queued'
  BY LineType DEF OnCancel, LoopOK, Phase, PhaseOf, Line, ShapeOK
<1>2. \A x \in Requests : client'[x] = IF x = r THEN "done" ELSE client[x]
  BY DEF OnCancel, ShapeOK
<1>3. SUFFICES /\ WaitersOK' /\ PlacesOK' /\ r \notin Held'
               /\ \/ Held' = Held /\ UNCHANGED reserved
                  \/ /\ r \in Held /\ Held' = Held \ {r}
                     /\ reserved' = [reserved EXCEPT ![ModelOf[r]] = @ - 1]
  <2>1. LoopOK'
    BY <1>1 DEF LoopOK, Phase, PhaseOf
  <2>2. CallersOK'
    <3>1. \A x \in Held' : x # r /\ x \in Requests /\ x \in Held
      BY <1>3, HeldCallers DEF Known
    <3> QED
      BY <1>1, <1>2, <3>1, HeldCallers, CallersStep DEF CallersOK
  <2> QED
    BY <1>3, <2>1, <2>2
<1>4. CASE Unqueue(r)
  <2>1. PICK i \in 1..Len(queued) : queued[i] = r /\ queued' = RemoveAt(queued, i)
    BY <1>4 DEF Unqueue
  <2>2. NoRepeat(queued)
    BY <1>1 DEF PlacesOK
  <2>3. r \in ToSet(queued) /\ ToSet(queued') = ToSet(queued) \ {r} /\ NoRepeat(queued')
    BY <1>1, <2>1, <2>2, RemoveSet
  <2>4. r \in ToSet(Line) /\ ToSet(Line)' = ToSet(Line) \ {r} /\ NoRepeat(Line)'
    BY <1>1, <2>3
  <2>5. Waiters' = Waiters /\ WaitersOK'
    BY <1>4 DEF Unqueue, Waiters, WaitersOK, Active
  <2> QED
    BY <1>1, <1>4, <2>4, <2>5, HeldIs DEF Unqueue, Release, PlacesOK
<1>5. CASE Unjoin(r)
  <2>1. Waiters' = Waiters \ {r} /\ r \in Waiters /\ WaitersOK'
    BY <1>5, UnjoinEffect
  <2>2. Line' = Line
    BY <1>1, <1>5 DEF Unjoin
  <2> QED
    BY <1>1, <1>5, <2>1, <2>2, HeldIs DEF Unjoin, Release, PlacesOK
<1>6. CASE /\ r \notin ToSet(queued) /\ (ModelOf[r] \in Models => r \notin active[ModelOf[r]].waiters)
           /\ UNCHANGED <<active, reserved, queued>>
  <2>1. r \notin Waiters
    BY <1>6, InWaiters DEF WaitersOK
  <2>2. Line' = Line /\ Waiters' = Waiters /\ WaitersOK'
    BY <1>1, <1>6 DEF Waiters, WaitersOK, Active
  <2> QED
    BY <1>1, <1>6, <2>1, <2>2, HeldIs DEF PlacesOK
<1> QED
  BY <1>4, <1>5, <1>6 DEF OnCancel

\* A finished handler: nobody who is held moves.
LEMMA OnServeDoneHold ==
  ASSUME HoldInv, ShapeOK', NEW r \in Requests, OnServeDone(r)
  PROVE  Books' /\ Held' = Held /\ Line' = Line
<1> USE DEF HoldInv, Books
<1>1. /\ loop.at = "select" /\ ~down /\ loop.pending = << >> /\ loop.fanout = {}
      /\ UNCHANGED <<active, down>>
  BY DEF OnServeDone, LoopOK, Phase, PhaseOf
<1>2. \A x \in Requests : client'[x] = IF x = r THEN "done" ELSE client[x]
  BY DEF OnServeDone, ShapeOK
<1>3. r \notin Held
  BY <1>1, HeldCallers DEF OnServeDone
<1>4. \A x \in Held : x # r /\ x \in Requests
  BY <1>3, HeldCallers DEF Known
<1>5. CASE queued' = << >> /\ loop' = [BeginDrain(loop) EXCEPT !.at = "drain"]
  <2>1. /\ loop'.at = "drain" /\ loop'.fanout = {} /\ loop'.pending = queued
        /\ loop'.targets = loop.targets
    BY <1>1, <1>5, BeginDrainEffect DEF LoopStates
  <2>2. LoopOK'
    BY <1>1, <2>1 DEF LoopOK, Phase, PhaseOf
  <2>3. Line' = Line
    BY <1>1, <1>5, <2>1, DrainKeepsLine
  <2> QED
    BY <1>1, <1>2, <1>4, <2>1, <2>2, <2>3, HeldCallers, BooksStay DEF CallersOK
<1>6. CASE UNCHANGED <<queued, loop>>
  <2>1. Line' = Line /\ LoopOK'
    BY <1>1, <1>6 DEF Line, LoopOK, Phase, PhaseOf
  <2> QED
    BY <1>1, <1>2, <1>4, <1>6, <2>1, HeldCallers, BooksStay DEF CallersOK
<1> QED
  BY <1>5, <1>6 DEF OnServeDone

\* A swap that reports hands its waiters to the fan-out.
LEMMA OnSwapDoneHold ==
  ASSUME HoldInv, ShapeOK', NEW g \in Requests, OnSwapDone(g)
  PROVE  Books' /\ Held' = Held /\ Line' = Line
<1> USE DEF HoldInv, Books
<1> DEFINE m == ModelOf[g]
<1>1. /\ loop.at = "select" /\ ~down /\ loop.pending = << >> /\ loop.fanout = {}
      /\ UNCHANGED <<client, down>>
  BY DEF OnSwapDone, LoopOK, Phase, PhaseOf
<1>2. CASE /\ m \in Active
           /\ active' = [active EXCEPT ![m] = Idle]
           /\ queued' = << >>
           /\ \E v \in {"serve", "error"} :
                 loop' = FanOut(BeginDrain(loop), active[m].waiters, v, "drain")
  <2>1. m \in Models
    BY <1>2 DEF Active
  <2> DEFINE W == active[m].waiters
  <2>2. /\ Waiters' = Waiters \ W /\ W \subseteq Waiters /\ W \in SUBSET Known /\ WaitersOK'
    BY <1>2, <2>1, EndSwapEffect
  <2> HIDE DEF W
  <2>3. PICK v \in {"serve", "error"} : loop' = FanOut(BeginDrain(loop), W, v, "drain")
    BY <1>2 DEF W
  <2>4. BeginDrain(loop) \in LoopStates /\ BeginDrain(loop).fanout = {}
        /\ BeginDrain(loop).pending = queued
    BY <1>1, BeginDrainEffect
  <2>5. /\ loop'.fanout = W /\ Phase' = "drain" /\ loop'.pending = queued
        /\ W # {} => loop'.at = "grant"
    BY <2>2, <2>3, <2>4, FanOutEffect DEF Phase
  <2>6. LoopOK'
    BY <1>1, <2>5 DEF LoopOK
  <2>7. Line' = Line
    BY <1>1, <1>2, <2>5, DrainKeepsLine
  <2>8. PlacesOK' /\ Held' = Held
    BY <1>1, <2>2, <2>5, <2>7, HeldStays
  <2>9. CallersOK'
    BY <1>1, <2>8, HeldCallers, CallersStep DEF CallersOK
  <2> QED
    BY <2>2, <2>6, <2>7, <2>8, <2>9
<1>3. CASE UNCHANGED <<active, queued, loop>>
  <2>1. Line' = Line /\ LoopOK'
    BY <1>1, <1>3 DEF Line, LoopOK, Phase, PhaseOf
  <2> QED
    BY <1>1, <1>3, <2>1, HeldCallers, BooksStay DEF CallersOK
<1> QED
  BY <1>2, <1>3 DEF OnSwapDone

\* A caller that is answered is held no longer.
LEMMA GrantHold ==
  ASSUME HoldInv, ShapeOK', NEW r \in Requests, GrantHandler(r) \/ GrantError(r)
  PROVE  /\ Books' /\ Line' = Line
         /\ r \in loop.fanout /\ r \in Known /\ r \in Held /\ Held' = Held \ {r}
<1> USE DEF HoldInv, Books
<1>1. /\ loop.at = "grant" /\ r \in loop.fanout /\ loop' = Answered(r)
      /\ UNCHANGED <<active, queued, down>>
  BY DEF GrantHandler, GrantError
<1>2. /\ loop'.fanout = loop.fanout \ {r} /\ Phase' = Phase
      /\ loop'.pending = loop.pending /\ loop'.targets = loop.targets
      /\ loop'.at # "grant" => loop'.fanout = {}
  BY <1>1, AnsweredEffect
<1>3. r \in Known /\ r \in Held
  BY <1>1, HeldCallers, HeldIs
<1>4. Line' = Line /\ Waiters' = Waiters /\ WaitersOK'
  BY <1>1, <1>2 DEF Line, Waiters, WaitersOK, Active
<1>5. LoopOK'
  BY <1>1, <1>2 DEF LoopOK
<1>6. Held = ToSet(Line) \cup Waiters \cup loop.fanout
  BY HeldIs
<1>7. Held' = ToSet(Line) \cup Waiters \cup (loop.fanout \ {r})
  BY <1>2, <1>4, HeldIs
<1>8. PlacesOK' /\ Held' = Held \ {r}
  BY <1>1, <1>2, <1>4, <1>6, <1>7 DEF PlacesOK
<1>9. \A x \in Requests : x # r => client'[x] = client[x]
  BY DEF GrantHandler, GrantLands, GrantIsLost, GrantError, ShapeOK
<1>10. \A x \in Held' : x # r /\ x \in Held /\ x \in Requests
  BY <1>8, HeldCallers DEF Known
<1>11. CallersOK'
  BY <1>1, <1>3, <1>9, <1>10, HeldCallers, CallersStep DEF CallersOK
<1> QED
  BY <1>1, <1>3, <1>4, <1>5, <1>8, <1>11

\* A drain takes a request to the swap of its model or to an answer, or keeps it.
LEMMA DrainQueueHold ==
  ASSUME HoldInv, ShapeOK', DrainQueue
  PROVE  /\ Books' /\ Held' = Held
         /\ \/ Line' = Line
            \/ /\ Len(queued) + 1 \in 1..Len(Line)
               /\ Line[Len(queued) + 1] = Head(loop.pending)
               /\ Line' = RemoveAt(Line, Len(queued) + 1)
<1> USE DEF HoldInv, Books
<1> DEFINE r == Head(loop.pending)
           rest == [loop EXCEPT !.pending = Tail(@)]
<1>1. /\ loop.at = "drain" /\ loop.pending # << >> /\ loop.fanout = {} /\ ~down
      /\ UNCHANGED <<client, down>>
  BY DEF DrainQueue, LoopOK, Phase, PhaseOf
<1>2. /\ rest \in LoopStates /\ rest.at = "drain" /\ rest.fanout = {}
      /\ rest.pending = Tail(loop.pending)
  BY <1>1, PendingEffect
<1>3. r \in Known /\ r \in ToSet(Line)
  <2>1. queued \in Seq(Known) /\ loop.pending \in Seq(Known)
    BY DEF ShapeOK, LoopStates
  <2>2. r \in ToSet(loop.pending)
    BY <1>1, <2>1, HeadOfLine
  <2> QED
    BY <1>1, <2>2, LineType, PendingType
<1>4. r \notin Waiters
  BY <1>3 DEF PlacesOK
<1> HIDE DEF rest
<1>5. ASSUME PlacesOK', Held' = Held PROVE CallersOK'
  BY <1>1, <1>5, HeldCallers, CallersStep DEF CallersOK
<1>6. ASSUME loop' = rest PROVE LoopOK' /\ loop'.fanout = {} /\ loop'.pending = Tail(loop.pending)
  BY <1>1, <1>2, <1>6 DEF LoopOK, Phase, PhaseOf
<1>7. CASE Decision(r) = "join" /\ Join(r) /\ loop' = rest /\ UNCHANGED queued
  <2>1. ModelOf[r] \in Active
    BY <1>7 DEF Decision
  <2>2. Waiters' = Waiters \cup {r} /\ WaitersOK'
    BY <1>3, <1>7, <2>1, JoinEffect
  <2> QED
    BY <1>1, <1>5, <1>6, <1>7, <2>2, HeadTaken
<1>8. CASE loop' = FanOut(rest, {r}, "serve", "drain") /\ UNCHANGED <<active, queued>>
  <2>1. {r} \in SUBSET Known /\ {r} # {}
    BY <1>3
  <2>2. /\ loop'.fanout = {r} /\ Phase' = "drain" /\ loop'.pending = Tail(loop.pending)
        /\ loop'.at = "grant"
    BY <1>2, <1>8, <2>1, FanOutEffect DEF Phase
  <2>3. LoopOK'
    BY <1>1, <2>2 DEF LoopOK
  <2>4. Waiters' = Waiters /\ WaitersOK'
    BY <1>8 DEF Waiters, WaitersOK, Active
  <2> QED
    BY <1>1, <1>4, <1>5, <1>8, <2>2, <2>3, <2>4, HeadTaken
<1>9. CASE Requeue(r) /\ loop' = rest /\ UNCHANGED active
  <2>1. queued \in Seq(Known) /\ loop.pending \in Seq(Known)
    BY DEF ShapeOK, LoopStates
  <2>2. Line' = Line
    <3>1. Append(queued, r) \o Tail(loop.pending) = queued \o loop.pending
      BY <1>1, <2>1, HeadOfLine
    <3>2. queued' = Append(queued, r) /\ loop'.pending = Tail(loop.pending)
      BY <1>2, <1>9 DEF Requeue
    <3> QED
      BY <3>1, <3>2 DEF Line
  <2> QED
    BY <1>1, <1>6, <1>9, <2>2, HeldCallers, BooksStay DEF CallersOK
<1>10. CASE Decision(r) = "swap" /\ StartSwap(r) /\ loop' = rest /\ UNCHANGED queued
  <2>1. ModelOf[r] \notin Active
    BY <1>10 DEF Decision
  <2>2. Waiters' = Waiters \cup {r} /\ WaitersOK'
    BY <1>3, <1>10, <2>1, StartSwapEffect
  <2> QED
    BY <1>1, <1>5, <1>6, <1>10, <2>2, HeadTaken
<1> QED
  BY <1>7, <1>8, <1>9, <1>10 DEF DrainQueue, rest

\* The walk of an unload answers a request for a target, or keeps it.
LEMMA SweepQueueHold ==
  ASSUME HoldInv, ShapeOK', SweepQueue
  PROVE  /\ Books' /\ Held' = Held
         /\ \/ Line' = Line
            \/ /\ Len(queued) + 1 \in 1..Len(Line)
               /\ Line[Len(queued) + 1] = Head(loop.pending)
               /\ Line' = RemoveAt(Line, Len(queued) + 1)
<1> USE DEF HoldInv, Books
<1> DEFINE r == Head(loop.pending)
           rest == [loop EXCEPT !.pending = Tail(@)]
<1>1. /\ loop.at = "sweep" /\ loop.pending # << >> /\ loop.fanout = {}
      /\ UNCHANGED <<active, client, down>>
  BY DEF SweepQueue, LoopOK, Phase, PhaseOf
<1>2. /\ rest \in LoopStates /\ rest.at = "sweep" /\ rest.fanout = {}
      /\ rest.pending = Tail(loop.pending)
  BY <1>1, PendingEffect
<1>3. r \in Known /\ r \in ToSet(Line)
  <2>1. queued \in Seq(Known) /\ loop.pending \in Seq(Known)
    BY DEF ShapeOK, LoopStates
  <2>2. r \in ToSet(loop.pending)
    BY <1>1, <2>1, HeadOfLine
  <2> QED
    BY <1>1, <2>2, LineType, PendingType
<1>4. r \notin Waiters /\ Waiters' = Waiters /\ WaitersOK'
  BY <1>1, <1>3 DEF PlacesOK, Waiters, WaitersOK, Active
<1> HIDE DEF rest
<1>5. CASE loop' = FanOut(rest, {r}, "error", "sweep") /\ UNCHANGED queued
  <2>1. {r} \in SUBSET Known /\ {r} # {}
    BY <1>3
  <2>2. /\ loop'.fanout = {r} /\ Phase' = "sweep" /\ loop'.pending = Tail(loop.pending)
        /\ loop'.at = "grant"
    BY <1>2, <1>5, <2>1, FanOutEffect DEF Phase
  <2>3. LoopOK'
    BY <1>1, <2>2 DEF LoopOK
  <2>4. PlacesOK' /\ Held' = Held
    BY <1>1, <1>4, <1>5, <2>2, HeadTaken
  <2>5. CallersOK'
    BY <1>1, <2>4, HeldCallers, CallersStep DEF CallersOK
  <2> QED
    BY <1>1, <1>4, <1>5, <2>2, <2>3, <2>4, <2>5, HeadTaken
<1>6. CASE Requeue(r) /\ loop' = rest
  <2>1. queued \in Seq(Known) /\ loop.pending \in Seq(Known)
    BY DEF ShapeOK, LoopStates
  <2>2. Line' = Line
    <3>1. Append(queued, r) \o Tail(loop.pending) = queued \o loop.pending
      BY <1>1, <2>1, HeadOfLine
    <3>2. queued' = Append(queued, r) /\ loop'.pending = Tail(loop.pending)
      BY <1>2, <1>6 DEF Requeue
    <3> QED
      BY <3>1, <3>2 DEF Line
  <2>3. LoopOK' /\ loop'.fanout = {}
    BY <1>1, <1>2, <1>6 DEF LoopOK, Phase, PhaseOf
  <2> QED
    BY <1>1, <1>6, <2>2, <2>3, HeldCallers, BooksStay DEF CallersOK
<1> QED
  BY <1>5, <1>6 DEF SweepQueue, rest

\* An unload that has joined a swap answers those who waited for it.
LEMMA JoinSwapHold ==
  ASSUME HoldInv, ShapeOK', NEW m \in Models, JoinSwap(m)
  PROVE  Books' /\ Held' = Held /\ Line' = Line
<1> USE DEF HoldInv, Books
<1> DEFINE W == active[m].waiters
<1>1. /\ loop.at = "cancel" /\ loop \in LoopStates /\ loop.pending = << >> /\ loop.fanout = {}
      /\ loop' = FanOut(loop, W, "error", "cancel")
      /\ UNCHANGED <<queued, client, down>>
  BY DEF JoinSwap, LoopOK, Phase, PhaseOf, ShapeOK
<1>2. Waiters' = Waiters \ W /\ W \subseteq Waiters /\ W \in SUBSET Known /\ WaitersOK'
  BY EndSwapEffect DEF JoinSwap
<1> HIDE DEF W
<1>3. /\ loop'.fanout = W /\ Phase' = "cancel" /\ loop'.pending = << >>
      /\ W # {} => loop'.at = "grant"
  BY <1>1, <1>2, FanOutEffect DEF Phase
<1>4. LoopOK'
  BY <1>1, <1>3 DEF LoopOK
<1>5. Line' = Line
  BY <1>1, <1>3 DEF Line
<1>6. PlacesOK' /\ Held' = Held
  BY <1>1, <1>2, <1>3, <1>5, HeldStays
<1>7. CallersOK'
  BY <1>1, <1>6, HeldCallers, CallersStep DEF CallersOK
<1> QED
  BY <1>2, <1>4, <1>5, <1>6, <1>7

\* The run loop goes from one phase to the next.
LEMMA PhaseHold ==
  ASSUME HoldInv, ShapeOK',
         \/ DrainEnd \/ CancelEnd \/ SweepEnd \/ StopEnd \/ OnShutdown
         \/ \E m \in Models : CancelSwap(m) \/ StopReturns(m)
         \/ \E T \in Unloads : OnUnload(T)
  PROVE  Books' /\ Held' = Held /\ Line' = Line
<1> USE DEF HoldInv, Books
<1>1. /\ loop \in LoopStates /\ loop.at # "grant" /\ loop.fanout = {} /\ Phase = loop.at
      /\ UNCHANGED <<active, client>> /\ (down => down')
  BY DEF DrainEnd, CancelEnd, SweepEnd, StopEnd, OnShutdown, CancelSwap, StopReturns, OnUnload,
         schedVars, ShapeOK, LoopOK, Phase, PhaseOf
<1>2. CASE CancelEnd \/ (StopEnd /\ ~down)
  <2>1. loop.pending = << >> /\ queued' = << >> /\ UNCHANGED down
    BY <1>1, <1>2 DEF LoopOK, CancelEnd, StopEnd
  <2>2. /\ loop'.at \in {"sweep", "drain"} /\ loop'.fanout = {} /\ loop'.pending = queued
        /\ (down => loop'.at = "sweep")
    BY <1>1, <1>2, BeginDrainEffect DEF CancelEnd, StopEnd, LoopStates
  <2>3. LoopOK' /\ Line' = Line
    BY <1>1, <2>1, <2>2, DrainKeepsLine DEF LoopOK, Phase, PhaseOf
  <2> QED
    BY <1>1, <2>1, <2>2, <2>3, HeldCallers, BooksStay DEF CallersOK
<1>3. CASE ~CancelEnd /\ ~(StopEnd /\ ~down)
  <2>1. UNCHANGED queued
    BY <1>3 DEF DrainEnd, SweepEnd, StopEnd, OnShutdown, CancelSwap, StopReturns, OnUnload, schedVars
  <2>2. /\ loop'.fanout = {} /\ loop'.pending = loop.pending
        /\ loop'.at # "grant"
        /\ loop'.at # loop.at /\ loop.at \in {"drain", "sweep"} => loop.pending = << >>
        /\ loop'.at = "select" => loop'.targets = {}
        /\ loop'.at = "drain" => loop.at = "drain"
        /\ down' => down \/ loop'.at = "cancel"
        /\ loop'.at = "select" => loop.at = "drain"
    BY <1>1, <1>3 DEF DrainEnd, SweepEnd, StopEnd, OnShutdown, CancelSwap, StopReturns, OnUnload,
       LoopStates, schedVars
  <2>3. LoopOK'
    BY <1>1, <2>2 DEF LoopOK, Phase, PhaseOf, LoopStates
  <2>4. Line' = Line
    BY <2>1, <2>2 DEF Line
  <2> QED
    BY <1>1, <2>2, <2>3, <2>4, HeldCallers, BooksStay DEF CallersOK
<1> QED
  BY <1>2, <1>3

\* A caller that leaves the scheduler tells the run loop first, unless the
\* router is down.
LEMMA ClientHold ==
  ASSUME HoldInv, ShapeOK', NEW r \in Requests, Disconnect(r) \/ ClientStep(r)
  PROVE  Books' /\ Held' = Held /\ Line' = Line
<1> USE DEF HoldInv, Books
<1>1. UNCHANGED <<active, queued, loop, down>>
  BY DEF Disconnect, ClientStep, GiveUp, ReadAdmission, Abandon, ServeEnd, schedVars
<1>2. Line' = Line /\ LoopOK'
  BY <1>1 DEF Line, LoopOK, Phase, PhaseOf
<1>3. \A x \in Requests : x # r => client'[x] = client[x]
  BY DEF Disconnect, ClientStep, GiveUp, ReadAdmission, Abandon, ServeEnd, ShapeOK
<1>4. \/ client'[r] = client[r]
      \/ client'[r] \in {"waiting", "cancelling", "done"}
      \/ client[r] = "serving"
  BY DEF Disconnect, ClientStep, GiveUp, ReadAdmission, Abandon, ServeEnd, ShapeOK
<1>5. ~down /\ client[r] \in {"admitted", "waiting", "cancelling"} =>
          client'[r] \in {"admitted", "waiting", "cancelling"}
  BY DEF Disconnect, ClientStep, GiveUp, ReadAdmission, Abandon, ServeEnd, ShapeOK
<1>6. ~down => \A x \in Held : client'[x] \in {"admitted", "waiting", "cancelling"}
  BY <1>3, <1>5, HeldCallers DEF Known
<1>7. \A x \in Requests : client'[x] \in {"serving", "served"} => x \in Known
  BY <1>3, <1>4 DEF CallersOK
<1> QED
  BY <1>1, <1>2, <1>6, <1>7, BooksStay

\* The swaps and the processes leave the scheduler alone.
LEMMA OtherHold ==
  ASSUME HoldInv, ShapeOK', UNCHANGED <<active, queued, loop, client, down>>
  PROVE  Books' /\ Held' = Held /\ Line' = Line
<1>1. Line' = Line /\ LoopOK'
  BY DEF HoldInv, Books, Line, LoopOK, Phase, PhaseOf
<1> QED
  BY <1>1, HeldCallers, BooksStay DEF HoldInv, Books, CallersOK

-----------------------------------------------------------------------------
(* Every step is one of five movements of the books.                       *)

\* The requests that run a handler or have not reported its end.
Running == {r \in Requests : client[r] \in {"serving", "served"}}

Kept ==
    /\ UNCHANGED <<reserved, inFlight>> /\ Held' = Held
    /\ ~down' => Running' = Running

Entered(r) ==
    /\ r \notin Held /\ Held' = Held \cup {r}
    /\ reserved[ModelOf[r]] < Limit[ModelOf[r]]
    /\ reserved' = [reserved EXCEPT ![ModelOf[r]] = @ + 1]
    /\ UNCHANGED inFlight /\ Running' = Running

Left(r) ==
    /\ r \in Held /\ Held' = Held \ {r}
    /\ Release(ModelOf[r])
    /\ UNCHANGED inFlight /\ Running' = Running

Granted(r) ==
    /\ r \in Held /\ Held' = Held \ {r}
    /\ inFlight' = [inFlight EXCEPT ![ModelOf[r]] = @ + 1]
    /\ UNCHANGED reserved
    /\ r \notin Running /\ Running' = Running \cup {r}

Finished(r) ==
    /\ Held' = Held /\ ~down
    /\ Release(ModelOf[r])
    /\ inFlight' = [inFlight EXCEPT ![ModelOf[r]] = @ - 1]
    /\ r \in Running /\ Running' = Running \ {r}

Movement == Kept \/ \E r \in Known : Entered(r) \/ Left(r) \/ Granted(r) \/ Finished(r)

\* The counters move with the places, one step of the proof per group of actions.
LEMMA NextMovement ==
  ASSUME HoldInv, ShapeOK', [Next]_vars
  PROVE  Books' /\ Movement
<1>1. ASSUME NEW r \in Requests, OnRequest(r) PROVE Books' /\ Movement
  <2>1. UNCHANGED inFlight /\ client[r] = "new"
    BY <1>1 DEF OnRequest, Refuse, Admit, schedVars
  <2>2. \A x \in Requests : x # r => client'[x] = client[x]
    BY <1>1 DEF OnRequest, Refuse, Admit, HoldInv, ShapeOK
  <2>3. client'[r] \in {"sent", "refused", "admitted"}
    BY <1>1 DEF OnRequest, Refuse, Admit, HoldInv, ShapeOK
  <2>4. Running' = Running
    BY <2>1, <2>2, <2>3 DEF Running
  <2> QED
    BY <1>1, <2>1, <2>4, OnRequestHold DEF Movement, Kept, Entered
<1>2. ASSUME NEW r \in Requests, OnCancel(r) PROVE Books' /\ Movement
  <2>1. UNCHANGED inFlight /\ client[r] = "cancelling"
    BY <1>2 DEF OnCancel
  <2>2. \A x \in Requests : client'[x] = IF x = r THEN "done" ELSE client[x]
    BY <1>2 DEF OnCancel, HoldInv, ShapeOK
  <2>3. Running' = Running
    BY <2>1, <2>2 DEF Running
  <2>4. Held \subseteq Known
    BY HeldCallers DEF HoldInv
  <2> QED
    BY <1>2, <2>1, <2>3, <2>4, OnCancelHold DEF Movement, Kept, Left, Release
<1>3. ASSUME NEW r \in Requests, OnServeDone(r) PROVE Books' /\ Movement
  <2>1. Books' /\ Held' = Held
    BY <1>3, OnServeDoneHold
  <2>2. ~down
    BY <1>3 DEF OnServeDone, HoldInv, Books, LoopOK, Phase, PhaseOf
  <2>3. client[r] = "served" /\ r \in Known
    BY <1>3 DEF OnServeDone, HoldInv, Books, CallersOK
  <2>4. \A x \in Requests : client'[x] = IF x = r THEN "done" ELSE client[x]
    BY <1>3 DEF OnServeDone, HoldInv, ShapeOK
  <2>5. r \in Running /\ Running' = Running \ {r}
    BY <2>3, <2>4 DEF Running
  <2> QED
    BY <1>3, <2>1, <2>2, <2>3, <2>5 DEF Movement, Finished, OnServeDone
<1>4. ASSUME NEW r \in Requests, GrantHandler(r) \/ GrantError(r) PROVE Books' /\ Movement
  <2>1. Books' /\ r \in Known /\ r \in Held /\ Held' = Held \ {r}
    BY <1>4, GrantHold
  <2>2. CASE GrantLands(r)
    <3>1. \A x \in Requests : client'[x] = IF x = r THEN "serving" ELSE client[x]
      BY <2>2 DEF GrantLands, HoldInv, ShapeOK
    <3>2. r \notin Running /\ Running' = Running \cup {r}
      BY <2>2, <3>1 DEF GrantLands, Running
    <3> QED
      BY <2>1, <2>2, <3>2 DEF GrantLands, Movement, Granted
  <2>3. CASE Release(ModelOf[r]) /\ UNCHANGED inFlight /\ (UNCHANGED client \/ (client[r] = "waiting" /\ client' = [client EXCEPT ![r] = "done"]))
    <3>1. Running' = Running
      BY <2>3 DEF Running, HoldInv, ShapeOK
    <3> QED
      BY <2>1, <2>3, <3>1 DEF Movement, Left
  <2> QED
    BY <1>4, <2>2, <2>3 DEF GrantHandler, GrantIsLost, GrantError
<1>5. ASSUME UNCHANGED <<reserved, inFlight, client>>, Books', Held' = Held PROVE Books' /\ Movement
  BY <1>5 DEF Movement, Kept, Running
<1>6. ASSUME NEW g \in Requests, OnSwapDone(g) PROVE Books' /\ Movement
  BY <1>5, <1>6, OnSwapDoneHold DEF OnSwapDone
<1>7. ASSUME DrainQueue \/ SweepQueue \/ \E m \in Models : JoinSwap(m) PROVE Books' /\ Movement
  BY <1>5, <1>7, DrainQueueHold, SweepQueueHold, JoinSwapHold DEF DrainQueue, SweepQueue, JoinSwap
<1>8. ASSUME \/ DrainEnd \/ CancelEnd \/ SweepEnd \/ StopEnd \/ OnShutdown
             \/ \E m \in Models : CancelSwap(m) \/ StopReturns(m)
             \/ \E T \in Unloads : OnUnload(T)
      PROVE  Books' /\ Movement
  <2>1. UNCHANGED <<reserved, inFlight, client>>
    BY <1>8 DEF DrainEnd, CancelEnd, SweepEnd, StopEnd, OnShutdown, CancelSwap, StopReturns, OnUnload,
       schedVars
  <2> QED
    BY <1>5, <1>8, <2>1, PhaseHold
<1>9. ASSUME NEW r \in Requests, Disconnect(r) \/ ClientStep(r) PROVE Books' /\ Movement
  <2>1. UNCHANGED <<reserved, inFlight, down>>
    BY <1>9 DEF Disconnect, ClientStep, GiveUp, ReadAdmission, Abandon, ServeEnd, schedVars
  <2>2. \A x \in Requests : x # r => client'[x] = client[x]
    BY <1>9 DEF Disconnect, ClientStep, GiveUp, ReadAdmission, Abandon, ServeEnd, HoldInv, ShapeOK
  <2>3. ~down => (client'[r] \in {"serving", "served"} <=> client[r] \in {"serving", "served"})
    BY <1>9 DEF Disconnect, ClientStep, GiveUp, ReadAdmission, Abandon, ServeEnd, HoldInv, ShapeOK
  <2>4. ~down' => Running' = Running
    BY <2>1, <2>2, <2>3 DEF Running
  <2> QED
    BY <1>9, <2>1, <2>4, ClientHold DEF Movement, Kept
<1>10. ASSUME UNCHANGED <<schedVars, loop, client, down>> PROVE Books' /\ Movement
  BY <1>5, <1>10, OtherHold DEF schedVars
<1>11. ASSUME NEW g \in Requests, SwapStep(g) PROVE Books' /\ Movement
  BY <1>10, <1>11 DEF SwapStep, SwapGate, SwapStopped, EnsureReady, SwapCancelled, SwapStopReturns
<1>12. ASSUME NEW m \in Models, ProcessStep(m) \/ Vanish(m) PROVE Books' /\ Movement
  BY <1>10, <1>12 DEF ProcessStep, StartResult, AbortStart, BeginStop, EndStop, Vanish
<1>13. ASSUME UNCHANGED vars PROVE Books' /\ Movement
  BY <1>10, <1>13 DEF vars, schedVars
<1>14. ASSUME LoopStep PROVE Books' /\ Movement
  BY <1>4, <1>7, <1>8, <1>14 DEF LoopStep
<1> QED
  BY <1>1, <1>2, <1>3, <1>6, <1>8, <1>9, <1>11, <1>12, <1>13, <1>14 DEF Next, LoopEvent

-----------------------------------------------------------------------------
(* Counting.                                                               *)

For(S, m) == {r \in S : ModelOf[r] = m}

\* How many requests of a set are for a model, when one comes or goes.
LEMMA CountFor ==
  ASSUME NEW S \in SUBSET Requests, NEW m
  PROVE  /\ IsFiniteSet(For(S, m)) /\ Cardinality(For(S, m)) \in Nat
         /\ \A r \in Requests \ S : Cardinality(For(S \cup {r}, m)) =
                IF ModelOf[r] = m THEN Cardinality(For(S, m)) + 1 ELSE Cardinality(For(S, m))
         /\ \A r \in S : /\ Cardinality(For(S \ {r}, m)) =
                                IF ModelOf[r] = m THEN Cardinality(For(S, m)) - 1
                                ELSE Cardinality(For(S, m))
                         /\ ModelOf[r] = m => Cardinality(For(S, m)) > 0
<1>1. IsFiniteSet(For(S, m)) /\ Cardinality(For(S, m)) \in Nat
  <2>1. For(S, m) \in SUBSET Requests
    BY DEF For
  <2> QED
    BY <2>1, RequestsAssumption, FS_Subset, FS_CardinalityType
<1>2. ASSUME NEW r \in Requests \ S
      PROVE  Cardinality(For(S \cup {r}, m)) =
                IF ModelOf[r] = m THEN Cardinality(For(S, m)) + 1 ELSE Cardinality(For(S, m))
  <2>1. For(S \cup {r}, m) = IF ModelOf[r] = m THEN For(S, m) \cup {r} ELSE For(S, m)
    BY DEF For
  <2>2. r \notin For(S, m)
    BY DEF For
  <2> QED
    BY <1>1, <2>1, <2>2, FS_AddElement
<1>3. ASSUME NEW r \in S
      PROVE  /\ Cardinality(For(S \ {r}, m)) =
                    IF ModelOf[r] = m THEN Cardinality(For(S, m)) - 1 ELSE Cardinality(For(S, m))
             /\ ModelOf[r] = m => Cardinality(For(S, m)) > 0
  <2>2. ModelOf[r] = m => r \in For(S, m)
    BY DEF For
  <2>3. ModelOf[r] = m => Cardinality(For(S, m)) # 0
    BY <1>1, <2>2, FS_EmptySet
  <2>4. r \in For(S, m) => Cardinality(For(S, m) \ {r}) = Cardinality(For(S, m)) - 1
    BY <1>1, FS_RemoveElement
  <2>5. Cardinality(For(S, m)) \in Nat
    BY <1>1
  <2>6. CASE ModelOf[r] = m
    <3>1. For(S \ {r}, m) = For(S, m) \ {r}
      BY <2>6 DEF For
    <3>2. Cardinality(For(S \ {r}, m)) = Cardinality(For(S, m)) - 1
      BY <2>2, <2>4, <2>6, <3>1
    <3>3. Cardinality(For(S, m)) > 0
      BY <2>3, <2>5, <2>6
    <3> QED
      BY <2>6, <3>2, <3>3
  <2>7. CASE ModelOf[r] # m
    <3>1. For(S \ {r}, m) = For(S, m)
      BY <2>7 DEF For
    <3> QED
      BY <2>7, <3>1
  <2> QED
    BY <2>6, <2>7
<1> QED
  BY <1>1, <1>2, <1>3

\* The counters in terms of the two sets.
LEMMA CountsAre ==
  /\ CountsOK <=> /\ inFlight \in [Models -> Nat]
                  /\ \A m \in Models : /\ reserved[m] = Cardinality(For(Held, m)) + inFlight[m]
                                       /\ reserved[m] <= Limit[m]
                                       /\ ~down => inFlight[m] = Cardinality(For(Running, m))
  /\ CountsOK' <=> /\ inFlight' \in [Models -> Nat]
                   /\ \A m \in Models : /\ reserved'[m] = Cardinality(For(Held', m)) + inFlight'[m]
                                        /\ reserved'[m] <= Limit[m]
                                        /\ ~down' => inFlight'[m] = Cardinality(For(Running', m))
<1>1. \A m : HeldFor(m) = For(Held, m) /\ Busy(m) = For(Running, m)
  BY DEF HeldFor, For, Busy, Running
<1>2. \A m : HeldFor(m)' = For(Held', m) /\ Busy(m)' = For(Running', m)
  BY DEF HeldFor, For, Busy, Running
<1>3. CountsOK <=> /\ inFlight \in [Models -> Nat]
                   /\ \A m \in Models : /\ reserved[m] = Cardinality(For(Held, m)) + inFlight[m]
                                        /\ reserved[m] <= Limit[m]
                                        /\ ~down => inFlight[m] = Cardinality(For(Running, m))
  BY <1>1 DEF CountsOK, ReservationsBalance, InFlightExact
<1>4. CountsOK' <=> /\ inFlight' \in [Models -> Nat]
                    /\ \A m \in Models : /\ reserved'[m] = Cardinality(For(Held', m)) + inFlight'[m]
                                         /\ reserved'[m] <= Limit[m]
                                         /\ ~down' => inFlight'[m] = Cardinality(For(Running', m))
  BY <1>2 DEF CountsOK, ReservationsBalance, InFlightExact
<1> QED
  BY <1>3, <1>4

\* Whoever reports the end of a handler was counted in flight.
LEMMA FinishedCounted ==
  ASSUME CountsOK, ~down, NEW r \in Running, ModelOf[r] \in Models
  PROVE  inFlight[ModelOf[r]] \in Nat /\ inFlight[ModelOf[r]] > 0
<1> DEFINE m == ModelOf[r]
<1>1. inFlight[m] \in Nat /\ inFlight[m] = Cardinality(For(Running, m))
  BY CountsAre
<1>2. Running \in SUBSET Requests
  BY DEF Running
<1> HIDE DEF m
<1>3. m = ModelOf[r] => Cardinality(For(Running, m)) > 0
  BY <1>2, CountFor
<1> QED
  BY <1>1, <1>3 DEF m

\* Every movement keeps the counters exact.
LEMMA MovementCounts ==
  ASSUME HoldInv, ShapeOK', CountsOK, Movement, down => down'
  PROVE  CountsOK'
<1>1. /\ Held \in SUBSET Requests /\ Running \in SUBSET Requests /\ Known \subseteq Requests
      /\ Held \subseteq Known
  BY HeldCallers DEF HoldInv, Running, Known
<1>2. /\ reserved \in [Models -> Int] /\ inFlight \in [Models -> Nat]
      /\ reserved' \in [Models -> Int] /\ inFlight' \in [Models -> Int]
      /\ Limit \in [Models -> Int]
  BY CountsAre, ConfigAssumption DEF HoldInv, ShapeOK
<1>3. SUFFICES ASSUME NEW m \in Models
               PROVE  /\ inFlight'[m] >= 0
                      /\ reserved'[m] = Cardinality(For(Held', m)) + inFlight'[m]
                      /\ reserved'[m] <= Limit[m]
                      /\ ~down' => inFlight'[m] = Cardinality(For(Running', m))
  BY <1>2, CountsAre
<1> DEFINE h == Cardinality(For(Held, m))
           b == Cardinality(For(Running, m))
<1>4. h \in Nat /\ b \in Nat
  BY <1>1, CountFor
<1>5. /\ reserved[m] = h + inFlight[m] /\ reserved[m] <= Limit[m] /\ (~down => inFlight[m] = b)
  BY CountsAre
<1>6. CASE Kept
  BY <1>2, <1>5, <1>6 DEF Kept
<1>7. ASSUME NEW r \in Known, Entered(r) \/ Left(r) \/ Granted(r) \/ Finished(r)
      PROVE  /\ inFlight'[m] >= 0
             /\ reserved'[m] = Cardinality(For(Held', m)) + inFlight'[m]
             /\ reserved'[m] <= Limit[m]
             /\ ~down' => inFlight'[m] = Cardinality(For(Running', m))
  <2> DEFINE n == ModelOf[r]
  <2>1. n \in Models /\ r \in Requests
    BY DEF Known
  <2>2. /\ r \notin Held => Cardinality(For(Held \cup {r}, m)) = IF n = m THEN h + 1 ELSE h
        /\ r \in Held => Cardinality(For(Held \ {r}, m)) = IF n = m THEN h - 1 ELSE h
    BY <1>1, <2>1, CountFor
  <2>3. /\ r \notin Running => Cardinality(For(Running \cup {r}, m)) = IF n = m THEN b + 1 ELSE b
        /\ r \in Running => Cardinality(For(Running \ {r}, m)) = IF n = m THEN b - 1 ELSE b
    BY <1>1, <2>1, CountFor
  <2>4. ~down /\ r \in Running => inFlight[n] > 0
    BY <2>1, FinishedCounted
  <2> HIDE DEF n, h, b
  <2>5. CASE Entered(r)
    <3>1. reserved'[m] = IF n = m THEN reserved[m] + 1 ELSE reserved[m]
      BY <1>2, <2>1, <2>5 DEF Entered, n
    <3>2. n = m => reserved[m] < Limit[m]
      BY <2>5 DEF Entered, n
    <3>3. Cardinality(For(Held', m)) = IF n = m THEN h + 1 ELSE h
      BY <2>2, <2>5 DEF Entered
    <3>4. inFlight' = inFlight /\ Cardinality(For(Running', m)) = b
      BY <2>5 DEF Entered, b
    <3> QED
      BY <1>2, <1>4, <1>5, <3>1, <3>2, <3>3, <3>4
  <2>6. CASE Left(r)
    <3>1. reserved'[m] = IF n = m THEN reserved[m] - 1 ELSE reserved[m]
      BY <1>2, <2>1, <2>6 DEF Left, Release, n
    <3>2. Cardinality(For(Held', m)) = IF n = m THEN h - 1 ELSE h
      BY <2>2, <2>6 DEF Left
    <3>3. inFlight' = inFlight /\ Cardinality(For(Running', m)) = b
      BY <2>6 DEF Left, b
    <3> QED
      BY <1>2, <1>4, <1>5, <3>1, <3>2, <3>3
  <2>7. CASE Granted(r)
    <3>1. inFlight'[m] = IF n = m THEN inFlight[m] + 1 ELSE inFlight[m]
      BY <1>2, <2>1, <2>7 DEF Granted, n
    <3>2. Cardinality(For(Held', m)) = IF n = m THEN h - 1 ELSE h
      BY <2>2, <2>7 DEF Granted
    <3>3. reserved' = reserved /\ Cardinality(For(Running', m)) = IF n = m THEN b + 1 ELSE b
      BY <2>3, <2>7 DEF Granted
    <3> QED
      BY <1>2, <1>4, <1>5, <3>1, <3>2, <3>3
  <2>8. CASE Finished(r)
    <3>1. /\ inFlight'[m] = IF n = m THEN inFlight[m] - 1 ELSE inFlight[m]
          /\ reserved'[m] = IF n = m THEN reserved[m] - 1 ELSE reserved[m]
      BY <1>2, <2>1, <2>8 DEF Finished, Release, n
    <3>2. Cardinality(For(Held', m)) = h /\ ~down /\ r \in Running
      BY <2>8 DEF Finished, h
    <3>3. Cardinality(For(Running', m)) = IF n = m THEN b - 1 ELSE b
      BY <2>3, <2>8 DEF Finished
    <3> QED
      BY <1>2, <1>4, <1>5, <2>4, <3>1, <3>2, <3>3
  <2> QED
    BY <1>7, <2>5, <2>6, <2>7, <2>8
<1> QED
  BY <1>6, <1>7 DEF Movement

\* At the start nothing is held, reserved or in flight.
LEMMA InitBooks == Init => HoldInv /\ CountsOK
<1> SUFFICES ASSUME Init PROVE HoldInv /\ CountsOK
  OBVIOUS
<1>1. ShapeOK
  BY InitShape
<1>2. /\ loop.at = "select" /\ loop.fanout = {} /\ loop.pending = << >> /\ loop.targets = {}
      /\ queued = << >> /\ ~down
  BY DEF Init
<1>3. Line = << >> /\ ToSet(Line) = {} /\ NoRepeat(Line)
  BY <1>2 DEF Line, ToSet, NoRepeat
<1>4. Waiters = {} /\ WaitersOK
  BY DEF Init, Waiters, WaitersOK, Active, Idle
<1>5. Held = {} /\ Running = {}
  BY <1>1, <1>2, <1>3, <1>4, HeldIs DEF Running, Init
<1>6. LoopOK /\ PlacesOK /\ CallersOK
  BY <1>2, <1>3, <1>4 DEF Init, LoopOK, PlacesOK, CallersOK, Phase, PhaseOf
<1>7. CountsOK
  <2>1. \A m : For({}, m) = {}
    BY DEF For
  <2>2. /\ inFlight = [m \in Models |-> 0] /\ reserved = [m \in Models |-> 0]
        /\ \A m \in Models : Limit[m] \in Nat \ {0}
    BY ConfigAssumption DEF Init
  <2> QED
    BY <1>5, <2>1, <2>2, FS_EmptySet, CountsAre
<1> QED
  BY <1>1, <1>4, <1>6, <1>7 DEF HoldInv, Books

-----------------------------------------------------------------------------
(* Theorems.                                                               *)

AccountsInv == HoldInv /\ CountsOK

\* Every step keeps the places, the callers and the counters.
LEMMA NextAccounts == AccountsInv /\ [Next]_vars => AccountsInv'
<1> SUFFICES ASSUME AccountsInv, [Next]_vars PROVE AccountsInv'
  OBVIOUS
<1>1. ShapeOK'
  BY NextShape DEF AccountsInv, HoldInv
<1>2. Books' /\ Movement
  BY <1>1, NextMovement DEF AccountsInv
<1>3. down => down'
  BY DEF Next, Disconnect, ClientStep, GiveUp, ReadAdmission, Abandon, ServeEnd, LoopEvent, OnRequest,
     OnCancel, OnServeDone, OnSwapDone, SwapStep, SwapGate, SwapStopped, EnsureReady, SwapCancelled,
     SwapStopReturns, LoopStep, GrantHandler, GrantError, DrainQueue, DrainEnd, CancelSwap, JoinSwap,
     StopReturns, CancelEnd, SweepQueue, SweepEnd, StopEnd, OnUnload, OnShutdown, ProcessStep, StartResult,
     AbortStart, BeginStop, EndStop, Vanish, vars
<1>4. CountsOK'
  BY <1>1, <1>2, <1>3, MovementCounts DEF AccountsInv
<1> QED
  BY <1>1, <1>2, <1>4 DEF AccountsInv, HoldInv

\* Every request is held in one place, its caller is parked, and the counters
\* say exactly what is held and what is being served, for any policy.
THEOREM AccountsInvariant == Spec => []AccountsInv
  BY InitBooks, NextAccounts, PTL DEF Spec, AccountsInv

\* The accounts of the scheduler: one place for every request, reservations
\* that balance, and an exact count of the handlers in flight (fifo.go,
\* release; base.go, GrantServe).
THEOREM AccountsExact == Spec => []RouterAccounts
<1>1. ASSUME AccountsInv PROVE RouterAccounts
  <2>1. Held = ToSet(Line) \cup Waiters \cup loop.fanout
    BY <1>1, HeldIs DEF AccountsInv, HoldInv
  <2>2. ToSet(Line) = ToSet(queued) \cup ToSet(loop.pending)
    BY <1>1, LineType DEF AccountsInv, HoldInv
  <2>3. ~down => \A r \in Held : client[r] \in {"admitted", "waiting", "cancelling"}
    BY <1>1, HeldCallers DEF AccountsInv, HoldInv, Books
  <2>4. \A i, j \in 1..Len(queued \o loop.pending) :
            (queued \o loop.pending)[i] = (queued \o loop.pending)[j] => i = j
    BY <1>1 DEF AccountsInv, HoldInv, Books, PlacesOK, NoRepeat, Line
  <2>5. /\ Waiters \cap (ToSet(queued) \cup ToSet(loop.pending) \cup loop.fanout) = {}
        /\ loop.fanout \cap (ToSet(queued) \cup ToSet(loop.pending)) = {}
    BY <1>1, <2>2 DEF AccountsInv, HoldInv, Books, PlacesOK
  <2>6. HeldOnce
    BY <1>1, <2>3, <2>4, <2>5 DEF HeldOnce, AccountsInv, HoldInv, Books, WaitersOK
  <2> QED
    BY <1>1, <2>6 DEF RouterAccounts, AccountsInv, CountsOK
<1> QED
  BY <1>1, AccountsInvariant, PTL

\* Neither counter is ever negative: release never panics (fifo.go, release).
THEOREM RouterTypes == Spec => []TypeOK
<1>1. ASSUME AccountsInv PROVE TypeOK
  <2>1. Held \in SUBSET Requests
    BY <1>1, HeldCallers DEF AccountsInv, HoldInv, Known
  <2>2. \A m \in Models : reserved[m] \in Nat
    <3> SUFFICES ASSUME NEW m \in Models PROVE reserved[m] \in Nat
      OBVIOUS
    <3>1. Cardinality(For(Held, m)) \in Nat
      BY <2>1, CountFor
    <3>2. inFlight[m] \in Nat /\ reserved[m] = Cardinality(For(Held, m)) + inFlight[m]
      BY <1>1, CountsAre DEF AccountsInv
    <3> QED
      BY <3>1, <3>2
  <2> QED
    BY <1>1, <2>2 DEF TypeOK, AccountsInv, HoldInv, ShapeOK, CountsOK
<1> QED
  BY <1>1, AccountsInvariant, PTL
=============================================================================
