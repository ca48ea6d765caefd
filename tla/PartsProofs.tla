------------------------------ MODULE PartsProofs ------------------------------
(***************************************************************************)
(* The parts of module Parts, for any values of their constants, but for   *)
(* those a request goes through, which are in module RequestPartsProofs.   *)
(* Each part has an inductive invariant of its own, named for the part,    *)
(* and a theorem about its own specification; at the end they run side by  *)
(* side.                                                                   *)
(***************************************************************************)
EXTENDS Parts, FiniteSetTheorems, SequenceTheorems, TLAPS

-----------------------------------------------------------------------------
(* The performance monitor.                                                *)

RunOrNone == Perf!Runs \union {Perf!None}
Active == {"start", "forward", "wait"}
Buffers == UNION {[0..(n - 1) -> Nat] : n \in Nat \ {0}}

MonitorTypes ==
  /\ monConf \in MonitorConfigs
  /\ monLive \in BOOLEAN
  /\ monRun \in RunOrNone
  /\ monUpdate \in [at : {"none", "stop", "set", "start"}, conf : MonitorConfigs]
  /\ stopped \subseteq Perf!Runs
  /\ sampler \in [Perf!Runs -> [at : {"none", "loop", "select", "push", "over"}, ctx : RunOrNone]]
  /\ collector \in [Perf!Runs -> Active \union {"none", "over"}]

\* Whoever still goes on belongs to the run that is on, or to one that is
\* cancelled; a monitor that is not live has cancelled its last run.
RunsOrdered ==
  /\ monLive => monRun # Perf!None
  /\ ~monLive => monRun = Perf!None \/ monRun \in stopped
  /\ \A r \in Perf!Runs :
       /\ sampler[r].at # "none" => monRun # Perf!None
       /\ sampler[r].at = "select" => sampler[r].ctx = monRun \/ sampler[r].ctx \in stopped
       /\ collector[r] \in Active => monRun # Perf!None /\ (r = monRun \/ r \in stopped)

\* A buffer b of c places shows the last s of what was pushed, p, the oldest at h.
Shows(b, c, h, s, p) ==
  /\ s = IF Len(p) < c THEN Len(p) ELSE c
  /\ \A i \in 1..s : b[IF h + i - 1 < c THEN h + i - 1 ELSE h + i - 1 - c] = p[Len(p) - s + i]

RingTypes ==
  /\ ring \in [buf : Buffers, cap : Nat \ {0}, head : Nat, size : Nat]
  /\ ring.buf \in [0..(ring.cap - 1) -> Nat]
  /\ pushed \in Seq(Nat) /\ samples \in Nat

RingKept ==
  /\ ring.head < ring.cap /\ (ring.size < ring.cap => ring.head = 0)
  /\ Shows(ring.buf, ring.cap, ring.head, ring.size, pushed)

PerfInv == MonitorTypes /\ RunsOrdered /\ RingTypes /\ RingKept

\* The remainder of what is less than twice the divisor.
LEMMA Remainder ==
  ASSUME NEW c \in Nat \ {0}, NEW x \in Nat, x < 2 * c
  PROVE  x % c = IF x < c THEN x ELSE x - c
<1>1. CASE x < c
  <2>1. x \in 0..(c - 1)
    BY <1>1
  <2>2. x % c = x
    BY <2>1, SMT
  <2> QED
    BY <1>1, <2>2
<1>2. CASE ~(x < c)
  <2>1. x \in c..(2 * c - 1)
    BY <1>2
  <2>2. x % c = x - c
    BY <2>1, SMT
  <2> QED
    BY <1>2, <2>2
<1> QED
  BY <1>1, <1>2

\* A new ring is empty, whatever capacity it is asked for.
LEMMA NewRing ==
  ASSUME NEW capacity \in Int, NEW r, r = Perf!NewBuffer(capacity)
  PROVE  /\ r \in [buf : Buffers, cap : Nat \ {0}, head : Nat, size : Nat]
         /\ r.buf \in [0..(r.cap - 1) -> Nat]
         /\ r.head = 0 /\ r.size = 0
<1> DEFINE n == IF capacity < 1 THEN 1 ELSE capacity
<1>1. n \in Nat \ {0}
  OBVIOUS
<1>2. r = [buf |-> [i \in 0..(n - 1) |-> 0], cap |-> n, head |-> 0, size |-> 0]
  BY DEF Perf!NewBuffer, Perf!None
<1> HIDE DEF n
<1>3. [i \in 0..(n - 1) |-> 0] \in [0..(n - 1) -> Nat]
  OBVIOUS
<1>4. [i \in 0..(n - 1) |-> 0] \in Buffers
  BY <1>1, <1>3 DEF Buffers
<1> QED
  BY <1>1, <1>2, <1>3, <1>4

LEMMA RingStarts ==
  ASSUME NEW r, NEW capacity \in Int, r = Perf!NewBuffer(capacity), ring' = r, pushed' = <<>>,
         samples' \in Nat
  PROVE  RingTypes' /\ RingKept'
<1>1. /\ r \in [buf : Buffers, cap : Nat \ {0}, head : Nat, size : Nat]
      /\ r.buf \in [0..(r.cap - 1) -> Nat]
      /\ r.head = 0 /\ r.size = 0
  BY NewRing
<1>2. pushed' \in Seq(Nat) /\ Len(pushed') = 0
  OBVIOUS
<1>3. RingTypes'
  BY <1>1, <1>2 DEF RingTypes
<1>4. ring'.head = 0 /\ ring'.size = 0 /\ ring'.cap \in Nat \ {0}
  BY <1>1
<1> QED
  BY <1>2, <1>3, <1>4 DEF RingKept, Shows

\* Push: the next free place, or that of the oldest sample.
LEMMA PushFree ==
  ASSUME NEW r \in [buf : Buffers, cap : Nat \ {0}, head : Nat, size : Nat], NEW v,
         r.size < r.cap, r.head = 0
  PROVE  Perf!Push(r, v) =
           [buf |-> [r.buf EXCEPT ![r.size] = v], cap |-> r.cap, head |-> 0, size |-> r.size + 1]
<1>1. r.cap \in Nat \ {0} /\ r.size \in Nat /\ r.head + r.size = r.size /\ r.size < 2 * r.cap
  OBVIOUS
<1>2. (r.head + r.size) % r.cap = r.size
  <2>1. r.size % r.cap = IF r.size < r.cap THEN r.size ELSE r.size - r.cap
    BY <1>1, Remainder, Zenon
  <2> QED
    BY <1>1, <2>1
<1>3. Perf!Push(r, v) = [r EXCEPT !.buf[r.size] = v, !.size = r.size + 1]
  BY <1>2 DEF Perf!Push
<1> QED
  BY <1>3

LEMMA PushFull ==
  ASSUME NEW r \in [buf : Buffers, cap : Nat \ {0}, head : Nat, size : Nat], NEW v,
         ~(r.size < r.cap), r.head < r.cap
  PROVE  Perf!Push(r, v) =
           [buf |-> [r.buf EXCEPT ![r.head] = v], cap |-> r.cap,
            head |-> IF r.head + 1 < r.cap THEN r.head + 1 ELSE 0, size |-> r.size]
<1> DEFINE next == IF r.head + 1 < r.cap THEN r.head + 1 ELSE 0
<1>1. r.cap \in Nat \ {0} /\ r.head + 1 \in Nat /\ r.head + 1 < 2 * r.cap
  OBVIOUS
<1>2. (r.head + 1) % r.cap = next
  <2>1. PICK x \in Nat : x = r.head + 1
    BY <1>1
  <2>2. x % r.cap = IF x < r.cap THEN x ELSE x - r.cap
    BY <1>1, <2>1, Remainder
  <2>3. (IF r.head + 1 < r.cap THEN r.head + 1 ELSE r.head + 1 - r.cap) = next
    OBVIOUS
  <2> QED
    BY <2>1, <2>3, <2>2
<1> HIDE DEF next
<1>3. Perf!Push(r, v) = [r EXCEPT !.buf[r.head] = v, !.head = next]
  BY <1>2 DEF Perf!Push
<1>4. Perf!Push(r, v) = [buf |-> [r.buf EXCEPT ![r.head] = v], cap |-> r.cap, head |-> next,
                         size |-> r.size]
  BY <1>3
<1> QED
  BY <1>4 DEF next

LEMMA PushKeeps ==
  ASSUME RingTypes, RingKept, NEW v \in Nat, ring' = Perf!Push(ring, v), pushed' = Append(pushed, v),
         samples' \in Nat
  PROVE  RingTypes' /\ RingKept'
<1> DEFINE b == ring.buf
           c == ring.cap
           h == ring.head
           s == ring.size
           place == IF s < c THEN s ELSE h
           next == IF s < c THEN 0 ELSE IF h + 1 < c THEN h + 1 ELSE 0
           grown == IF s < c THEN s + 1 ELSE s
           d == [b EXCEPT ![place] = v]
           n == Len(pushed)
           p == pushed
           q == Append(pushed, v)
<1>1. ring \in [buf : Buffers, cap : Nat \ {0}, head : Nat, size : Nat] /\ pushed \in Seq(Nat)
  BY DEF RingTypes
<1>2. c \in Nat \ {0} /\ h \in Nat /\ s \in Nat /\ b \in [0..(c - 1) -> Nat]
  BY DEF RingTypes
<1>3. h < c /\ (s < c => h = 0) /\ Shows(b, c, h, s, p)
  BY DEF RingKept
<1>4. ring' = [buf |-> d, cap |-> c, head |-> next, size |-> grown]
  <2>1. CASE s < c
    BY <1>1, <1>3, <2>1, PushFree
  <2>2. CASE ~(s < c)
    BY <1>1, <1>3, <2>2, PushFull
  <2> QED
    BY <2>1, <2>2
<1>5. n \in Nat
  BY <1>1
<1>6. q \in Seq(Nat) /\ Len(q) = n + 1 /\ q[n + 1] = v /\ \A i \in 1..n : q[i] = p[i]
  BY <1>1
<1>7. /\ s = IF n < c THEN n ELSE c
      /\ \A i \in 1..s : b[IF h + i - 1 < c THEN h + i - 1 ELSE h + i - 1 - c] = p[n - s + i]
  BY <1>3 DEF Shows
<1> HIDE DEF b, c, h, s, n, p, q
<1>8. /\ place = (IF s < c THEN s ELSE h)
      /\ next = (IF s < c THEN 0 ELSE IF h + 1 < c THEN h + 1 ELSE 0)
      /\ grown = (IF s < c THEN s + 1 ELSE s)
  OBVIOUS
<1>9. place \in 0..(c - 1) /\ next \in Nat /\ next < c /\ grown \in Nat /\ (grown < c => next = 0)
  BY <1>2, <1>3
<1> HIDE DEF place, next, grown
<1>10. d \in [0..(c - 1) -> Nat] /\ d[place] = v /\ \A k \in 0..(c - 1) : k # place => d[k] = b[k]
  BY <1>2, <1>9
<1> HIDE DEF d
<1>11. ASSUME s < c
      PROVE  Shows(d, c, next, grown, q)
  <2>1. s = n /\ h = 0 /\ place = n /\ next = 0 /\ Len(q) = s + 1
    BY <1>5, <1>6, <1>7, <1>11, <1>2, <1>3, <1>8
  <2>2. ASSUME NEW i \in 1..(s + 1)
        PROVE  d[IF 0 + i - 1 < c THEN 0 + i - 1 ELSE 0 + i - 1 - c] = q[(n + 1) - (s + 1) + i]
    <3>1. (IF 0 + i - 1 < c THEN 0 + i - 1 ELSE 0 + i - 1 - c) = i - 1 /\ (n + 1) - (s + 1) + i = i
      BY <1>5, <1>11, <2>1, <1>2, <1>3, <1>8
    <3>2. d[i - 1] = q[i]
      <4>1. CASE i = n + 1
        <5>1. i - 1 = place
          BY <1>5, <2>1, <4>1
        <5> QED
          BY <4>1, <5>1, <1>6, <1>10
      <4>2. CASE i # n + 1
        <5>1. i \in 1..n /\ i \in 1..s /\ i - 1 \in 0..(c - 1) /\ i - 1 # place
          BY <1>5, <1>11, <2>1, <4>2, <1>2, <1>3, <1>8
        <5>2. d[i - 1] = b[i - 1] /\ q[i] = p[i]
          BY <5>1, <1>6, <1>10
        <5>3. b[IF h + i - 1 < c THEN h + i - 1 ELSE h + i - 1 - c] = p[n - s + i]
          BY <5>1, <1>7
        <5>4. (IF h + i - 1 < c THEN h + i - 1 ELSE h + i - 1 - c) = i - 1 /\ n - s + i = i
          BY <1>5, <1>11, <2>1, <5>1, <1>2, <1>3, <1>8
        <5> QED
          BY <5>2, <5>3, <5>4
      <4> QED
        BY <4>1, <4>2
    <3> QED
      BY <3>1, <3>2
  <2>3. s + 1 = IF n + 1 < c THEN n + 1 ELSE c
    BY <1>5, <1>11, <2>1, <1>2, <1>3, <1>8
  <2>4. Shows(d, c, 0, s + 1, q)
    BY <1>6, <2>2, <2>3 DEF Shows
  <2> QED
    BY <2>1, <2>4, <1>11, <1>2, <1>3, <1>8
<1>12. ASSUME ~(s < c)
      PROVE  Shows(d, c, next, grown, q)
  <2>1. s = c /\ n >= c /\ place = h /\ next = IF h + 1 < c THEN h + 1 ELSE 0
    BY <1>5, <1>7, <1>12, <1>2, <1>3, <1>8
  <2>2. ASSUME NEW i \in 1..c
        PROVE  d[IF next + i - 1 < c THEN next + i - 1 ELSE next + i - 1 - c] = q[(n + 1) - c + i]
    <3>1. CASE i = c
      <4>1. (IF next + i - 1 < c THEN next + i - 1 ELSE next + i - 1 - c) = h
        BY <2>1, <3>1, <1>2, <1>3, <1>8
      <4>2. (n + 1) - c + i = n + 1
        BY <1>5, <3>1
      <4> QED
        BY <4>1, <4>2, <1>6, <1>10, <2>1
    <3>2. CASE i # c
      <4> DEFINE slot == IF h + (i + 1) - 1 < c THEN h + (i + 1) - 1 ELSE h + (i + 1) - 1 - c
      <4>1. slot \in 0..(c - 1) /\ slot # h /\ i + 1 \in 1..s
        BY <2>1, <3>2, <1>2, <1>3, <1>8
      <4>2. (IF next + i - 1 < c THEN next + i - 1 ELSE next + i - 1 - c) = slot
        BY <2>1, <3>2, <1>2, <1>3, <1>8
      <4>3. b[slot] = p[n - s + (i + 1)]
        BY <1>7, <4>1
      <4> HIDE DEF slot
      <4>4. d[slot] = b[slot]
        BY <4>1, <1>10, <2>1
      <4>5. n - s + (i + 1) \in 1..n /\ (n + 1) - c + i = n - s + (i + 1)
        BY <1>5, <2>1, <3>2, <1>2, <1>3, <1>8
      <4>6. q[n - s + (i + 1)] = p[n - s + (i + 1)]
        BY <4>5, <1>6
      <4> QED
        BY <4>2, <4>3, <4>4, <4>5, <4>6
    <3> QED
      BY <3>1, <3>2
  <2>3. c = IF n + 1 < c THEN n + 1 ELSE c
    BY <1>5, <2>1, <1>2, <1>3, <1>8
  <2>4. Shows(d, c, next, c, q)
    BY <1>6, <2>2, <2>3 DEF Shows
  <2> QED
    BY <2>1, <2>4, <1>12, <1>2, <1>3, <1>8
<1>13. Shows(d, c, next, grown, q)
  BY <1>11, <1>12, <1>2, <1>3, <1>8
<1>14. d \in Buffers
  BY <1>2, <1>10 DEF Buffers
<1>15. ring'.buf = d /\ ring'.cap = c /\ ring'.head = next /\ ring'.size = grown /\ pushed' = q
  BY <1>4 DEF q
<1>16. RingTypes'
  BY <1>2, <1>6, <1>9, <1>10, <1>14, <1>15, <1>4 DEF RingTypes
<1> QED
  BY <1>9, <1>13, <1>15, <1>16 DEF RingKept

LEMMA PerfStarts == Perf!Init => PerfInv
<1> SUFFICES ASSUME Perf!Init
             PROVE  PerfInv
  OBVIOUS
<1> USE DEF Perf!Init
<1>1. monConf \in MonitorConfigs /\ monConf.capacity \in Int
  BY ConfigsAssumption
<1>2. MonitorTypes
  BY <1>1 DEF MonitorTypes, RunOrNone, Active
<1>3. RunsOrdered
  BY DEF RunsOrdered, Active
<1>4. /\ ring \in [buf : Buffers, cap : Nat \ {0}, head : Nat, size : Nat]
      /\ ring.buf \in [0..(ring.cap - 1) -> Nat]
      /\ ring.head = 0 /\ ring.size = 0
  BY <1>1, NewRing
<1>5. pushed \in Seq(Nat) /\ Len(pushed) = 0
  OBVIOUS
<1>6. RingTypes
  BY <1>4, <1>5 DEF RingTypes
<1>7. ring.cap \in Nat \ {0}
  BY <1>4
<1>8. RingKept
  BY <1>4, <1>5, <1>7 DEF RingKept, Shows
<1> QED
  BY <1>2, <1>3, <1>6, <1>8 DEF PerfInv

\* Start: a run that was not there yet, and the one that is current is cancelled.
LEMMA StartKeeps ==
  ASSUME MonitorTypes, RunsOrdered, Perf!StartRun, UNCHANGED stopped
  PROVE  /\ monLive' \in BOOLEAN /\ monRun' \in RunOrNone
         /\ sampler' \in [Perf!Runs -> [at : {"none", "loop", "select", "push", "over"}, ctx : RunOrNone]]
         /\ collector' \in [Perf!Runs -> Active \union {"none", "over"}]
         /\ RunsOrdered'
<1>1. CASE monLive
  BY <1>1 DEF Perf!StartRun, Perf!goVars, MonitorTypes, RunsOrdered
<1>2. CASE ~monLive
  <2>1. PICK r \in Perf!Runs :
          /\ monLive' = TRUE /\ monRun' = r
          /\ sampler' = [sampler EXCEPT ![r].at = "loop"]
          /\ collector' = [collector EXCEPT ![r] = "start"]
    BY <1>2 DEF Perf!StartRun
  <2>2. r \in RunOrNone /\ r # Perf!None
    BY DEF RunOrNone, Perf!Runs, Perf!None
  <2>3. \A q \in Perf!Runs : sampler'[q] = IF q = r THEN [sampler[r] EXCEPT !.at = "loop"] ELSE sampler[q]
    BY <2>1 DEF MonitorTypes
  <2>4. \A q \in Perf!Runs : collector'[q] = IF q = r THEN "start" ELSE collector[q]
    BY <2>1 DEF MonitorTypes
  <2>5. sampler' \in [Perf!Runs -> [at : {"none", "loop", "select", "push", "over"}, ctx : RunOrNone]]
    BY <2>1 DEF MonitorTypes
  <2>6. collector' \in [Perf!Runs -> Active \union {"none", "over"}]
    BY <2>1 DEF MonitorTypes, Active
  <2>7. ASSUME NEW q \in Perf!Runs
        PROVE  /\ sampler'[q].at = "select" => sampler'[q].ctx \in stopped'
               /\ collector'[q] \in Active => q = r \/ q \in stopped'
    <3>1. sampler'[q].at = "select" => q # r /\ sampler[q].at = "select"
      BY <2>3 DEF MonitorTypes
    <3>2. sampler[q].at = "select" => sampler[q].ctx \in stopped
      BY <1>2 DEF RunsOrdered
    <3>3. sampler'[q].at = "select" => sampler'[q].ctx \in stopped'
      BY <3>1, <3>2, <2>3
    <3>4. collector[q] \in Active => q \in stopped
      BY <1>2 DEF RunsOrdered
    <3> QED
      BY <3>3, <3>4, <2>4
  <2>8. RunsOrdered'
    BY <2>1, <2>2, <2>7 DEF RunsOrdered
  <2> QED
    BY <2>1, <2>2, <2>5, <2>6, <2>8
<1> QED
  BY <1>1, <1>2 DEF MonitorTypes

\* Stop: everybody goes on as before, but the current run is cancelled.
LEMMA StopKeeps ==
  ASSUME MonitorTypes, RunsOrdered, Perf!StopRun, UNCHANGED <<monRun, sampler, collector>>
  PROVE  /\ monLive' \in BOOLEAN /\ stopped' \subseteq Perf!Runs
         /\ RunsOrdered'
<1>1. monLive' = FALSE /\ stopped' = IF monLive THEN stopped \union {monRun} ELSE stopped
  BY DEF Perf!StopRun
<1>2. stopped \subseteq stopped' /\ stopped' \subseteq Perf!Runs
  BY <1>1 DEF MonitorTypes, RunsOrdered, RunOrNone
<1>3. monRun' = Perf!None \/ monRun' \in stopped'
  BY <1>1 DEF RunsOrdered
<1>4. RunsOrdered'
  BY <1>1, <1>2, <1>3 DEF RunsOrdered
<1> QED
  BY <1>1, <1>2, <1>4

LEMMA PerfStep == PerfInv /\ [Perf!Next]_(Perf!monVars) => PerfInv'
<1> SUFFICES ASSUME PerfInv, [Perf!Next]_(Perf!monVars)
             PROVE  PerfInv'
  OBVIOUS
<1>1. MonitorTypes /\ RunsOrdered /\ RingTypes /\ RingKept
  BY DEF PerfInv
<1>2. UNCHANGED Perf!ringVars => RingTypes' /\ RingKept'
  BY <1>1 DEF Perf!ringVars, RingTypes, RingKept
<1>3. CASE UNCHANGED Perf!monVars
  <2>1. UNCHANGED Perf!ringVars
    BY <1>3 DEF Perf!monVars, Perf!ringVars
  <2>2. MonitorTypes' /\ RunsOrdered'
    BY <1>1, <1>3 DEF Perf!monVars, MonitorTypes, RunsOrdered
  <2> QED
    BY <2>1, <2>2, <1>2 DEF PerfInv
<1>4. CASE Perf!Start
  <2>1. Perf!StartRun /\ UNCHANGED <<monConf, monUpdate, stopped>> /\ UNCHANGED Perf!ringVars
    BY <1>4 DEF Perf!Start
  <2>2. MonitorTypes' /\ RunsOrdered'
    BY <1>1, <2>1, StartKeeps DEF MonitorTypes
  <2> QED
    BY <2>1, <2>2, <1>2 DEF PerfInv
<1>5. CASE Perf!Stop
  <2>1. /\ Perf!StopRun /\ UNCHANGED <<monConf, monRun, monUpdate, sampler, collector>>
        /\ UNCHANGED Perf!ringVars
    BY <1>5 DEF Perf!Stop, Perf!goVars
  <2>2. MonitorTypes' /\ RunsOrdered'
    BY <1>1, <2>1, StopKeeps DEF MonitorTypes
  <2> QED
    BY <2>1, <2>2, <1>2 DEF PerfInv
<1>6. CASE Perf!UpdateStops
  <2>1. /\ Perf!StopRun /\ UNCHANGED <<monConf, monRun, sampler, collector>>
        /\ monUpdate' = [monUpdate EXCEPT !.at = "set"] /\ UNCHANGED Perf!ringVars
    BY <1>6 DEF Perf!UpdateStops, Perf!goVars
  <2>2. MonitorTypes' /\ RunsOrdered'
    BY <1>1, <2>1, StopKeeps DEF MonitorTypes
  <2> QED
    BY <2>1, <2>2, <1>2 DEF PerfInv
<1>7. CASE Perf!UpdateStarts
  <2>1. /\ Perf!StartRun /\ UNCHANGED <<monConf, stopped>> /\ UNCHANGED Perf!ringVars
        /\ monUpdate' = [monUpdate EXCEPT !.at = "none"]
    BY <1>7 DEF Perf!UpdateStarts
  <2>2. MonitorTypes' /\ RunsOrdered'
    BY <1>1, <2>1, StartKeeps DEF MonitorTypes
  <2> QED
    BY <2>1, <2>2, <1>2 DEF PerfInv
<1>8. CASE Perf!UpdateSets
  <2>1. /\ monConf' = monUpdate.conf /\ pushed' = <<>>
        /\ ring' = Perf!NewBuffer(monUpdate.conf.capacity)
        /\ UNCHANGED <<monLive, monRun, stopped, sampler, collector, samples>>
        /\ monUpdate' = [monUpdate EXCEPT !.at = IF monUpdate.conf.disabled THEN "none" ELSE "start"]
    BY <1>8 DEF Perf!UpdateSets, Perf!goVars
  <2>2. monUpdate.conf \in MonitorConfigs /\ monUpdate.conf.capacity \in Int
    BY <1>1, ConfigsAssumption DEF MonitorTypes
  <2>3. RingTypes' /\ RingKept'
    BY <1>1, <2>1, <2>2, RingStarts DEF RingTypes
  <2>4. MonitorTypes' /\ RunsOrdered'
    BY <1>1, <2>1, <2>2 DEF MonitorTypes, RunsOrdered
  <2> QED
    BY <2>3, <2>4 DEF PerfInv
<1>9. ASSUME NEW conf \in MonitorConfigs, Perf!UpdateConfig(conf)
      PROVE  PerfInv'
  <2>1. /\ UNCHANGED <<monConf, monLive, monRun, stopped, sampler, collector>>
        /\ monUpdate' = [at |-> "stop", conf |-> conf] /\ UNCHANGED Perf!ringVars
    BY <1>9 DEF Perf!UpdateConfig, Perf!goVars
  <2>2. MonitorTypes' /\ RunsOrdered'
    BY <1>1, <2>1 DEF MonitorTypes, RunsOrdered
  <2> QED
    BY <2>1, <2>2, <1>2 DEF PerfInv
\* A sampler's step: where it stands afterwards, and on what it waits.
<1>10. ASSUME NEW r \in Perf!Runs, NEW at \in {"loop", "select", "push", "over"}, NEW ctx \in RunOrNone,
              sampler[r].at # "none", at = "select" => ctx = monRun,
              sampler' = [sampler EXCEPT ![r] = [at |-> at, ctx |-> ctx]],
              UNCHANGED <<monConf, monLive, monRun, monUpdate, stopped, collector>>
       PROVE  MonitorTypes' /\ RunsOrdered'
  <2>1. sampler' \in [Perf!Runs -> [at : {"none", "loop", "select", "push", "over"}, ctx : RunOrNone]]
    BY <1>1, <1>10 DEF MonitorTypes
  <2>2. MonitorTypes'
    BY <1>1, <1>10, <2>1 DEF MonitorTypes
  <2>3. \A q \in Perf!Runs : sampler'[q] = IF q = r THEN [at |-> at, ctx |-> ctx] ELSE sampler[q]
    BY <1>1, <1>10 DEF MonitorTypes
  <2>4. monRun # Perf!None
    BY <1>1, <1>10 DEF RunsOrdered
  <2>5. ASSUME NEW q \in Perf!Runs, sampler'[q].at = "select"
        PROVE  sampler'[q].ctx = monRun \/ sampler'[q].ctx \in stopped
    <3>1. CASE q = r
      BY <2>3, <2>5, <3>1, <1>10
    <3>2. CASE q # r
      BY <2>3, <2>5, <3>2, <1>1 DEF RunsOrdered
    <3> QED
      BY <3>1, <3>2
  <2>6. RunsOrdered'
    BY <1>1, <1>10, <2>4, <2>5 DEF RunsOrdered
  <2> QED
    BY <2>2, <2>6
<1>11. \A r \in Perf!Runs : sampler[r].ctx \in RunOrNone
  BY <1>1 DEF MonitorTypes
<1>12. ASSUME NEW r \in Perf!Runs, Perf!SamplerWaits(r)
       PROVE  PerfInv'
  <2>1. /\ sampler[r].at = "loop" /\ sampler' = [sampler EXCEPT ![r] = [at |-> "select", ctx |-> monRun]]
        /\ UNCHANGED <<monConf, monLive, monRun, monUpdate, stopped, collector>>
        /\ UNCHANGED Perf!ringVars
    BY <1>12 DEF Perf!SamplerWaits
  <2>2. monRun \in RunOrNone
    BY <1>1 DEF MonitorTypes
  <2>3. MonitorTypes' /\ RunsOrdered'
    BY <2>1, <2>2, <1>10
  <2> QED
    BY <2>1, <2>3, <1>2 DEF PerfInv
<1>13. ASSUME NEW r \in Perf!Runs, Perf!SamplerTicks(r)
       PROVE  PerfInv'
  <2>1. PICK at \in {"push", "loop"} :
          /\ sampler[r].at = "select" /\ sampler' = [sampler EXCEPT ![r].at = at]
          /\ UNCHANGED <<monConf, monLive, monRun, monUpdate, stopped, collector>>
          /\ UNCHANGED Perf!ringVars
    BY <1>13 DEF Perf!SamplerTicks
  <2>2. sampler' = [sampler EXCEPT ![r] = [at |-> at, ctx |-> sampler[r].ctx]]
    <3>1. sampler[r] = [at |-> sampler[r].at, ctx |-> sampler[r].ctx]
      BY <1>1 DEF MonitorTypes
    <3>2. [sampler[r] EXCEPT !.at = at] = [at |-> at, ctx |-> sampler[r].ctx]
      BY <3>1
    <3> QED
      BY <2>1, <3>2, Zenon
  <2>3. MonitorTypes' /\ RunsOrdered'
    BY <2>1, <2>2, <1>10, <1>11
  <2> QED
    BY <2>1, <2>3, <1>2 DEF PerfInv
<1>14. ASSUME NEW r \in Perf!Runs, Perf!SamplerEnds(r)
       PROVE  PerfInv'
  <2>1. /\ sampler[r].at = "select" /\ sampler' = [sampler EXCEPT ![r].at = "over"]
        /\ UNCHANGED <<monConf, monLive, monRun, monUpdate, stopped, collector>>
        /\ UNCHANGED Perf!ringVars
    BY <1>14 DEF Perf!SamplerEnds
  <2>2. sampler' = [sampler EXCEPT ![r] = [at |-> "over", ctx |-> sampler[r].ctx]]
    <3>1. sampler[r] = [at |-> sampler[r].at, ctx |-> sampler[r].ctx]
      BY <1>1 DEF MonitorTypes
    <3>2. [sampler[r] EXCEPT !.at = "over"] = [at |-> "over", ctx |-> sampler[r].ctx]
      BY <3>1
    <3> QED
      BY <2>1, <3>2, Zenon
  <2>3. MonitorTypes' /\ RunsOrdered'
    BY <2>1, <2>2, <1>10, <1>11
  <2> QED
    BY <2>1, <2>3, <1>2 DEF PerfInv
<1>15. ASSUME NEW r \in Perf!Runs, Perf!SamplerPushes(r)
       PROVE  PerfInv'
  <2>1. /\ sampler[r].at = "push" /\ sampler' = [sampler EXCEPT ![r].at = "loop"]
        /\ UNCHANGED <<monConf, monLive, monRun, monUpdate, stopped, collector>>
    BY <1>15 DEF Perf!SamplerPushes
  <2>2. sampler' = [sampler EXCEPT ![r] = [at |-> "loop", ctx |-> sampler[r].ctx]]
    <3>1. sampler[r] = [at |-> sampler[r].at, ctx |-> sampler[r].ctx]
      BY <1>1 DEF MonitorTypes
    <3>2. [sampler[r] EXCEPT !.at = "loop"] = [at |-> "loop", ctx |-> sampler[r].ctx]
      BY <3>1
    <3> QED
      BY <2>1, <3>2, Zenon
  <2>3. MonitorTypes' /\ RunsOrdered'
    BY <2>1, <2>2, <1>10, <1>11
  <2>4. /\ samples + 1 \in Nat /\ samples' = samples + 1
        /\ ring' = Perf!Push(ring, samples + 1) /\ pushed' = Append(pushed, samples + 1)
    BY <1>1, <1>15 DEF Perf!SamplerPushes, RingTypes
  <2>5. RingTypes' /\ RingKept'
    BY <1>1, <2>4, PushKeeps
  <2> QED
    BY <2>3, <2>5 DEF PerfInv
<1>16. ASSUME NEW r \in Perf!Runs, Perf!CollectorSteps(r)
       PROVE  PerfInv'
  <2>1. /\ UNCHANGED <<monConf, monLive, monRun, monUpdate, stopped, sampler>>
        /\ UNCHANGED Perf!ringVars
    BY <1>16 DEF Perf!CollectorSteps
  <2>2. PICK c \in {"forward", "wait", "over"} :
          collector[r] \in Active /\ collector' = [collector EXCEPT ![r] = c]
    BY <1>16 DEF Perf!CollectorSteps, Active
  <2>3. collector' \in [Perf!Runs -> Active \union {"none", "over"}]
    BY <1>1, <2>2 DEF MonitorTypes, Active
  <2>4. \A q \in Perf!Runs : collector'[q] \in Active => collector[q] \in Active
    BY <1>1, <2>2 DEF MonitorTypes
  <2>5. MonitorTypes'
    BY <1>1, <2>1, <2>3 DEF MonitorTypes
  <2>6. RunsOrdered'
    BY <1>1, <2>1, <2>4 DEF RunsOrdered
  <2> QED
    BY <2>1, <2>5, <2>6, <1>2 DEF PerfInv
<1> QED
  BY <1>3, <1>4, <1>5, <1>6, <1>7, <1>8, <1>9, <1>12, <1>13, <1>14, <1>15, <1>16 DEF Perf!Next

\* The run that is current is the only one that may still be going on.
LEMMA OneGoesOn == MonitorTypes /\ RunsOrdered => Perf!SamplingFollowsRuns
<1> SUFFICES ASSUME MonitorTypes, RunsOrdered
             PROVE  Perf!SamplingFollowsRuns
  OBVIOUS
<1>1. Perf!StopReachesAll
  BY DEF Perf!StopReachesAll, RunsOrdered, Active, MonitorTypes
<1> DEFINE going == {r \in Perf!Runs : collector[r] \in {"start", "forward", "wait"} /\ r \notin stopped}
<1>2. going \subseteq {monRun}
  BY DEF RunsOrdered, Active
<1>3. IsFiniteSet({monRun}) /\ Cardinality({monRun}) = 1
  BY FS_Singleton
<1> HIDE DEF going
<1>4. Cardinality(going) <= 1
  <2>1. Cardinality(going) <= Cardinality({monRun})
    BY <1>2, <1>3, FS_Subset
  <2> QED
    BY <1>3, <2>1, Zenon
<1>5. Perf!OneCollector
  BY <1>4, Zenon
     DEF Perf!OneCollector, going, Perf!Cardinality, Cardinality, Perf!IsFiniteSet, IsFiniteSet
<1> QED
  BY <1>1, <1>5 DEF Perf!SamplingFollowsRuns

\* Slice walks the ring from the oldest sample on.
LEMMA SliceIsNewest == RingTypes /\ RingKept => Perf!RingHasNewest
<1> SUFFICES ASSUME RingTypes, RingKept
             PROVE  Perf!RingHasNewest
  OBVIOUS
<1> DEFINE s == ring.size
           n == Len(pushed)
           shown == SubSeq(pushed, n - s + 1, n)
<1>1. /\ ring.cap \in Nat \ {0} /\ ring.head \in Nat /\ ring.head < ring.cap /\ s \in Nat /\ n \in Nat
      /\ s = (IF n < ring.cap THEN n ELSE ring.cap) /\ pushed \in Seq(Nat)
      /\ \A i \in 1..s : ring.buf[IF ring.head + i - 1 < ring.cap THEN ring.head + i - 1
                                  ELSE ring.head + i - 1 - ring.cap] = pushed[n - s + i]
  BY DEF RingTypes, RingKept, Shows
<1>2. s <= n /\ s <= ring.cap
  BY <1>1
<1>3. /\ Len(shown) = s /\ shown \in Seq(Nat)
      /\ \A i \in 1..s : shown[i] = pushed[n - s + i]
  <2>1. n - s + 1 \in Int /\ n \in Int /\ \A i \in (n - s + 1)..n : pushed[i] \in Nat
    BY <1>1, <1>2
  <2>2. /\ shown \in Seq(Nat)
        /\ Len(shown) = IF n - s + 1 <= n THEN n - (n - s + 1) + 1 ELSE 0
        /\ \A i \in 1..(n - (n - s + 1) + 1) : shown[i] = pushed[(n - s + 1) + i - 1]
    BY <2>1, SubSeqProperties
  <2>3. n - (n - s + 1) + 1 = s /\ \A i \in 1..s : (n - s + 1) + i - 1 = n - s + i
    BY <1>1
  <2>4. (IF n - s + 1 <= n THEN n - (n - s + 1) + 1 ELSE 0) = s
    BY <1>1
  <2> QED
    BY <2>2, <2>3, <2>4
<1>4. Perf!Slice(ring) = [i \in 1..s |-> ring.buf[(ring.head + i - 1) % ring.cap]]
  BY DEF Perf!Slice
<1> HIDE DEF s, n, shown
<1>5. ASSUME NEW i \in 1..s
      PROVE  ring.buf[(ring.head + i - 1) % ring.cap] = shown[i]
  <2>1. PICK x \in Nat : x = ring.head + i - 1 /\ x < 2 * ring.cap
    <3>1. ring.head + i - 1 \in Nat /\ ring.head + i - 1 < 2 * ring.cap
      BY <1>1, <1>2
    <3> QED
      BY <3>1, Zenon
  <2>2. x % ring.cap = IF x < ring.cap THEN x ELSE x - ring.cap
    BY <1>1, <2>1, Remainder
  <2>3. shown[i] = pushed[n - s + i]
    BY <1>3
  <2>4. pushed[n - s + i] = ring.buf[IF x < ring.cap THEN x ELSE x - ring.cap]
    <3>1. ring.buf[IF ring.head + i - 1 < ring.cap THEN ring.head + i - 1
                   ELSE ring.head + i - 1 - ring.cap] = pushed[n - s + i]
      BY <1>1, Zenon
    <3>2. (IF x < ring.cap THEN x ELSE x - ring.cap) =
            IF ring.head + i - 1 < ring.cap THEN ring.head + i - 1 ELSE ring.head + i - 1 - ring.cap
      BY <1>1, <2>1
    <3> QED
      BY <3>1, <3>2, Zenon
  <2> QED
    BY <2>1, <2>2, <2>3, <2>4, Zenon
<1>6. shown = [i \in 1..s |-> shown[i]]
  BY <1>3
<1>7. Perf!Slice(ring) = shown
  BY <1>4, <1>5, <1>6, Zenon
<1> QED
  BY <1>1, <1>7 DEF Perf!RingHasNewest, s, n, shown

\* A stopped monitor samples no more, at most one collector goes on, and the
\* ring shows the newest samples (monitor.go, ring/buffer.go).
THEOREM PerfSound == Perf!Spec => [](Perf!SamplingFollowsRuns /\ Perf!RingHasNewest)
<1>1. PerfInv => Perf!SamplingFollowsRuns /\ Perf!RingHasNewest
  BY OneGoesOn, SliceIsNewest DEF PerfInv
<1> QED
  BY <1>1, PerfStarts, PerfStep, PTL DEF Perf!Spec

-----------------------------------------------------------------------------
(* The log stream.                                                         *)

Ranges == [from : Nat, to : Nat]
Markers == [dropped : Nat \ {0}]
Events == Ranges \union Markers

\* broadcastLoop has w in hand: before its look at the counter of dropped bytes,
\* with the marker that is to go first, or alone.
HoldsMarked(h, w, n) == h = <<Log!Notice(n), w>>
HoldsWrite(h, w) ==
  h = <<Log!Fresh(w)>> \/ h = <<w>> \/ \E n \in Nat \ {0} : HoldsMarked(h, w, n)

LogTypes ==
  /\ data \in [0..(LogCapacity - 1) -> Nat]
  /\ head \in Nat /\ size \in Nat /\ total \in Nat
  /\ writing \subseteq Ranges /\ broadcastCh \in Seq(Ranges)
  /\ dropped \in Nat /\ told \in Nat
  /\ hand = <<>> \/ \E w \in Ranges : HoldsWrite(hand, w)
  /\ inbox \in Seq(Events) /\ sent \in Seq(Events)

\* Before head are the bytes of this turn of the buffer, behind it those of the
\* turn before, if there was one.
Turned(d, h, s, t) ==
  /\ h < LogCapacity /\ s = IF t < LogCapacity THEN t ELSE LogCapacity
  /\ s < LogCapacity => h = s
  /\ \A j \in 0..(LogCapacity - 1) :
       /\ j < h => d[j] = t - h + j + 1
       /\ j >= h /\ s = LogCapacity => d[j] = t - h - LogCapacity + j + 1
BufferKept == Turned(data, head, size, total)

\* Bytes are dropped with the write they came in, and no two writes share one.
WritesApart ==
  /\ lost \subseteq 1..total
  /\ \A w \in writing : w.from >= 1 /\ w.to <= total /\ Log!Covered(w) \cap lost = {}
  /\ \A v, w \in writing : v # w => Log!Covered(v) \cap Log!Covered(w) = {}

Marked(h) == IF Len(h) = 2 THEN h[1].dropped ELSE 0
DropsCounted == IsFiniteSet(lost) /\ Cardinality(lost) = dropped + told + Marked(hand)

\* Where a byte may be on its way to the client.
Carries(s, b) == \E i \in 1..Len(s) : ~Log!IsNotice(s[i]) /\ b \in Log!Covered(s[i])
OnItsWay(b) ==
  \/ \E w \in writing : b \in Log!Covered(w)
  \/ Carries(broadcastCh, b)
  \/ \E w \in Ranges : HoldsWrite(hand, w) /\ b \in Log!Covered(w)
  \/ Carries(inbox, b) \/ Carries(sent, b)
NothingMissed ==
  reader = "api" => \A b \in 1..total : b \in seen \union lost \union blind \/ OnItsWay(b)

LogInv == LogTypes /\ BufferKept /\ WritesApart /\ DropsCounted /\ NothingMissed

\* A range, a write fresh from the channel and a marker are told apart.
LEMMA EventKinds ==
  /\ \A w \in Ranges : ~Log!IsNotice(w) /\ ~Log!IsFresh(w)
  /\ \A w : Log!IsFresh(Log!Fresh(w)) /\ ~Log!IsNotice(Log!Fresh(w)) /\ Log!Fresh(w).write = w
  /\ \A n : Log!IsNotice(Log!Notice(n)) /\ ~Log!IsFresh(Log!Notice(n)) /\ Log!Notice(n).dropped = n
<1>1. ASSUME NEW w \in Ranges
      PROVE  ~Log!IsNotice(w) /\ ~Log!IsFresh(w)
  <2>1. w = [from |-> w.from, to |-> w.to]
    BY DEF Ranges
  <2>2. DOMAIN w = {"from", "to"}
    BY <2>1
  <2> QED
    BY <2>2 DEF Log!IsNotice, Log!IsFresh
<1> QED
  BY <1>1 DEF Log!IsFresh, Log!IsNotice, Log!Fresh, Log!Notice

\* What a queue carries once it has taken an event, or has given one up.
LEMMA CarriesMore ==
  ASSUME NEW S, NEW s \in Seq(S), NEW e \in S, NEW b
  PROVE  Carries(Append(s, e), b) <=> Carries(s, b) \/ (~Log!IsNotice(e) /\ b \in Log!Covered(e))
<1> DEFINE t == Append(s, e)
<1>1. /\ Len(s) \in Nat /\ Len(t) = Len(s) + 1
      /\ t[Len(s) + 1] = e /\ \A i \in 1..Len(s) : t[i] = s[i]
  OBVIOUS
<1> HIDE DEF t
<1>2. \A i \in 1..Len(t) : i \in 1..Len(s) \/ i = Len(s) + 1
  BY <1>1
<1>3. Len(s) + 1 \in 1..Len(t) /\ 1..Len(s) \subseteq 1..Len(t)
  BY <1>1
<1>4. Carries(t, b) <=> Carries(s, b) \/ (~Log!IsNotice(e) /\ b \in Log!Covered(e))
  BY <1>1, <1>2, <1>3, Zenon DEF Carries
<1> QED
  BY <1>4 DEF t

LEMMA CarriesLess ==
  ASSUME NEW S, NEW s \in Seq(S), s # <<>>, NEW b
  PROVE  Carries(s, b) <=>
           Carries(Tail(s), b) \/ (~Log!IsNotice(Head(s)) /\ b \in Log!Covered(Head(s)))
<1> DEFINE t == Tail(s)
<1>1. /\ Len(s) \in Nat \ {0} /\ Len(t) = Len(s) - 1
      /\ Head(s) = s[1] /\ \A i \in 1..Len(t) : t[i] = s[i + 1]
  OBVIOUS
<1> HIDE DEF t
<1>2. \A i \in 1..Len(s) : i = 1 \/ (i - 1 \in 1..Len(t) /\ t[i - 1] = s[i])
  <2> SUFFICES ASSUME NEW i \in 1..Len(s), i # 1
               PROVE  i - 1 \in 1..Len(t) /\ t[i - 1] = s[i]
    OBVIOUS
  <2>1. i - 1 \in 1..Len(t) /\ (i - 1) + 1 = i
    BY <1>1
  <2> QED
    BY <1>1, <2>1
<1>3. 1 \in 1..Len(s) /\ \A i \in 1..Len(t) : i + 1 \in 1..Len(s)
  BY <1>1
<1>4. Carries(s, b) <=> Carries(t, b) \/ (~Log!IsNotice(Head(s)) /\ b \in Log!Covered(Head(s)))
  BY <1>1, <1>2, <1>3, Zenon DEF Carries
<1> QED
  BY <1>4 DEF t

\* circularBuffer.Write keeps the last bytes, wherever it wraps.
LEMMA BufferWrites ==
  ASSUME LogTypes, BufferKept, NEW n \in Nat \ {0}, Log!BufferWrite(n), total' = total + n
  PROVE  /\ data' \in [0..(LogCapacity - 1) -> Nat] /\ head' \in Nat /\ size' \in Nat
         /\ BufferKept'
<1>1. LogCapacity \in Nat \ {0}
  BY LogAssumption
<1>2. /\ data \in [0..(LogCapacity - 1) -> Nat] /\ head \in Nat /\ size \in Nat /\ total \in Nat
      /\ head < LogCapacity /\ size = (IF total < LogCapacity THEN total ELSE LogCapacity)
      /\ size < LogCapacity => head = size
      /\ \A j \in 0..(LogCapacity - 1) :
           /\ j < head => data[j] = total - head + j + 1
           /\ j >= head /\ size = LogCapacity => data[j] = total - head - LogCapacity + j + 1
  BY DEF LogTypes, BufferKept, Turned
<1>3. CASE n >= LogCapacity
  <2>1. /\ data' = [i \in 0..(LogCapacity - 1) |-> total + n - LogCapacity + 1 + i]
        /\ head' = 0 /\ size' = LogCapacity
    BY <1>3 DEF Log!BufferWrite
  <2>2. data' \in [0..(LogCapacity - 1) -> Nat]
    BY <1>1, <1>2, <1>3, <2>1
  <2>3. ASSUME NEW j \in 0..(LogCapacity - 1)
        PROVE  data'[j] = total' - head' - LogCapacity + j + 1 /\ ~(j < head')
    BY <1>1, <1>2, <2>1
  <2>4. Turned(data', head', size', total')
    BY <1>1, <1>2, <1>3, <2>1, <2>3 DEF Turned
  <2> QED
    BY <1>1, <2>1, <2>2, <2>4 DEF BufferKept
<1>4. CASE ~(n >= LogCapacity)
  <2> DEFINE firstPart == LogCapacity - head
             index(k) == IF k < firstPart THEN head + k ELSE k - firstPart
             back(i) == IF i >= head THEN i - head ELSE i - head + LogCapacity
             new(i) == IF \E k \in 0..(n - 1) : index(k) = i
                         THEN total + 1 + (CHOOSE k \in 0..(n - 1) : index(k) = i)
                         ELSE data[i]
  <2>1. data' = [i \in 0..(LogCapacity - 1) |-> new(i)]
    BY <1>4 DEF Log!BufferWrite
  <2>11. head' = IF firstPart >= n THEN (head + n) % LogCapacity ELSE n - firstPart
    BY <1>4 DEF Log!BufferWrite
  <2>12. size' = IF size + n > LogCapacity THEN LogCapacity ELSE size + n
    BY <1>4 DEF Log!BufferWrite
  <2>2. head' = IF head + n < LogCapacity THEN head + n ELSE head + n - LogCapacity
    <3>1. PICK x \in Nat : x = head + n /\ x < 2 * LogCapacity
      <4>1. head + n \in Nat /\ head + n < 2 * LogCapacity
        BY <1>1, <1>2, <1>4
      <4> QED
        BY <4>1, Zenon
    <3>2. x % LogCapacity = IF x < LogCapacity THEN x ELSE x - LogCapacity
      BY <1>1, <3>1, Remainder
    <3> QED
      BY <1>1, <1>2, <1>4, <2>11, <3>1, <3>2
  <2>3. ASSUME NEW i \in 0..(LogCapacity - 1), NEW k \in 0..(n - 1)
        PROVE  index(k) = i <=> k = back(i)
    BY <1>1, <1>2, <1>4
  <2>4. ASSUME NEW i \in 0..(LogCapacity - 1)
        PROVE  new(i) = IF back(i) < n THEN total + 1 + back(i) ELSE data[i]
    <3>1. back(i) \in Nat
      BY <1>1, <1>2
    <3>2. CASE back(i) < n
      <4>1. back(i) \in 0..(n - 1)
        BY <3>1, <3>2
      <4>2. \A k \in 0..(n - 1) : index(k) = i <=> k = back(i)
        BY <2>3
      <4> HIDE DEF index, back
      <4>3. \E k \in 0..(n - 1) : index(k) = i
        BY <4>1, <4>2
      <4>4. (CHOOSE k \in 0..(n - 1) : index(k) = i) = back(i)
        BY <4>2, <4>3
      <4> QED
        BY <3>2, <4>3, <4>4
    <3>3. CASE ~(back(i) < n)
      <4>1. ~\E k \in 0..(n - 1) : index(k) = i
        <5> HIDE DEF index
        <5> QED
          BY <2>3, <3>1, <3>3
      <4> QED
        BY <3>3, <4>1
    <3> QED
      BY <3>2, <3>3
  <2> HIDE DEF new
  <2>5. \A i \in 0..(LogCapacity - 1) : data'[i] = IF back(i) < n THEN total + 1 + back(i) ELSE data[i]
    BY <2>1, <2>4
  <2>6. data' \in [0..(LogCapacity - 1) -> Nat]
    <3>1. ASSUME NEW i \in 0..(LogCapacity - 1)
          PROVE  data'[i] \in Nat
      <4>1. data[i] \in Nat /\ back(i) \in Nat
        BY <1>1, <1>2
      <4>2. data'[i] = total + 1 + back(i) \/ data'[i] = data[i]
        BY <2>5
      <4> HIDE DEF back
      <4> QED
        BY <1>2, <4>1, <4>2
    <3> QED
      BY <2>1, <3>1
  <2>7. size' = (IF total' < LogCapacity THEN total' ELSE LogCapacity) /\ size' \in Nat
    <3>1. CASE total < LogCapacity
      BY <1>1, <1>2, <1>4, <2>12, <3>1
    <3>2. CASE ~(total < LogCapacity)
      BY <1>1, <1>2, <1>4, <2>12, <3>2
    <3> QED
      BY <3>1, <3>2
  <2>8. head' \in Nat /\ head' < LogCapacity /\ (size' < LogCapacity => head' = size')
    BY <1>1, <1>2, <1>4, <2>12, <2>2
  <2>9. ASSUME NEW j \in 0..(LogCapacity - 1)
        PROVE  /\ j < head' => data'[j] = total' - head' + j + 1
               /\ j >= head' /\ size' = LogCapacity =>
                    data'[j] = total' - head' - LogCapacity + j + 1
    <3>1. data'[j] = IF back(j) < n THEN total + 1 + back(j) ELSE data[j]
      BY <2>5
    <3>2. CASE head + n < LogCapacity
      <4>1. head' = head + n
        BY <2>2, <3>2
      <4>2. size' = LogCapacity => size = LogCapacity
        BY <1>1, <1>2, <2>12, <3>2
      <4>3. CASE j < head
        <5>1. ~(back(j) < n) /\ j < head'
          BY <1>1, <1>2, <1>4, <3>2, <4>1, <4>3
        <5>2. data'[j] = data[j] /\ data[j] = total - head + j + 1
          BY <1>2, <3>1, <4>3, <5>1
        <5> QED
          BY <1>1, <1>2, <4>1, <5>1, <5>2
      <4>4. CASE j >= head /\ j < head + n
        <5>1. back(j) = j - head /\ back(j) < n
          BY <1>1, <1>2, <4>4
        <5>2. data'[j] = total + 1 + (j - head)
          BY <3>1, <5>1
        <5> QED
          BY <1>1, <1>2, <4>1, <4>4, <5>2
      <4>5. CASE j >= head + n
        <5>1. ~(back(j) < n) /\ j >= head
          BY <1>1, <1>2, <4>5
        <5>2. data'[j] = data[j]
          BY <3>1, <5>1
        <5> QED
          BY <1>1, <1>2, <4>1, <4>2, <4>5, <5>1, <5>2
      <4> QED
        BY <1>1, <1>2, <4>3, <4>4, <4>5
    <3>3. CASE ~(head + n < LogCapacity)
      <4>1. head' = head + n - LogCapacity
        BY <2>2, <3>3
      <4>2. CASE j < head + n - LogCapacity
        <5>1. back(j) = j - head + LogCapacity /\ back(j) < n
          BY <1>1, <1>2, <1>4, <4>2
        <5>2. data'[j] = total + 1 + (j - head + LogCapacity)
          BY <3>1, <5>1
        <5> QED
          BY <1>1, <1>2, <4>1, <4>2, <5>2
      <4>3. CASE ~(j < head + n - LogCapacity) /\ j < head
        <5>1. ~(back(j) < n)
          BY <1>1, <1>2, <1>4, <4>3
        <5>2. data'[j] = data[j] /\ data[j] = total - head + j + 1
          BY <1>2, <3>1, <4>3, <5>1
        <5> QED
          BY <1>1, <1>2, <4>1, <4>3, <5>2
      <4>4. CASE j >= head
        <5>1. back(j) = j - head /\ back(j) < n
          BY <1>1, <1>2, <1>4, <3>3, <4>4
        <5>2. data'[j] = total + 1 + (j - head)
          BY <3>1, <5>1
        <5> QED
          BY <1>1, <1>2, <1>4, <4>1, <4>4, <5>2
      <4> QED
        BY <1>1, <1>2, <4>2, <4>3, <4>4
    <3> QED
      BY <3>2, <3>3
  <2>10. Turned(data', head', size', total')
    BY <2>7, <2>8, <2>9 DEF Turned
  <2> QED
    BY <2>6, <2>7, <2>8, <2>10 DEF BufferKept
<1> QED
  BY <1>3, <1>4

\* GetHistory shows the last bytes written, in order.
LEMMA HistoryShows == LogTypes /\ BufferKept => Log!HistoryIsSuffix
<1> SUFFICES ASSUME LogTypes, BufferKept
             PROVE  Log!HistoryIsSuffix
  OBVIOUS
<1>1. LogCapacity \in Nat \ {0}
  BY LogAssumption
<1>2. /\ head \in Nat /\ size \in Nat /\ total \in Nat
      /\ head < LogCapacity /\ size = (IF total < LogCapacity THEN total ELSE LogCapacity)
      /\ size < LogCapacity => head = size
      /\ \A j \in 0..(LogCapacity - 1) :
           /\ j < head => data[j] = total - head + j + 1
           /\ j >= head /\ size = LogCapacity => data[j] = total - head - LogCapacity + j + 1
  BY DEF LogTypes, BufferKept, Turned
<1> DEFINE start == IF size < LogCapacity THEN 0 ELSE head
<1>3. (head - size + LogCapacity) % LogCapacity = start
  <2>1. PICK x \in Nat : x = head - size + LogCapacity /\ x < 2 * LogCapacity
    <3>1. head - size + LogCapacity \in Nat /\ head - size + LogCapacity < 2 * LogCapacity
      BY <1>1, <1>2
    <3> QED
      BY <3>1, Zenon
  <2>2. x % LogCapacity = IF x < LogCapacity THEN x ELSE x - LogCapacity
    BY <1>1, <2>1, Remainder
  <2> QED
    BY <1>1, <1>2, <2>1, <2>2
<1>4. Log!GetHistory = [i \in 1..size |-> data[IF start + i - 1 < LogCapacity THEN start + i - 1
                                               ELSE start + i - 1 - LogCapacity]]
  <2> HIDE DEF start
  <2> QED
    BY <1>3, Zenon DEF Log!GetHistory
<1>5. ASSUME NEW i \in 1..size
      PROVE  data[IF start + i - 1 < LogCapacity THEN start + i - 1
                  ELSE start + i - 1 - LogCapacity] = total - size + i
  <2>1. CASE start + i - 1 < LogCapacity
    <3>1. start + i - 1 \in 0..(LogCapacity - 1)
      BY <1>1, <1>2, <2>1
    <3>2. CASE size < LogCapacity
      BY <1>1, <1>2, <2>1, <3>1, <3>2
    <3>3. CASE ~(size < LogCapacity)
      BY <1>1, <1>2, <2>1, <3>1, <3>3
    <3> QED
      BY <3>2, <3>3
  <2>2. CASE ~(start + i - 1 < LogCapacity)
    <3>1. start + i - 1 - LogCapacity \in 0..(LogCapacity - 1) /\ start = head
      BY <1>1, <1>2, <2>2
    <3>2. start + i - 1 - LogCapacity < head /\ size = LogCapacity
      BY <1>1, <1>2, <2>2
    <3> QED
      BY <1>1, <1>2, <2>2, <3>1, <3>2
  <2> QED
    BY <2>1, <2>2
<1> HIDE DEF start
<1>6. Log!GetHistory = [i \in 1..size |-> total - size + i]
  BY <1>4, <1>5, Zenon
<1> QED
  BY <1>2, <1>6 DEF Log!HistoryIsSuffix

\* What of the marker is in hand.
LEMMA MarkedIs ==
  /\ Marked(<<>>) = 0
  /\ \A w : Marked(<<w>>) = 0
  /\ \A w, n : Marked(<<Log!Notice(n), w>>) = n
<1>1. Marked(<<>>) = 0
  BY DEF Marked
<1>2. ASSUME NEW w
      PROVE  Marked(<<w>>) = 0
  BY DEF Marked
<1>3. ASSUME NEW w, NEW n
      PROVE  Marked(<<Log!Notice(n), w>>) = n
  <2>1. Len(<<Log!Notice(n), w>>) = 2 /\ <<Log!Notice(n), w>>[1] = Log!Notice(n)
    OBVIOUS
  <2> QED
    BY <2>1, EventKinds DEF Marked
<1> QED
  BY <1>1, <1>2, <1>3

\* By its first element it can be told what is in hand.
LEMMA InHand ==
  ASSUME LogTypes, hand # <<>>
  PROVE  /\ Log!IsFresh(hand[1]) => \E w \in Ranges : hand = <<Log!Fresh(w)>>
         /\ ~Log!IsFresh(hand[1]) => \E w \in Ranges :
               hand = <<w>> \/ \E n \in Nat \ {0} : hand = <<Log!Notice(n), w>>
<1>1. PICK w \in Ranges : HoldsWrite(hand, w)
  BY DEF LogTypes
<1>2. CASE hand = <<Log!Fresh(w)>>
  <2>1. hand[1] = Log!Fresh(w)
    BY <1>2
  <2> QED
    BY <1>2, <2>1, EventKinds
<1>3. CASE hand = <<w>>
  <2>1. hand[1] = w
    BY <1>3
  <2> QED
    BY <1>3, <2>1, EventKinds
<1>4. ASSUME NEW n \in Nat \ {0}, HoldsMarked(hand, w, n)
      PROVE  ~Log!IsFresh(hand[1]) /\ hand = <<Log!Notice(n), w>>
  <2>1. hand = <<Log!Notice(n), w>>
    BY <1>4 DEF HoldsMarked
  <2>2. hand[1] = Log!Notice(n)
    BY <2>1
  <2> QED
    BY <2>1, <2>2, EventKinds
<1> QED
  BY <1>1, <1>2, <1>3, <1>4 DEF HoldsWrite

LEMMA LogStarts == Log!Init => LogInv
<1> SUFFICES ASSUME Log!Init
             PROVE  LogInv
  OBVIOUS
<1> USE DEF Log!Init
<1>1. LogCapacity \in Nat \ {0}
  BY LogAssumption
<1>2. data \in [0..(LogCapacity - 1) -> Nat]
  OBVIOUS
<1>3. LogTypes
  BY <1>2 DEF LogTypes
<1>4. BufferKept
  BY <1>1 DEF BufferKept, Turned
<1>5. WritesApart /\ NothingMissed
  BY DEF WritesApart, NothingMissed
<1>6. DropsCounted
  BY FS_EmptySet, MarkedIs DEF DropsCounted
<1> QED
  BY <1>3, <1>4, <1>5, <1>6 DEF LogInv

\* Write: the new bytes are the next ones.
LEMMA WriteKeeps ==
  ASSUME LogInv, NEW n \in 1..LogMaxWrite, Log!Write(n)
  PROVE  LogInv'
<1> DEFINE w0 == Log!Bytes(total + 1, total + n)
<1>1. LogTypes /\ BufferKept /\ WritesApart /\ DropsCounted /\ NothingMissed
  BY DEF LogInv
<1>2. n \in Nat \ {0}
  OBVIOUS
<1>3. /\ Log!BufferWrite(n) /\ total' = total + n
      /\ writing' = writing \union {w0}
      /\ UNCHANGED <<broadcastCh, dropped, hand, told, lost, reader, inbox, sent, seen, blind>>
  BY DEF Log!Write, Log!loopVars, Log!clientVars
<1>4. total \in Nat /\ total' \in Nat
  BY <1>1, <1>2, <1>3 DEF LogTypes
<1>5. w0 \in Ranges /\ w0.from = total + 1 /\ w0.to = total + n
  BY <1>2, <1>4 DEF Ranges, Log!Bytes
<1> HIDE DEF w0
<1>6. Log!Covered(w0) = (total + 1)..(total + n)
  BY <1>5 DEF Log!Covered
<1>7. BufferKept' /\ LogTypes'
  BY <1>1, <1>2, <1>3, <1>4, <1>5, BufferWrites DEF LogTypes
<1>8. WritesApart'
  <2>1. lost' \subseteq 1..total'
    BY <1>1, <1>2, <1>3, <1>4 DEF WritesApart
  <2>2. ASSUME NEW w \in writing
        PROVE  /\ w.from >= 1 /\ w.to <= total' /\ Log!Covered(w) \cap lost' = {}
               /\ Log!Covered(w) \cap Log!Covered(w0) = {}
    <3>1. w.from \in Nat /\ w.to \in Nat /\ w.from >= 1 /\ w.to <= total
      BY <1>1 DEF LogTypes, Ranges, WritesApart
    <3>2. Log!Covered(w) = w.from..w.to
      BY DEF Log!Covered
    <3>3. Log!Covered(w) \cap Log!Covered(w0) = {}
      BY <1>2, <1>4, <1>6, <3>1, <3>2
    <3>4. Log!Covered(w) \cap lost' = {}
      BY <1>1, <1>3 DEF WritesApart
    <3> QED
      BY <1>2, <1>3, <1>4, <3>1, <3>3, <3>4
  <2>3. w0.from >= 1 /\ w0.to <= total' /\ Log!Covered(w0) \cap lost' = {}
    BY <1>1, <1>2, <1>3, <1>4, <1>5, <1>6 DEF WritesApart
  <2>4. \A v, w \in writing : v # w => Log!Covered(v) \cap Log!Covered(w) = {}
    BY <1>1 DEF WritesApart
  <2>5. \A v, w \in writing' : v # w => Log!Covered(v) \cap Log!Covered(w) = {}
    <3> SUFFICES ASSUME NEW v \in writing', NEW w \in writing', v # w
                 PROVE  Log!Covered(v) \cap Log!Covered(w) = {}
      OBVIOUS
    <3>1. CASE v \in writing /\ w \in writing
      BY <3>1, <2>4
    <3>2. CASE v \in writing /\ w = w0
      BY <3>2, <2>2
    <3>3. CASE v = w0 /\ w \in writing
      BY <3>3, <2>2
    <3> QED
      BY <3>1, <3>2, <3>3, <1>3
  <2>6. \A w \in writing' : w.from >= 1 /\ w.to <= total' /\ Log!Covered(w) \cap lost' = {}
    BY <2>2, <2>3, <1>3
  <2> QED
    BY <2>1, <2>5, <2>6 DEF WritesApart
<1>9. DropsCounted'
  BY <1>1, <1>3 DEF DropsCounted
<1>10. NothingMissed'
  <2> SUFFICES ASSUME reader' = "api", NEW b \in 1..total'
               PROVE  b \in seen' \union lost' \union blind' \/ OnItsWay(b)'
    BY DEF NothingMissed
  <2>1. CASE b \in 1..total
    <3>1. b \in seen \union lost \union blind \/ OnItsWay(b)
      BY <1>1, <1>3, <2>1 DEF NothingMissed
    <3>2. OnItsWay(b) => OnItsWay(b)'
      BY <1>3 DEF OnItsWay
    <3> QED
      BY <3>1, <3>2, <1>3
  <2>2. CASE b \notin 1..total
    <3>1. b \in Log!Covered(w0) /\ w0 \in writing'
      BY <1>2, <1>3, <1>4, <1>6, <2>2
    <3> QED
      BY <3>1 DEF OnItsWay
  <2> QED
    BY <2>1, <2>2
<1> QED
  BY <1>7, <1>8, <1>9, <1>10 DEF LogInv

\* The send does not block: the write is in the channel, or all its bytes are lost.
LEMMA SendKeeps ==
  ASSUME LogInv, NEW write \in writing, Log!SendOrDrop(write)
  PROVE  LogInv'
<1>1. LogTypes /\ BufferKept /\ WritesApart /\ DropsCounted /\ NothingMissed
  BY DEF LogInv
<1>2. /\ writing' = writing \ {write}
      /\ UNCHANGED <<data, head, size, total, hand, told, reader, inbox, sent, seen, blind>>
  BY DEF Log!SendOrDrop, Log!clientVars
<1>3. write \in Ranges
  BY <1>1 DEF LogTypes
<1>4. BufferKept'
  BY <1>1, <1>2 DEF BufferKept
<1>5. CASE Len(broadcastCh) < LogChannel
  <2>1. broadcastCh' = Append(broadcastCh, write) /\ UNCHANGED <<dropped, lost>>
    BY <1>5 DEF Log!SendOrDrop
  <2>2. LogTypes'
    BY <1>1, <1>2, <1>3, <2>1 DEF LogTypes
  <2>3. WritesApart' /\ DropsCounted'
    BY <1>1, <1>2, <2>1 DEF WritesApart, DropsCounted
  <2>4. \A b : Carries(broadcastCh', b) <=> Carries(broadcastCh, b) \/ b \in Log!Covered(write)
    BY <1>1, <1>3, <2>1, CarriesMore, EventKinds DEF LogTypes
  <2>5. ASSUME NEW b, OnItsWay(b)
        PROVE  OnItsWay(b)'
    BY <1>2, <2>4, <2>5 DEF OnItsWay
  <2>6. NothingMissed'
    BY <1>1, <1>2, <2>1, <2>5 DEF NothingMissed
  <2> QED
    BY <1>4, <2>2, <2>3, <2>6 DEF LogInv
<1>6. CASE ~(Len(broadcastCh) < LogChannel)
  <2>1. /\ dropped' = dropped + Log!Cardinality(Log!Covered(write))
        /\ lost' = lost \union Log!Covered(write) /\ UNCHANGED broadcastCh
    BY <1>6 DEF Log!SendOrDrop
  <2> DEFINE c == Log!Covered(write)
  <2>2. /\ write.from \in Nat /\ write.to \in Nat /\ write.from >= 1 /\ write.to <= total
        /\ total \in Nat /\ c = write.from..write.to /\ c \cap lost = {}
    BY <1>1, <1>3 DEF LogTypes, Ranges, WritesApart, Log!Covered
  <2> HIDE DEF c
  <2>3. IsFiniteSet(c) /\ Cardinality(c) \in Nat
    <3>1. write.from \in Int /\ write.to \in Int
      BY <2>2
    <3>2. IsFiniteSet(write.from..write.to)
      BY <3>1, FS_Interval
    <3>3. IsFiniteSet(c)
      BY <2>2, <3>2
    <3> QED
      BY <3>3, FS_CardinalityType
  <2>4. Log!Cardinality(c) = Cardinality(c)
    BY Zenon DEF Log!Cardinality, Cardinality, Log!IsFiniteSet, IsFiniteSet
  <2>5. IsFiniteSet(lost) /\ Cardinality(lost) \in Nat
    BY <1>1, FS_CardinalityType DEF DropsCounted
  <2>6. IsFiniteSet(lost \union c) /\ Cardinality(lost \union c) = Cardinality(lost) + Cardinality(c)
    <3>1. lost \cap c = {}
      BY <2>2
    <3>2. /\ IsFiniteSet(lost \union c)
          /\ Cardinality(lost \union c) = Cardinality(lost) + Cardinality(c) - Cardinality(lost \cap c)
      BY <2>3, <2>5, FS_Union
    <3>3. Cardinality(lost \cap c) = 0
      BY <3>1, FS_EmptySet
    <3> QED
      BY <2>3, <2>5, <3>2, <3>3
  <2>7. dropped' = dropped + Cardinality(c) /\ lost' = lost \union c
    BY <2>1, <2>4 DEF c
  <2>8. LogTypes'
    BY <1>1, <1>2, <2>1, <2>3, <2>7 DEF LogTypes
  <2>9. DropsCounted'
    <3>1. Cardinality(lost) = dropped + told + Marked(hand) /\ dropped \in Nat /\ told \in Nat
      BY <1>1 DEF DropsCounted, LogTypes
    <3>2. Marked(hand) \in Nat
      BY <1>1, MarkedIs DEF LogTypes, HoldsWrite, HoldsMarked
    <3>3. Cardinality(lost') = dropped' + told' + Marked(hand')
      BY <1>2, <2>3, <2>6, <2>7, <3>1, <3>2
    <3>4. IsFiniteSet(lost')
      BY <2>6, <2>7
    <3> QED
      BY <3>3, <3>4 DEF DropsCounted
  <2>10. WritesApart'
    <3>4. c \subseteq 1..total /\ lost \subseteq 1..total
      BY <1>1, <2>2 DEF WritesApart
    <3>1. lost' \subseteq 1..total'
      BY <1>2, <2>7, <3>4
    <3>2. ASSUME NEW w \in writing'
          PROVE  w.from >= 1 /\ w.to <= total' /\ Log!Covered(w) \cap lost' = {}
      BY <1>1, <1>2, <2>7 DEF WritesApart, c
    <3>3. \A v, w \in writing' : v # w => Log!Covered(v) \cap Log!Covered(w) = {}
      BY <1>1, <1>2 DEF WritesApart
    <3> QED
      BY <3>1, <3>2, <3>3 DEF WritesApart
  <2>11. ASSUME NEW b, OnItsWay(b)
         PROVE  OnItsWay(b)' \/ b \in lost'
    BY <1>2, <2>1, <2>11 DEF OnItsWay
  <2>12. NothingMissed'
    BY <1>1, <1>2, <2>7, <2>11 DEF NothingMissed
  <2> QED
    BY <1>4, <2>8, <2>9, <2>10, <2>12 DEF LogInv
<1> QED
  BY <1>5, <1>6

\* The three steps of broadcastLoop.
LEMMA LoopKeeps ==
  ASSUME LogInv, Log!LoopReceives \/ Log!LoopSwaps \/ Log!LoopPublishes
  PROVE  LogInv'
<1>1. LogTypes /\ BufferKept /\ WritesApart /\ DropsCounted /\ NothingMissed
  BY DEF LogInv
<1>2. UNCHANGED <<data, head, size, total, writing, lost, reader, sent, seen, blind>>
  BY DEF Log!LoopReceives, Log!LoopSwaps, Log!LoopPublishes, Log!bufferVars, Log!clientVars
<1>3. BufferKept' /\ WritesApart'
  BY <1>1, <1>2 DEF BufferKept, WritesApart
<1>4. dropped \in Nat /\ told \in Nat /\ IsFiniteSet(lost) /\ broadcastCh \in Seq(Ranges)
  BY <1>1 DEF LogTypes, DropsCounted
\* It is enough that what it takes from one place it puts in the next.
<1>5. ASSUME \A b : OnItsWay(b) => OnItsWay(b)' \/ reader # "api"
      PROVE  NothingMissed'
  BY <1>1, <1>2, <1>5 DEF NothingMissed
<1>6. CASE Log!LoopReceives
  <2> DEFINE w == Head(broadcastCh)
  <2>1. /\ hand = <<>> /\ broadcastCh # <<>> /\ broadcastCh' = Tail(broadcastCh)
        /\ hand' = <<Log!Fresh(w)>> /\ UNCHANGED <<dropped, told, inbox>>
    BY <1>6 DEF Log!LoopReceives, Log!clientVars
  <2>2. w \in Ranges /\ broadcastCh' \in Seq(Ranges)
    BY <1>4, <2>1
  <2>3. ASSUME NEW b
        PROVE  Carries(broadcastCh, b) => Carries(broadcastCh', b) \/ b \in Log!Covered(w)
    BY <1>4, <2>1, CarriesLess
  <2> HIDE DEF w
  <2>4. HoldsWrite(hand', w)
    BY <2>1 DEF HoldsWrite
  <2>5. LogTypes'
    BY <1>1, <1>2, <2>1, <2>2, <2>4 DEF LogTypes
  <2>6. Marked(hand) = 0 /\ Marked(hand') = 0
    BY <2>1, MarkedIs
  <2>7. DropsCounted'
    BY <1>1, <1>2, <2>1, <2>6 DEF DropsCounted
  <2>8. ASSUME NEW b, OnItsWay(b)
        PROVE  OnItsWay(b)'
    <3>1. ~\E v \in Ranges : HoldsWrite(hand, v)
      BY <2>1 DEF HoldsWrite, HoldsMarked
    <3> QED
      BY <1>2, <2>1, <2>2, <2>3, <2>4, <2>8, <3>1 DEF OnItsWay
  <2> QED
    BY <1>3, <1>5, <2>5, <2>7, <2>8 DEF LogInv
<1>7. CASE Log!LoopSwaps
  <2>1. /\ hand # <<>> /\ Log!IsFresh(hand[1])
        /\ hand' = (IF dropped > 0 THEN <<Log!Notice(dropped)>> ELSE <<>>) \o <<hand[1].write>>
        /\ dropped' = 0 /\ UNCHANGED <<broadcastCh, told, inbox>>
    BY <1>7 DEF Log!LoopSwaps, Log!clientVars
  <2>2. PICK w \in Ranges : hand = <<Log!Fresh(w)>>
    BY <1>1, <2>1, InHand
  <2>3. hand[1].write = w
    BY <2>2, EventKinds
  <2>4. hand' = IF dropped > 0 THEN <<Log!Notice(dropped), w>> ELSE <<w>>
    BY <2>1, <2>3
  <2>5. HoldsWrite(hand', w)
    BY <1>4, <2>4 DEF HoldsWrite, HoldsMarked
  <2>6. LogTypes'
    BY <1>1, <1>2, <2>1, <2>5 DEF LogTypes
  <2>7. Marked(hand) = 0 /\ Marked(hand') = dropped
    BY <1>4, <2>2, <2>4, MarkedIs
  <2>8. DropsCounted'
    BY <1>1, <1>2, <1>4, <2>1, <2>7 DEF DropsCounted
  <2>9. ASSUME NEW v \in Ranges, HoldsWrite(hand, v)
        PROVE  v = w
    <3>1. hand[1] = Log!Fresh(w) /\ Len(hand) = 1
      BY <2>2
    <3>2. hand = <<Log!Fresh(v)>>
      <4>1. hand # <<v>>
        BY <3>1, EventKinds
      <4>2. \A n : ~HoldsMarked(hand, v, n)
        BY <3>1 DEF HoldsMarked
      <4> QED
        BY <2>9, <4>1, <4>2 DEF HoldsWrite
    <3> QED
      BY <2>3, <3>2, EventKinds
  <2>10. ASSUME NEW b, OnItsWay(b)
         PROVE  OnItsWay(b)'
    BY <1>2, <2>1, <2>5, <2>9, <2>10 DEF OnItsWay
  <2> QED
    BY <1>3, <1>5, <2>6, <2>8, <2>10 DEF LogInv
<1>8. CASE Log!LoopPublishes
  <2>1. /\ hand # <<>> /\ ~Log!IsFresh(hand[1])
        /\ inbox' = (IF Log!Subscribed THEN Append(inbox, Head(hand)) ELSE inbox)
        /\ told' = told + (IF Log!IsNotice(Head(hand)) THEN Head(hand).dropped ELSE 0)
        /\ hand' = Tail(hand) /\ UNCHANGED <<broadcastCh, dropped>>
    BY <1>8 DEF Log!LoopPublishes
  <2>2. reader = "api" => Log!Subscribed
    BY DEF Log!Subscribed
  <2>3. inbox \in Seq(Events)
    BY <1>1 DEF LogTypes
  <2>4. PICK w \in Ranges : hand = <<w>> \/ \E n \in Nat \ {0} : hand = <<Log!Notice(n), w>>
    BY <1>1, <2>1, InHand
  <2>5. CASE hand = <<w>>
    <3>1. Head(hand) = w /\ hand' = <<>> /\ Len(hand) = 1
      BY <2>1, <2>5
    <3>2. told' = told /\ w \in Events
      BY <1>4, <2>1, <3>1, EventKinds DEF Events
    <3>3. inbox' \in Seq(Events)
      BY <2>1, <2>3, <3>1, <3>2
    <3>4. LogTypes'
      BY <1>1, <1>2, <2>1, <3>1, <3>2, <3>3 DEF LogTypes
    <3>5. Marked(hand) = 0 /\ Marked(hand') = 0
      BY <2>5, <3>1, MarkedIs
    <3>6. DropsCounted'
      BY <1>1, <1>2, <2>1, <3>2, <3>5 DEF DropsCounted
    <3>7. ASSUME NEW v \in Ranges, HoldsWrite(hand, v)
          PROVE  v = w
      <4>1. hand[1] = w
        BY <2>5
      <4>2. hand # <<Log!Fresh(v)>>
        BY <4>1, EventKinds
      <4>3. \A n : ~HoldsMarked(hand, v, n)
        BY <3>1 DEF HoldsMarked
      <4> QED
        BY <3>7, <4>1, <4>2, <4>3 DEF HoldsWrite
    <3>8. ASSUME Log!Subscribed, NEW b
          PROVE  Carries(inbox', b) <=> Carries(inbox, b) \/ b \in Log!Covered(w)
      BY <2>1, <2>3, <3>1, <3>2, <3>8, CarriesMore, EventKinds
    <3>9. ASSUME NEW b, OnItsWay(b), reader = "api"
          PROVE  OnItsWay(b)'
      BY <1>2, <2>1, <2>2, <3>7, <3>8, <3>9 DEF OnItsWay
    <3> QED
      BY <1>3, <1>5, <3>4, <3>6, <3>9 DEF LogInv
  <2>6. ASSUME NEW n \in Nat \ {0}, hand = <<Log!Notice(n), w>>
        PROVE  LogInv'
    <3>1. Head(hand) = Log!Notice(n) /\ hand' = <<w>> /\ Len(hand) = 2
      BY <2>1, <2>6
    <3>2. told' = told + n /\ Log!Notice(n) \in Events
      BY <1>4, <2>1, <3>1, EventKinds DEF Events, Markers, Log!Notice
    <3>3. inbox' \in Seq(Events)
      BY <2>1, <2>3, <3>1, <3>2
    <3>4. HoldsWrite(hand', w)
      BY <3>1 DEF HoldsWrite
    <3>5. LogTypes'
      BY <1>1, <1>2, <1>4, <2>1, <3>2, <3>3, <3>4 DEF LogTypes
    <3>6. Marked(hand) = n /\ Marked(hand') = 0
      BY <2>6, <3>1, MarkedIs
    <3>7. DropsCounted'
      BY <1>1, <1>2, <1>4, <2>1, <3>2, <3>6 DEF DropsCounted
    <3>8. ASSUME NEW v \in Ranges, HoldsWrite(hand, v)
          PROVE  v = w
      <4>1. hand[2] = w /\ Len(hand) = 2
        BY <2>6, <3>1
      <4>2. hand # <<Log!Fresh(v)>> /\ hand # <<v>>
        BY <4>1
      <4>3. PICK k \in Nat \ {0} : hand = <<Log!Notice(k), v>>
        BY <3>8, <4>2 DEF HoldsWrite, HoldsMarked
      <4>4. hand[2] = v
        BY <4>3
      <4> QED
        BY <4>1, <4>4
    <3>9. ASSUME Log!Subscribed, NEW b
          PROVE  Carries(inbox, b) => Carries(inbox', b)
      BY <2>1, <2>3, <3>1, <3>2, <3>9, CarriesMore
    <3>10. ASSUME NEW b, OnItsWay(b), reader = "api"
           PROVE  OnItsWay(b)'
      BY <1>2, <2>1, <2>2, <3>4, <3>8, <3>9, <3>10 DEF OnItsWay
    <3> QED
      BY <1>3, <1>5, <3>5, <3>7, <3>10 DEF LogInv
  <2> QED
    BY <2>4, <2>5, <2>6
<1> QED
  BY <1>6, <1>7, <1>8

\* The client's side: the callback, the two handlers, the end.
LEMMA ClientKeeps ==
  ASSUME LogInv,
         \/ Log!Callback \/ Log!Deliver \/ Log!Leave
         \/ Log!TailReads \/ Log!TailSubscribes \/ Log!ApiSubscribes \/ Log!ApiReads
  PROVE  LogInv'
<1>1. LogTypes /\ BufferKept /\ WritesApart /\ DropsCounted /\ NothingMissed
  BY DEF LogInv
<1>2. UNCHANGED <<data, head, size, total, writing, broadcastCh, dropped, hand, told, lost>>
  BY DEF Log!Callback, Log!Deliver, Log!Leave, Log!TailReads, Log!TailSubscribes,
         Log!ApiSubscribes, Log!ApiReads, Log!bufferVars, Log!loopVars
<1>3. BufferKept' /\ WritesApart' /\ DropsCounted'
  BY <1>1, <1>2 DEF BufferKept, WritesApart, DropsCounted
<1>4. inbox \in Seq(Events) /\ sent \in Seq(Events)
  BY <1>1 DEF LogTypes
<1>5. inbox' \in Seq(Events) /\ sent' \in Seq(Events) => LogTypes'
  BY <1>1, <1>2 DEF LogTypes
<1>6. CASE Log!Callback
  <2> DEFINE e == Head(inbox)
  <2>1. /\ inbox # <<>> /\ inbox' = Tail(inbox) /\ UNCHANGED <<reader, seen>>
        /\ \/ sent' = Append(sent, e) /\ UNCHANGED blind
           \/ /\ blind' = IF Log!IsNotice(e) THEN blind ELSE blind \union Log!Covered(e)
              /\ UNCHANGED sent
    BY <1>6 DEF Log!Callback
  <2>2. e \in Events /\ inbox' \in Seq(Events)
    BY <1>4, <2>1
  <2>3. ASSUME NEW b
        PROVE  Carries(inbox, b) =>
                 Carries(inbox', b) \/ (~Log!IsNotice(e) /\ b \in Log!Covered(e))
    BY <1>4, <2>1, CarriesLess
  <2> HIDE DEF e
  <2>4. CASE sent' = Append(sent, e) /\ UNCHANGED blind
    <3>1. sent' \in Seq(Events)
      BY <1>4, <2>2, <2>4
    <3>2. ASSUME NEW b
          PROVE  Carries(sent', b) <=> Carries(sent, b) \/ (~Log!IsNotice(e) /\ b \in Log!Covered(e))
      BY <1>4, <2>2, <2>4, CarriesMore
    <3>3. ASSUME NEW b, OnItsWay(b)
          PROVE  OnItsWay(b)'
      BY <1>2, <2>3, <3>2, <3>3 DEF OnItsWay
    <3>4. NothingMissed'
      BY <1>1, <1>2, <2>1, <2>4, <3>3 DEF NothingMissed
    <3> QED
      BY <1>3, <1>5, <2>2, <3>1, <3>4 DEF LogInv
  <2>5. CASE /\ blind' = IF Log!IsNotice(e) THEN blind ELSE blind \union Log!Covered(e)
             /\ UNCHANGED sent
    <3>1. ASSUME NEW b, OnItsWay(b)
          PROVE  OnItsWay(b)' \/ b \in blind'
      BY <1>2, <2>3, <2>5, <3>1 DEF OnItsWay
    <3>2. NothingMissed'
      BY <1>1, <1>2, <2>1, <2>5, <3>1 DEF NothingMissed
    <3> QED
      BY <1>3, <1>4, <1>5, <2>2, <2>5, <3>2 DEF LogInv
  <2> QED
    BY <2>1, <2>4, <2>5
<1>7. CASE Log!Deliver
  <2> DEFINE e == Head(sent)
  <2>1. /\ sent # <<>> /\ sent' = Tail(sent) /\ UNCHANGED <<reader, inbox, blind>>
        /\ seen' = IF Log!IsNotice(e) THEN seen ELSE seen \union Log!Covered(e)
    BY <1>7 DEF Log!Deliver
  <2>2. sent' \in Seq(Events)
    BY <1>4, <2>1
  <2>3. ASSUME NEW b
        PROVE  Carries(sent, b) =>
                 Carries(sent', b) \/ (~Log!IsNotice(e) /\ b \in Log!Covered(e))
    BY <1>4, <2>1, CarriesLess
  <2> HIDE DEF e
  <2>4. ASSUME NEW b, OnItsWay(b)
        PROVE  OnItsWay(b)' \/ b \in seen'
    BY <1>2, <2>1, <2>3, <2>4 DEF OnItsWay
  <2>5. NothingMissed'
    BY <1>1, <1>2, <2>1, <2>4 DEF NothingMissed
  <2> QED
    BY <1>3, <1>4, <1>5, <2>1, <2>2, <2>5 DEF LogInv
<1>8. CASE Log!Leave
  <2>1. reader' = "gone" /\ inbox' = <<>> /\ sent' = <<>>
    BY <1>8 DEF Log!Leave
  <2> QED
    BY <1>3, <1>5, <2>1 DEF LogInv, NothingMissed
<1>9. CASE Log!TailReads \/ Log!TailSubscribes \/ Log!ApiSubscribes
  <2>1. reader' \in {"read", "tail", "subscribed"} /\ UNCHANGED <<inbox, sent>>
    BY <1>9 DEF Log!TailReads, Log!TailSubscribes, Log!ApiSubscribes
  <2> QED
    BY <1>3, <1>4, <1>5, <2>1 DEF LogInv, NothingMissed
<1>10. CASE Log!ApiReads
  <2>1. /\ UNCHANGED <<inbox, sent>>
        /\ Log!ReadHistory \/ blind' = blind \union 1..total
    BY <1>10 DEF Log!ApiReads
  <2>2. ASSUME NEW b \in 1..total
        PROVE  b \in seen' \/ b \in blind'
    <3>1. CASE blind' = blind \union 1..total
      BY <3>1
    <3>2. CASE Log!ReadHistory
      <4>1. /\ seen' = seen \union {Log!GetHistory[i] : i \in 1..size}
            /\ blind' = blind \union 1..(total - size)
        BY <3>2 DEF Log!ReadHistory
      <4>2. total \in Nat /\ size \in Nat
        BY <1>1 DEF LogTypes
      <4>3. \A i \in 1..size : Log!GetHistory[i] = total - size + i
        BY <1>1, HistoryShows DEF Log!HistoryIsSuffix
      <4>4. CASE b <= total - size
        BY <4>1, <4>2, <4>4
      <4>5. CASE ~(b <= total - size)
        <5>1. b - (total - size) \in 1..size /\ total - size + (b - (total - size)) = b
          BY <4>2, <4>5
        <5>2. Log!GetHistory[b - (total - size)] = b
          BY <4>3, <5>1
        <5> QED
          BY <4>1, <5>1, <5>2
      <4> QED
        BY <4>4, <4>5
    <3> QED
      BY <2>1, <3>1, <3>2
  <2>3. NothingMissed'
    BY <1>2, <2>2 DEF NothingMissed
  <2> QED
    BY <1>3, <1>4, <1>5, <2>1, <2>3 DEF LogInv
<1> QED
  BY <1>6, <1>7, <1>8, <1>9, <1>10

\* Each byte that was not broadcast is in one marker, said or still to be said.
LEMMA DropsShown == LogTypes /\ DropsCounted => Log!DropsReported
<1> SUFFICES ASSUME LogTypes, DropsCounted
             PROVE  Log!DropsReported
  OBVIOUS
<1> DEFINE notices == {i \in DOMAIN hand : Log!IsNotice(hand[i])}
<1>1. Marked(hand) = IF notices = {} THEN 0 ELSE hand[1].dropped
  <2>1. CASE hand = <<>>
    BY <2>1, MarkedIs
  <2>2. ASSUME NEW w \in Ranges, HoldsWrite(hand, w)
        PROVE  Marked(hand) = IF notices = {} THEN 0 ELSE hand[1].dropped
    <3>1. CASE hand = <<Log!Fresh(w)>>
      <4>1. DOMAIN hand = {1} /\ hand[1] = Log!Fresh(w)
        BY <3>1
      <4> QED
        BY <3>1, <4>1, MarkedIs, EventKinds
    <3>2. CASE hand = <<w>>
      <4>1. DOMAIN hand = {1} /\ hand[1] = w
        BY <3>2
      <4> QED
        BY <3>2, <4>1, MarkedIs, EventKinds
    <3>3. ASSUME NEW n \in Nat \ {0}, hand = <<Log!Notice(n), w>>
          PROVE  Marked(hand) = IF notices = {} THEN 0 ELSE hand[1].dropped
      <4>1. 1 \in DOMAIN hand /\ hand[1] = Log!Notice(n)
        BY <3>3
      <4>2. 1 \in notices /\ hand[1].dropped = n
        BY <4>1, EventKinds
      <4>3. Marked(hand) = n
        BY <3>3, MarkedIs
      <4> QED
        BY <4>2, <4>3
    <3> QED
      BY <2>2, <3>1, <3>2, <3>3 DEF HoldsWrite, HoldsMarked
  <2> QED
    BY <2>1, <2>2 DEF LogTypes
<1>2. Log!Cardinality(lost) = Cardinality(lost)
  BY Zenon DEF Log!Cardinality, Cardinality, Log!IsFiniteSet, IsFiniteSet
<1>3. Cardinality(lost) = dropped + told + Marked(hand)
  BY DEF DropsCounted
<1>4. Log!Cardinality(lost) = dropped + told + IF notices = {} THEN 0 ELSE hand[1].dropped
  BY <1>1, <1>2, <1>3, Zenon
<1> QED
  BY <1>4 DEF Log!DropsReported

LEMMA NoneMissing == NothingMissed => Log!ApiStreamComplete
<1> SUFFICES ASSUME NothingMissed, reader = "api", writing = {}, broadcastCh = <<>>, hand = <<>>,
                    inbox = <<>>, sent = <<>>, NEW b \in 1..total
             PROVE  b \in seen \union lost \union blind
  BY DEF Log!ApiStreamComplete
<1>1. ~Carries(<<>>, b)
  BY DEF Carries
<1>2. \A w : ~HoldsWrite(<<>>, w)
  BY DEF HoldsWrite, HoldsMarked
<1> QED
  BY <1>1, <1>2 DEF NothingMissed, OnItsWay

\* The history is the last bytes written, every dropped byte is reported once, and
\* a client of the API's stream misses none but those (logging.go, apigroup.go).
THEOREM LogSound == Log!Spec => [](Log!HistoryIsSuffix /\ Log!LogsAccounted)
<1>1. LogInv /\ [Log!Next]_(Log!logVars) => LogInv'
  <2> SUFFICES ASSUME LogInv, [Log!Next]_(Log!logVars)
               PROVE  LogInv'
    OBVIOUS
  <2>1. CASE UNCHANGED Log!logVars
    <3>1. UNCHANGED <<data, head, size, total, writing, broadcastCh, dropped, hand, told, lost,
                      reader, inbox, sent, seen, blind>>
      BY <2>1 DEF Log!logVars
    <3>2. LogTypes' /\ BufferKept' /\ WritesApart' /\ DropsCounted'
      BY <3>1 DEF LogInv, LogTypes, BufferKept, WritesApart, DropsCounted
    <3>3. NothingMissed'
      BY <3>1 DEF LogInv, NothingMissed, OnItsWay
    <3> QED
      BY <3>2, <3>3 DEF LogInv
  <2> QED
    BY <2>1, WriteKeeps, SendKeeps, LoopKeeps, ClientKeeps DEF Log!Next
<1>2. LogInv => Log!HistoryIsSuffix /\ Log!LogsAccounted
  BY HistoryShows, DropsShown, NoneMissing DEF LogInv, Log!LogsAccounted
<1> QED
  BY <1>1, <1>2, LogStarts, PTL DEF Log!Spec

-----------------------------------------------------------------------------
(* The peer router.                                                        *)

PeerClients == {ClientOf[p] : p \in Peers}

PeerTypes ==
  /\ asked \in [DOMAIN Asks -> {"none", "checked", "counted", "proxying", "over"}]
  /\ peerFlag \in BOOLEAN /\ peerCut \in BOOLEAN /\ graceful \in BOOLEAN
  /\ peerShut \in {"none", "waiting", "draining", "closing", "over"}
  /\ transports \subseteq Peers
  /\ clientClosed \in [PeerClients -> Nat]

\* Where Shutdown is tells whether requests are being cut off.
ShutdownInOrder ==
  /\ peerShut \in {"none", "draining"} <=> ~peerCut
  /\ ~peerFlag => peerShut = "none"
  /\ peerShut = "none" => ~graceful
  /\ ~peerCut => cut = {}
  /\ graceful => peerShut \in {"closing", "over"}
  /\ transports # {} => peerShut \in {"closing", "over"}

Spared == graceful => cut \subseteq late /\ Peer!Counted \subseteq late

ClosedOnce ==
  \A c \in PeerClients :
    clientClosed[c] = IF \E p \in transports : Peer!Closes(p) /\ ClientOf[p] = c THEN 1 ELSE 0

PeerInv == PeerTypes /\ ShutdownInOrder /\ Spared /\ ClosedOnce

\* A set of numbers has a least one.  The induction is that of the strict
\* subsets: of the segments below its members, one has no smaller one.
LEMMA LeastNumber ==
  ASSUME NEW T, T \subseteq Nat, T # {}
  PROVE  \E p \in T : \A o \in T : ~(o < p)
<1> DEFINE Below(p) == 0..(p - 1)
           Segments == {Below(p) : p \in T}
<1>1. Segments \subseteq FiniteSubsetsOf(Nat)
  <2>1. \A p \in T : Below(p) \subseteq Nat /\ IsFiniteSet(Below(p))
    BY FS_Interval
  <2> QED
    BY <2>1 DEF FiniteSubsetsOf
<1>2. Segments # {}
  OBVIOUS
<1>3. IsWellFoundedOn(StrictSubsetOrdering(Nat), FiniteSubsetsOf(Nat))
  BY FS_StrictSubsetOrderingWellFounded
<1>4. PICK m \in Segments : \A y \in Segments : ~ (<<y, m>> \in StrictSubsetOrdering(Nat))
  <2> HIDE DEF Segments
  <2> QED
    BY <1>1, <1>2, <1>3, WFMin
<1>5. PICK p \in T : m = Below(p)
  BY <1>4
<1>6. ASSUME NEW o \in T, o < p PROVE FALSE
  <2>1. Below(o) \subseteq Below(p) /\ Below(o) # Below(p)
    <3>1. o \in Below(p) /\ o \notin Below(o) /\ \A x \in Below(o) : x \in Below(p)
      BY <1>6, SMT
    <3> QED
      BY <3>1
  <2>2. Below(o) \in SUBSET Nat /\ Below(p) \in SUBSET Nat
    OBVIOUS
  <2>3. <<Below(o), Below(p)>> \in StrictSubsetOrdering(Nat)
    <3> HIDE DEF Below
    <3> QED
      BY <2>1, <2>2 DEF StrictSubsetOrdering
  <2> QED
    BY <2>3, <1>4, <1>5
<1> QED
  BY <1>6

\* The first member of a client is the one that closes it, and the only one.
LEMMA OneMemberCloses ==
  /\ \A x, y \in Peers :
       Peer!Closes(x) /\ Peer!Closes(y) /\ ClientOf[x] = ClientOf[y] => x = y
  /\ \A x \in PeerClients \ {NoClient} : \E y \in Peers : Peer!Closes(y) /\ ClientOf[y] = x
<1>1. ASSUME NEW p \in Peers, NEW o \in Peers,
             Peer!Closes(p), Peer!Closes(o), ClientOf[p] = ClientOf[o]
      PROVE  p = o
  <2>1. ~(o < p) /\ ~(p < o)
    BY <1>1 DEF Peer!Closes
  <2> QED
    BY <2>1, PeersAssumption
<1>2. ASSUME NEW c \in PeerClients \ {NoClient}
      PROVE  \E p \in Peers : Peer!Closes(p) /\ ClientOf[p] = c
  <2> DEFINE Members == {p \in Peers : ClientOf[p] = c}
  <2>1. Members \subseteq Nat /\ Members # {}
    BY <1>2, PeersAssumption DEF PeerClients
  <2>2. PICK p \in Members : \A o \in Members : ~(o < p)
    <3> HIDE DEF Members
    <3> QED
      BY <2>1, LeastNumber
  <2>3. Peer!Closes(p)
    BY <2>2, <1>2 DEF Peer!Closes
  <2> QED
    BY <2>2, <2>3
<1> QED
  BY <1>1, <1>2

LEMMA PeerInit == Peer!Init => PeerInv
<1> SUFFICES ASSUME Peer!Init PROVE PeerInv
  OBVIOUS
<1>1. PeerTypes
  BY DEF Peer!Init, PeerTypes, PeerClients
<1>2. ShutdownInOrder
  BY DEF Peer!Init, ShutdownInOrder
<1>3. Spared
  BY DEF Peer!Init, Spared
<1>4. ClosedOnce
  BY DEF Peer!Init, ClosedOnce, PeerClients
<1> QED
  BY <1>1, <1>2, <1>3, <1>4 DEF PeerInv

LEMMA PeerStep == PeerInv /\ [Peer!Next]_(Peer!peerVars) => PeerInv'
<1> SUFFICES ASSUME PeerInv, [Peer!Next]_(Peer!peerVars) PROVE PeerInv'
  OBVIOUS
<1>a. PeerTypes /\ ShutdownInOrder /\ Spared /\ ClosedOnce
  BY DEF PeerInv
<1>1. CASE UNCHANGED Peer!peerVars
  <2>1. PeerTypes' /\ ShutdownInOrder' /\ Spared' /\ ClosedOnce'
    BY <1>1, <1>a DEF Peer!peerVars, PeerTypes, ShutdownInOrder, Spared, ClosedOnce, Peer!Counted
  <2> QED
    BY <2>1 DEF PeerInv
<1>2. ASSUME NEW q \in DOMAIN Asks, Peer!Ask(q) PROVE PeerInv'
  <2>1. PeerTypes'
    BY <1>2, <1>a DEF Peer!Ask, Peer!shutVars, PeerTypes
  <2>2. ShutdownInOrder'
    BY <1>2, <1>a DEF Peer!Ask, Peer!shutVars, PeerTypes, ShutdownInOrder
  <2>3. Spared'
    BY <1>2, <1>a DEF Peer!Ask, Peer!shutVars, PeerTypes, ShutdownInOrder, Spared, Peer!Counted
  <2>4. ClosedOnce'
    BY <1>2, <1>a DEF Peer!Ask, Peer!shutVars, ClosedOnce
  <2> QED
    BY <2>1, <2>2, <2>3, <2>4 DEF PeerInv
<1>3. ASSUME NEW q \in DOMAIN Asks, Peer!Count(q) PROVE PeerInv'
  <2>1. PeerTypes'
    BY <1>3, <1>a DEF Peer!Count, Peer!shutVars, PeerTypes
  <2>2. ShutdownInOrder'
    BY <1>3, <1>a DEF Peer!Count, Peer!shutVars, PeerTypes, ShutdownInOrder
  <2>3. Spared'
    BY <1>3, <1>a DEF Peer!Count, Peer!shutVars, PeerTypes, ShutdownInOrder, Spared, Peer!Counted
  <2>4. ClosedOnce'
    BY <1>3, <1>a DEF Peer!Count, Peer!shutVars, ClosedOnce
  <2> QED
    BY <2>1, <2>2, <2>3, <2>4 DEF PeerInv
<1>4. ASSUME NEW q \in DOMAIN Asks, Peer!Route(q) PROVE PeerInv'
  <2>1. PeerTypes'
    BY <1>4, <1>a DEF Peer!Route, Peer!shutVars, PeerTypes
  <2>2. ShutdownInOrder'
    BY <1>4, <1>a DEF Peer!Route, Peer!shutVars, PeerTypes, ShutdownInOrder
  <2>3. Spared'
    BY <1>4, <1>a DEF Peer!Route, Peer!shutVars, PeerTypes, ShutdownInOrder, Spared, Peer!Counted
  <2>4. ClosedOnce'
    BY <1>4, <1>a DEF Peer!Route, Peer!shutVars, ClosedOnce
  <2> QED
    BY <2>1, <2>2, <2>3, <2>4 DEF PeerInv
<1>5. ASSUME NEW q \in DOMAIN Asks, Peer!Answered(q) PROVE PeerInv'
  <2>1. PeerTypes'
    BY <1>5, <1>a DEF Peer!Answered, Peer!shutVars, PeerTypes
  <2>2. ShutdownInOrder'
    BY <1>5, <1>a DEF Peer!Answered, Peer!shutVars, PeerTypes, ShutdownInOrder
  <2>3. Spared'
    BY <1>5, <1>a DEF Peer!Answered, Peer!shutVars, PeerTypes, ShutdownInOrder, Spared, Peer!Counted
  <2>4. ClosedOnce'
    BY <1>5, <1>a DEF Peer!Answered, Peer!shutVars, ClosedOnce
  <2> QED
    BY <2>1, <2>2, <2>3, <2>4 DEF PeerInv
<1>6. ASSUME NEW q \in DOMAIN Asks, Peer!CutOff(q) PROVE PeerInv'
  <2>1. PeerTypes'
    BY <1>6, <1>a DEF Peer!CutOff, Peer!shutVars, PeerTypes
  <2>2. ShutdownInOrder'
    BY <1>6, <1>a DEF Peer!CutOff, Peer!shutVars, PeerTypes, ShutdownInOrder
  <2>3. Spared'
    BY <1>6, <1>a DEF Peer!CutOff, Peer!shutVars, PeerTypes, ShutdownInOrder, Spared, Peer!Counted
  <2>4. ClosedOnce'
    BY <1>6, <1>a DEF Peer!CutOff, Peer!shutVars, ClosedOnce
  <2> QED
    BY <2>1, <2>2, <2>3, <2>4 DEF PeerInv
<1>7. CASE Peer!BeginShutdown
  <2>1. PeerTypes'
    BY <1>7, <1>a DEF Peer!BeginShutdown, PeerTypes
  <2>2. ShutdownInOrder'
    BY <1>7, <1>a DEF Peer!BeginShutdown, PeerTypes, ShutdownInOrder
  <2>3. Spared'
    BY <1>7, <1>a DEF Peer!BeginShutdown, PeerTypes, ShutdownInOrder, Spared, Peer!Counted
  <2>4. ClosedOnce'
    BY <1>7, <1>a DEF Peer!BeginShutdown, ClosedOnce
  <2> QED
    BY <2>1, <2>2, <2>3, <2>4 DEF PeerInv
<1>8. CASE Peer!Drained
  <2>1. PeerTypes'
    BY <1>8, <1>a DEF Peer!Drained, PeerTypes
  <2>2. ShutdownInOrder'
    BY <1>8, <1>a DEF Peer!Drained, PeerTypes, ShutdownInOrder
  <2>3. Spared'
    BY <1>8, <1>a DEF Peer!Drained, PeerTypes, ShutdownInOrder, Spared, Peer!Counted
  <2>4. ClosedOnce'
    BY <1>8, <1>a DEF Peer!Drained, ClosedOnce
  <2> QED
    BY <2>1, <2>2, <2>3, <2>4 DEF PeerInv
<1>9. CASE Peer!DeadlinePasses
  <2>1. PeerTypes'
    BY <1>9, <1>a DEF Peer!DeadlinePasses, PeerTypes
  <2>2. ShutdownInOrder'
    BY <1>9, <1>a DEF Peer!DeadlinePasses, PeerTypes, ShutdownInOrder
  <2>3. Spared'
    BY <1>9, <1>a DEF Peer!DeadlinePasses, PeerTypes, ShutdownInOrder, Spared, Peer!Counted
  <2>4. ClosedOnce'
    BY <1>9, <1>a DEF Peer!DeadlinePasses, ClosedOnce
  <2> QED
    BY <2>1, <2>2, <2>3, <2>4 DEF PeerInv
<1>10. CASE Peer!ShutdownReturns
  <2>1. PeerTypes'
    BY <1>10, <1>a DEF Peer!ShutdownReturns, PeerTypes
  <2>2. ShutdownInOrder'
    BY <1>10, <1>a DEF Peer!ShutdownReturns, PeerTypes, ShutdownInOrder
  <2>3. Spared'
    BY <1>10, <1>a DEF Peer!ShutdownReturns, PeerTypes, ShutdownInOrder, Spared, Peer!Counted
  <2>4. ClosedOnce'
    BY <1>10, <1>a DEF Peer!ShutdownReturns, ClosedOnce
  <2> QED
    BY <2>1, <2>2, <2>3, <2>4 DEF PeerInv
<1>11. ASSUME NEW p \in Peers, Peer!CloseTransport(p) PROVE PeerInv'
  <2> DEFINE c == ClientOf[p]
  <2>0. c \in PeerClients
    BY DEF PeerClients
  <2>1. PeerTypes'
    BY <1>11, <1>a, <2>0 DEF Peer!CloseTransport, PeerTypes
  <2>2. ShutdownInOrder'
    BY <1>11, <1>a DEF Peer!CloseTransport, ShutdownInOrder
  <2>3. Spared'
    BY <1>11, <1>a DEF Peer!CloseTransport, Spared, Peer!Counted
  <2>4. ClosedOnce'
    <3>1. CASE Peer!Closes(p)
      <4>1. clientClosed' = [clientClosed EXCEPT ![c] = @ + 1] /\ transports' = transports \union {p}
        BY <1>11, <3>1 DEF Peer!CloseTransport
      <4>2. ~ \E o \in transports : Peer!Closes(o) /\ ClientOf[o] = c
        <5>1. p \notin transports /\ transports \subseteq Peers
          BY <1>11, <1>a DEF Peer!CloseTransport, PeerTypes
        <5> QED
          BY <5>1, <3>1, OneMemberCloses
      <4>3. clientClosed[c] = 0 /\ clientClosed'[c] = 1
        BY <4>1, <4>2, <2>0, <1>a DEF ClosedOnce, PeerTypes
      <4> QED
        BY <4>1, <4>3, <3>1, <1>a DEF ClosedOnce, PeerTypes
    <3>2. CASE ~Peer!Closes(p)
      <4>1. clientClosed' = clientClosed /\ transports' = transports \union {p}
        BY <1>11, <3>2 DEF Peer!CloseTransport
      <4> QED
        BY <4>1, <3>2, <1>a DEF ClosedOnce
    <3> QED
      BY <3>1, <3>2
  <2> QED
    BY <2>1, <2>2, <2>3, <2>4 DEF PeerInv
<1> QED
  BY <1>1, <1>2, <1>3, <1>4, <1>5, <1>6, <1>7, <1>8, <1>9, <1>10, <1>11 DEF Peer!Next

\* A shutdown in no hurry cuts off nobody who counted himself in time, and every
\* Tailcat client is closed once, by its first member, and not before requests
\* are being cut off: for any peers, clients and requests (Shutdown and
\* closeTransports in peer.go).
THEOREM PeerSound == Peer!Spec => []Peer!PeerShutdownClean
<1>1. PeerInv => Peer!PeerShutdownClean
  <2> SUFFICES ASSUME PeerInv PROVE Peer!PeerShutdownClean
    OBVIOUS
  <2>1. graceful => cut \subseteq late /\ Peer!Counted \subseteq late
    BY DEF PeerInv, Spared
  <2>2. DOMAIN clientClosed = PeerClients
    BY DEF PeerInv, PeerTypes
  <2>3. ASSUME NEW c \in PeerClients \ {NoClient}
        PROVE  /\ clientClosed[c] > 0 => peerCut
               /\ clientClosed[c] = IF \E p \in transports : Peer!Closes(p) /\ ClientOf[p] = c THEN 1 ELSE 0
               /\ transports = Peers => clientClosed[c] = 1
    <3>1. clientClosed[c] = IF \E p \in transports : Peer!Closes(p) /\ ClientOf[p] = c THEN 1 ELSE 0
      BY <2>3 DEF PeerInv, ClosedOnce
    <3>2. transports # {} => peerCut
      BY DEF PeerInv, PeerTypes, ShutdownInOrder
    <3>3. \E p \in Peers : Peer!Closes(p) /\ ClientOf[p] = c
      BY <2>3, OneMemberCloses
    <3>4. clientClosed[c] > 0 => transports # {}
      BY <3>1
    <3>5. transports = Peers => clientClosed[c] = 1
      BY <3>1, <3>3
    <3> QED
      BY <3>1, <3>2, <3>4, <3>5
  <2> QED
    BY <2>1, <2>2, <2>3 DEF Peer!PeerShutdownClean
<1>2. PeerInv /\ [Peer!Next]_(Peer!peerVars) => PeerInv'
  BY PeerStep
<1> QED
  BY <1>1, <1>2, PeerInit, PTL DEF Peer!Spec

-----------------------------------------------------------------------------
(* The answer to a request for a model that may have to be loaded.         *)

Kinds == {"chunk", "done", "error", "body", "reclaimed"}
Has(w, kind) == \E i \in DOMAIN w : w[i] = kind
StatusLines == Statuses \union {Load!OK, Refusal, Load!BadGateway}
Frame == StatusLines \union Kinds
Refused == {"refused", "shutdown"}
Before == {"new", "wait", "finish", "release", "answer"}
After == {"metrics", "log", "over"}

LoadTypes ==
  /\ wire \in Seq(Frame)
  /\ copier \in [status : StatusLines \union {LeftStatus}, wrote : BOOLEAN]
  /\ access \in [status : StatusLines \union {LeftStatus}, wrote : BOOLEAN]
  /\ here \in BOOLEAN /\ swapOver \in BOOLEAN /\ released \in BOOLEAN
  /\ caller \in Before \union After
  /\ outcome \in Refused \union {"none", "granted", "gone"}
  /\ loader \in {"none", "loop", "text", "cleanup", "exited"}

\* Both recorders and the wire agree on the status, once there is one.
OneStatus ==
  /\ copier.wrote = access.wrote
  /\ copier.wrote <=> wire # <<>>
  /\ \A i \in DOMAIN wire : wire[i] \in StatusLines <=> i = 1
  /\ copier.wrote => wire[1] = copier.status /\ wire[1] = access.status

\* What the progress stream has to do with where the caller is.
StreamInOrder ==
  /\ Load!Loading => copier.wrote
  /\ caller \in {"finish", "release"} => Load!Loading
  /\ caller = "new" => ~Load!Loading
  /\ caller \in Before /\ ~Load!Loading => ~copier.wrote
  /\ ~released => ~Has(wire, "reclaimed")
  /\ ~Load!Loading => ~Has(wire, "error")

\* What is known of an outcome on the way to the client.
OutcomeTold ==
  /\ caller \in {"new", "wait"} <=> outcome = "none"
  /\ outcome = "gone" => ~here
  /\ (caller \in Before \/ (Load!Loading /\ outcome \in Refused)) => ~Has(wire, "body")
  /\ outcome \in Refused =>
       /\ Load!Loading /\ caller \in {"release", "answer"} \union After => Has(wire, "error")
       /\ ~Load!Loading /\ caller \in After => copier.wrote /\ copier.status = Refusal

\* What the recorders have, of an answer that never started too.
StatusKept ==
  /\ ~copier.wrote /\ caller # "over" => access.status = copier.status
  /\ ~copier.wrote /\ outcome = "granted" /\ caller = "metrics" => ~here
  /\ caller \in {"log", "over"} => recorded = copier.status
  /\ ~copier.wrote /\ caller \in {"log", "over"} => copier.status = LeftStatus
  /\ ~copier.wrote /\ caller = "over" => access.status = LeftStatus

LoadInv ==
  LoadTypes /\ OneStatus /\ StreamInOrder /\ OutcomeTold /\ StatusKept /\ Load!NoStrayWrites

LEMMA StatusesApart == Kinds \cap StatusLines = {}
  BY StatusAssumption DEF Kinds, StatusLines, Load!OK, Load!BadGateway

\* What one frame more does to the wire.
Grows(f) ==
  /\ wire' \in Seq(Frame) /\ wire' # <<>>
  /\ \A i \in DOMAIN wire' : wire'[i] \in StatusLines <=> i = 1
  /\ \A kind \in Kinds : Has(wire', kind) <=> Has(wire, kind) \/ kind = f
  /\ Load!NoStrayWrites'

LEMMA AppendGrows ==
  ASSUME LoadTypes, OneStatus, Load!NoStrayWrites, NEW f \in Kinds,
         wire # <<>>, wire' = Append(wire, f),
         f \in {"chunk", "done"} => ~Has(wire, "reclaimed")
  PROVE  Grows(f) /\ wire'[1] = wire[1]
<1>1. f \in Frame /\ wire \in Seq(Frame) /\ f \notin StatusLines
  BY StatusesApart DEF Frame, LoadTypes
<1>2. /\ wire' \in Seq(Frame) /\ wire' # <<>>
      /\ Len(wire') = Len(wire) + 1
      /\ \A i \in 1..Len(wire) : wire'[i] = wire[i]
      /\ wire'[Len(wire) + 1] = f
  BY <1>1, AppendProperties
<1>3. /\ DOMAIN wire = 1..Len(wire) /\ Len(wire) \in Nat /\ Len(wire) > 0
      /\ DOMAIN wire' = 1..(Len(wire) + 1)
  BY <1>1, <1>2, EmptySeq
<1>4. wire'[1] = wire[1]
  BY <1>2, <1>3
<1>5. \A i \in DOMAIN wire' : wire'[i] \in StatusLines <=> i = 1
  <2>1. \A i \in 1..Len(wire) : wire'[i] \in StatusLines <=> i = 1
    BY <1>2, <1>3 DEF OneStatus
  <2> QED
    BY <2>1, <1>1, <1>2, <1>3
<1>6. ASSUME NEW kind \in Kinds PROVE Has(wire', kind) <=> Has(wire, kind) \/ kind = f
  BY <1>2, <1>3 DEF Has
<1>7. Load!NoStrayWrites'
  <2> SUFFICES ASSUME NEW i \in DOMAIN wire', wire'[i] = "reclaimed",
                      NEW j \in DOMAIN wire', wire'[j] \in {"chunk", "done"}
               PROVE  j < i
    BY DEF Load!NoStrayWrites, Load!Frames
  <2>1. CASE i \in DOMAIN wire /\ j \in DOMAIN wire
    BY <2>1, <1>2, <1>3 DEF Load!NoStrayWrites, Load!Frames
  <2>2. CASE i = Len(wire) + 1
    <3>1. j # i
      BY <2>2
    <3> QED
      BY <3>1, <2>2, <1>3
  <2>3. CASE i \in DOMAIN wire /\ j = Len(wire) + 1
    <3>1. f \in {"chunk", "done"}
      BY <2>3, <1>2
    <3>2. Has(wire, "reclaimed")
      BY <2>3, <1>2, <1>3 DEF Has
    <3> QED
      BY <3>1, <3>2
  <2> QED
    BY <2>1, <2>2, <2>3, <1>3
<1> QED
  BY <1>2, <1>4, <1>5, <1>6, <1>7 DEF Grows

\* An answer starts with its status, unless one is there already.
LEMMA AnswerShape ==
  ASSUME LoadTypes, OneStatus, NEW s \in StatusLines, NEW f \in Kinds, Load!Answer(s, <<f>>)
  PROVE  /\ copier' = IF copier.wrote THEN copier ELSE [status |-> s, wrote |-> TRUE]
         /\ access' = IF copier.wrote THEN access ELSE [status |-> s, wrote |-> TRUE]
         /\ wire' \in Seq(Frame)
         /\ copier.wrote => wire # <<>> /\ wire' = Append(wire, f)
         /\ ~copier.wrote => wire = <<>> /\ wire' = Append(<<s>>, f)
<1>1. f \in Frame /\ s \in Frame /\ wire \in Seq(Frame)
  BY DEF Frame, LoadTypes
<1>2. CASE copier.wrote
  <2>1. wire' = wire \o <<>> \o <<f>>
    BY <1>2 DEF Load!Answer
  <2>2. wire \o <<>> = wire
    BY <1>1, ConcatEmptySeq
  <2>3. wire \o <<f>> = Append(wire, f)
    BY <1>1, AppendIsConcat
  <2>4. Append(wire, f) \in Seq(Frame)
    BY <1>1, AppendProperties
  <2> QED
    BY <1>2, <2>1, <2>2, <2>3, <2>4 DEF Load!Answer, OneStatus, LoadTypes
<1>3. CASE ~copier.wrote
  <2>1. wire = <<>> /\ ~access.wrote
    BY <1>3 DEF OneStatus
  <2>2. wire' = <<>> \o <<s>> \o <<f>>
    BY <1>3, <2>1 DEF Load!Answer
  <2>3. <<s>> \in Seq(Frame)
    BY <1>1
  <2>4. <<>> \o <<s>> = <<s>> /\ <<s>> \o <<f>> = Append(<<s>>, f) /\ Append(<<s>>, f) \in Seq(Frame)
    BY <1>1, <2>3, ConcatEmptySeq, AppendIsConcat, AppendProperties
  <2> QED
    BY <1>3, <2>1, <2>2, <2>3, <2>4 DEF Load!Answer, OneStatus, LoadTypes
<1> QED
  BY <1>2, <1>3

LEMMA AnswerGrows ==
  ASSUME LoadTypes, OneStatus, Load!NoStrayWrites, NEW s \in StatusLines, NEW f \in {"chunk", "body"},
         Load!Answer(s, <<f>>), f = "chunk" => ~Has(wire, "reclaimed")
  PROVE  /\ Grows(f)
         /\ copier' = IF copier.wrote THEN copier ELSE [status |-> s, wrote |-> TRUE]
         /\ access' = IF copier.wrote THEN access ELSE [status |-> s, wrote |-> TRUE]
         /\ wire'[1] = copier'.status /\ wire'[1] = access'.status
<1>0. f \in Kinds
  BY DEF Kinds
<1>1. /\ copier' = IF copier.wrote THEN copier ELSE [status |-> s, wrote |-> TRUE]
      /\ access' = IF copier.wrote THEN access ELSE [status |-> s, wrote |-> TRUE]
      /\ wire' \in Seq(Frame)
      /\ copier.wrote => wire # <<>> /\ wire' = Append(wire, f)
      /\ ~copier.wrote => wire = <<>> /\ wire' = Append(<<s>>, f)
  BY <1>0, AnswerShape
<1>2. CASE copier.wrote
  <2>1. Grows(f) /\ wire'[1] = wire[1]
    BY <1>0, <1>1, <1>2, AppendGrows
  <2> QED
    BY <1>1, <1>2, <2>1 DEF OneStatus
<1>3. CASE ~copier.wrote
  <2>1. wire = <<>> /\ wire' = Append(<<s>>, f)
    BY <1>1, <1>3
  <2>2. DOMAIN wire' = {1, 2} /\ wire'[1] = s /\ wire'[2] = f /\ wire' # <<>> /\ DOMAIN wire = {}
    <3>1. f \in Frame /\ <<s>> \in Seq(Frame) /\ Len(<<s>>) = 1 /\ <<s>>[1] = s
      BY <1>0 DEF Frame
    <3>2. /\ Append(<<s>>, f) # <<>> /\ Len(Append(<<s>>, f)) = 2
          /\ Append(<<s>>, f)[1] = s /\ Append(<<s>>, f)[2] = f
      BY <3>1, AppendProperties
    <3>3. DOMAIN wire' = 1..2
      BY <1>1, <2>1, <3>2
    <3> QED
      BY <2>1, <3>2, <3>3
  <2>3. f \notin StatusLines /\ s \notin Kinds
    BY <1>0, StatusesApart
  <2>4. \A i \in DOMAIN wire' : wire'[i] \in StatusLines <=> i = 1
    BY <2>2, <2>3
  <2>5. \A kind \in Kinds : Has(wire', kind) <=> Has(wire, kind) \/ kind = f
    BY <2>2, <2>3 DEF Has
  <2>6. Load!NoStrayWrites'
    BY <2>2, <2>3 DEF Load!NoStrayWrites, Load!Frames, Kinds
  <2>7. Grows(f)
    BY <1>1, <2>2, <2>4, <2>5, <2>6 DEF Grows
  <2> QED
    BY <1>1, <1>3, <2>2, <2>7
<1> QED
  BY <1>2, <1>3

LEMMA LoadInit == Load!Init => LoadInv
<1> SUFFICES ASSUME Load!Init PROVE LoadInv
  OBVIOUS
<1>1. LoadTypes
  <2>1. <<>> \in Seq(Frame)
    OBVIOUS
  <2> QED
    BY <2>1 DEF Load!Init, LoadTypes, Load!Unwritten, StatusLines, Load!NoLoad, Before
<1>2. DOMAIN wire = {}
  BY DEF Load!Init
<1>3. OneStatus /\ StreamInOrder /\ OutcomeTold /\ StatusKept
  BY <1>2 DEF Load!Init, Load!Unwritten, Load!NoLoad, Load!Loading, OneStatus, StreamInOrder,
     OutcomeTold, StatusKept, Has, Refused, After
<1>4. Load!NoStrayWrites
  BY <1>2 DEF Load!NoStrayWrites, Load!Frames
<1> QED
  BY <1>1, <1>3, <1>4 DEF LoadInv

\* The kinds of frames the invariant speaks of.
LEMMA GrowsBy ==
  ASSUME NEW f \in Kinds, Grows(f)
  PROVE  /\ wire' \in Seq(Frame) /\ wire' # <<>>
         /\ \A i \in DOMAIN wire' : wire'[i] \in StatusLines <=> i = 1
         /\ Has(wire', "reclaimed") <=> Has(wire, "reclaimed") \/ f = "reclaimed"
         /\ Has(wire', "error") <=> Has(wire, "error") \/ f = "error"
         /\ Has(wire', "body") <=> Has(wire, "body") \/ f = "body"
         /\ Load!NoStrayWrites'
<1>1. "reclaimed" \in Kinds /\ "error" \in Kinds /\ "body" \in Kinds
  BY DEF Kinds
<1> QED
  BY <1>1 DEF Grows

LEMMA LoadStep == LoadInv /\ [Load!Next]_(Load!loadVars) => LoadInv'
<1> SUFFICES ASSUME LoadInv, [Load!Next]_(Load!loadVars) PROVE LoadInv'
  OBVIOUS
<1>a. LoadTypes /\ OneStatus /\ StreamInOrder /\ OutcomeTold /\ StatusKept /\ Load!NoStrayWrites
  BY DEF LoadInv
<1>b. /\ "chunk" \in Kinds /\ "done" \in Kinds /\ "error" \in Kinds /\ "body" \in Kinds
      /\ "reclaimed" \in Kinds
      /\ Load!OK \in StatusLines /\ Refusal \in StatusLines /\ Load!BadGateway \in StatusLines
      /\ Statuses \subseteq StatusLines
  BY DEF Kinds, StatusLines

<1>1. ASSUME Load!ClientLeaves PROVE LoadInv'
  <2>0. wire' = wire
    BY <1>1 DEF Load!ClientLeaves, Load!writerVars
  <2>a. here' = FALSE /\ UNCHANGED <<wire, copier, access, caller, outcome, loader, swapOver, released, recorded>>
    BY <1>1 DEF Load!ClientLeaves, Load!writerVars
  <2>1. LoadTypes'
    BY <1>a, <2>a DEF LoadTypes
  <2>2. OneStatus'
    BY <1>1, <1>a, <2>0 DEF Load!ClientLeaves, Load!writerVars, LoadTypes, OneStatus
  <2>3. StreamInOrder'
    BY <1>1, <1>a, <2>0
       DEF Load!ClientLeaves, Load!writerVars, LoadTypes, StreamInOrder, Has, Load!Loading,
           Load!NoLoad, Before
  <2>4. OutcomeTold'
    BY <1>1, <1>a, <2>0
       DEF Load!ClientLeaves, Load!writerVars, LoadTypes, StreamInOrder, OutcomeTold, Has,
           Load!Loading, Load!NoLoad,
       Before, After, Refused
  <2>5. StatusKept'
    BY <1>1, <1>a, <2>0
       DEF Load!ClientLeaves, Load!writerVars, LoadTypes, OneStatus, StreamInOrder, OutcomeTold,
           StatusKept,
       Load!Loading, Load!NoLoad, Refused, Before, After
  <2>6. Load!NoStrayWrites'
    BY <1>a, <2>0 DEF Load!NoStrayWrites, Load!Frames
  <2> QED
    BY <2>1, <2>2, <2>3, <2>4, <2>5, <2>6 DEF LoadInv
<1>2. ASSUME NEW what \in {"granted", "refused", "shutdown", "gone"}, Load!Receives(what) PROVE LoadInv'
  <2>0. wire' = wire
    BY <1>2 DEF Load!Receives, Load!writerVars, Load!Loading, Load!NoLoad
  <2>1. LoadTypes'
    BY <1>2, <1>a
       DEF Load!Receives, Load!writerVars, Load!Loading, Load!NoLoad, LoadTypes, Before, After,
           Refused
  <2>2. OneStatus'
    BY <1>2, <1>a, <2>0
       DEF Load!Receives, Load!writerVars, Load!Loading, Load!NoLoad, LoadTypes, OneStatus
  <2>3. StreamInOrder'
    BY <1>2, <1>a, <2>0
       DEF Load!Receives, Load!writerVars, Load!Loading, Load!NoLoad, LoadTypes, StreamInOrder,
           Has, Load!Loading, Load!NoLoad, Before
  <2>4. OutcomeTold'
    BY <1>2, <1>a, <2>0
       DEF Load!Receives, Load!writerVars, Load!Loading, Load!NoLoad, LoadTypes, StreamInOrder,
           OutcomeTold, Has, Load!Loading, Load!NoLoad,
       Before, After, Refused
  <2>5. StatusKept'
    BY <1>2, <1>a, <2>0
       DEF Load!Receives, Load!writerVars, Load!Loading, Load!NoLoad, LoadTypes, OneStatus,
           StreamInOrder, OutcomeTold, StatusKept,
       Load!Loading, Load!NoLoad, Refused, Before, After
  <2>6. Load!NoStrayWrites'
    BY <1>a, <2>0 DEF Load!NoStrayWrites, Load!Frames
  <2> QED
    BY <2>1, <2>2, <2>3, <2>4, <2>5, <2>6 DEF LoadInv
<1>3. ASSUME Load!MetricsRecord PROVE LoadInv'
  <2>0. wire' = wire
    BY <1>3 DEF Load!MetricsRecord, Load!MarkCopier, Load!MarkAccess
  <2>1. LoadTypes'
    BY <1>3, <1>a
       DEF Load!MetricsRecord, Load!MarkCopier, Load!MarkAccess, LoadTypes, Before, After, Refused
  <2>2. OneStatus'
    BY <1>3, <1>a, <2>0
       DEF Load!MetricsRecord, Load!MarkCopier, Load!MarkAccess, LoadTypes, OneStatus
  <2>3. StreamInOrder'
    BY <1>3, <1>a, <2>0
       DEF Load!MetricsRecord, Load!MarkCopier, Load!MarkAccess, LoadTypes, StreamInOrder, Has,
           Load!Loading, Load!NoLoad, Before
  <2>4. OutcomeTold'
    BY <1>3, <1>a, <2>0
       DEF Load!MetricsRecord, Load!MarkCopier, Load!MarkAccess, LoadTypes, StreamInOrder,
           OutcomeTold, Has, Load!Loading, Load!NoLoad,
       Before, After, Refused
  <2>5. StatusKept'
    BY <1>3, <1>a, <2>0
       DEF Load!MetricsRecord, Load!MarkCopier, Load!MarkAccess, LoadTypes, OneStatus,
           StreamInOrder, OutcomeTold, StatusKept,
       Load!Loading, Load!NoLoad, Refused, Before, After
  <2>6. Load!NoStrayWrites'
    BY <1>a, <2>0 DEF Load!NoStrayWrites, Load!Frames
  <2> QED
    BY <2>1, <2>2, <2>3, <2>4, <2>5, <2>6 DEF LoadInv
<1>4. ASSUME Load!AccessLog PROVE LoadInv'
  <2>0. wire' = wire
    BY <1>4 DEF Load!AccessLog, Load!MarkAccess
  <2>1. LoadTypes'
    BY <1>4, <1>a DEF Load!AccessLog, Load!MarkAccess, LoadTypes, Before, After, Refused
  <2>2. OneStatus'
    BY <1>4, <1>a, <2>0 DEF Load!AccessLog, Load!MarkAccess, LoadTypes, OneStatus
  <2>3. StreamInOrder'
    BY <1>4, <1>a, <2>0
       DEF Load!AccessLog, Load!MarkAccess, LoadTypes, StreamInOrder, Has, Load!Loading,
           Load!NoLoad, Before
  <2>4. OutcomeTold'
    BY <1>4, <1>a, <2>0
       DEF Load!AccessLog, Load!MarkAccess, LoadTypes, StreamInOrder, OutcomeTold, Has,
           Load!Loading, Load!NoLoad,
       Before, After, Refused
  <2>5. StatusKept'
    BY <1>4, <1>a, <2>0
       DEF Load!AccessLog, Load!MarkAccess, LoadTypes, OneStatus, StreamInOrder, OutcomeTold,
           StatusKept,
       Load!Loading, Load!NoLoad, Refused, Before, After
  <2>6. Load!NoStrayWrites'
    BY <1>a, <2>0 DEF Load!NoStrayWrites, Load!Frames
  <2> QED
    BY <2>1, <2>2, <2>3, <2>4, <2>5, <2>6 DEF LoadInv
<1>5. ASSUME Load!LoaderEnds PROVE LoadInv'
  <2>0. wire' = wire
    BY <1>5 DEF Load!LoaderEnds, Load!writerVars
  <2>1. LoadTypes'
    BY <1>5, <1>a DEF Load!LoaderEnds, Load!writerVars, LoadTypes, Before, After, Refused
  <2>2. OneStatus'
    BY <1>5, <1>a, <2>0 DEF Load!LoaderEnds, Load!writerVars, LoadTypes, OneStatus
  <2>3. StreamInOrder'
    BY <1>5, <1>a, <2>0
       DEF Load!LoaderEnds, Load!writerVars, LoadTypes, StreamInOrder, Has, Load!Loading,
           Load!NoLoad, Before
  <2>4. OutcomeTold'
    BY <1>5, <1>a, <2>0
       DEF Load!LoaderEnds, Load!writerVars, LoadTypes, StreamInOrder, OutcomeTold, Has,
           Load!Loading, Load!NoLoad,
       Before, After, Refused
  <2>5. StatusKept'
    BY <1>5, <1>a, <2>0
       DEF Load!LoaderEnds, Load!writerVars, LoadTypes, OneStatus, StreamInOrder, OutcomeTold,
           StatusKept,
       Load!Loading, Load!NoLoad, Refused, Before, After
  <2>6. Load!NoStrayWrites'
    BY <1>a, <2>0 DEF Load!NoStrayWrites, Load!Frames
  <2> QED
    BY <2>1, <2>2, <2>3, <2>4, <2>5, <2>6 DEF LoadInv
<1>6. ASSUME UNCHANGED Load!loadVars PROVE LoadInv'
  <2>0. wire' = wire
    BY <1>6 DEF Load!loadVars
  <2>1. LoadTypes'
    BY <1>6, <1>a DEF Load!loadVars, LoadTypes, Before, After, Refused
  <2>2. OneStatus'
    BY <1>6, <1>a, <2>0 DEF Load!loadVars, LoadTypes, OneStatus
  <2>3. StreamInOrder'
    BY <1>6, <1>a, <2>0
       DEF Load!loadVars, LoadTypes, StreamInOrder, Has, Load!Loading, Load!NoLoad, Before
  <2>4. OutcomeTold'
    BY <1>6, <1>a, <2>0
       DEF Load!loadVars, LoadTypes, StreamInOrder, OutcomeTold, Has, Load!Loading, Load!NoLoad,
       Before, After, Refused
  <2>5. StatusKept'
    BY <1>6, <1>a, <2>0
       DEF Load!loadVars, LoadTypes, OneStatus, StreamInOrder, OutcomeTold, StatusKept,
       Load!Loading, Load!NoLoad, Refused, Before, After
  <2>6. Load!NoStrayWrites'
    BY <1>a, <2>0 DEF Load!NoStrayWrites, Load!Frames
  <2> QED
    BY <2>1, <2>2, <2>3, <2>4, <2>5, <2>6 DEF LoadInv
<1>7. ASSUME Load!FramesError PROVE LoadInv'
  <2>1. CASE outcome \in {"refused", "shutdown"}
    <3>1. wire # <<>> /\ wire' = Append(wire, "error")
      BY <1>7, <2>1, <1>a DEF Load!FramesError, OneStatus, StreamInOrder
    <3>2. Grows("error") /\ wire'[1] = wire[1]
      BY <3>1, <1>a, <1>b, AppendGrows
    <3>3. /\ wire' \in Seq(Frame) /\ wire' # <<>>
          /\ \A i \in DOMAIN wire' : wire'[i] \in StatusLines <=> i = 1
          /\ Has(wire', "reclaimed") <=> Has(wire, "reclaimed")
          /\ Has(wire', "error") <=> Has(wire, "error") \/ TRUE
          /\ Has(wire', "body") <=> Has(wire, "body")
          /\ Load!NoStrayWrites'
      BY <3>2, <1>b, GrowsBy
    <3>11. LoadTypes'
      BY <1>7, <2>1, <1>a, <3>1, <3>2, <3>3 DEF Load!FramesError, LoadTypes, Before, After, Refused
    <3>12. OneStatus'
      BY <1>7, <2>1, <1>a, <3>1, <3>2, <3>3 DEF Load!FramesError, LoadTypes, OneStatus
    <3>13. StreamInOrder'
      BY <1>7, <2>1, <1>a, <3>1, <3>2, <3>3
         DEF Load!FramesError, LoadTypes, StreamInOrder, Load!Loading, Load!NoLoad, Before
    <3>14. OutcomeTold'
      BY <1>7, <2>1, <1>a, <3>1, <3>2, <3>3
         DEF Load!FramesError, LoadTypes, OneStatus, StreamInOrder, OutcomeTold, Load!Loading,
             Load!NoLoad,
         Before, After, Refused
    <3>15. StatusKept'
      BY <1>7, <2>1, <1>a, <3>1, <3>2, <3>3
         DEF Load!FramesError, LoadTypes, OneStatus, StatusKept, StreamInOrder, After, Before,
             Load!Loading, Load!NoLoad
    <3> QED
      BY <3>11, <3>12, <3>13, <3>14, <3>15, <3>3 DEF LoadInv
  <2>2. CASE outcome \notin {"refused", "shutdown"}
    <3>1. wire' = wire
      BY <1>7, <2>2 DEF Load!FramesError
    <3>2. LoadTypes'
      BY <1>7, <1>a, <3>1 DEF Load!FramesError, LoadTypes, Before
    <3>3. OneStatus'
      BY <1>7, <1>a, <3>1 DEF Load!FramesError, OneStatus
    <3>4. StreamInOrder'
      BY <1>7, <1>a, <3>1
         DEF Load!FramesError, StreamInOrder, Has, Load!Loading, Load!NoLoad, Before
    <3>5. OutcomeTold'
      BY <1>7, <2>2, <1>a, <3>1
         DEF Load!FramesError, OutcomeTold, Has, Load!Loading, Load!NoLoad, Before, Refused
    <3>6. StatusKept'
      BY <1>7, <1>a, <3>1 DEF Load!FramesError, StatusKept
    <3>7. Load!NoStrayWrites'
      BY <1>a, <3>1 DEF Load!NoStrayWrites, Load!Frames
    <3> QED
      BY <3>2, <3>3, <3>4, <3>5, <3>6, <3>7 DEF LoadInv
  <2> QED
    BY <2>1, <2>2
<1>8. ASSUME Load!Releases PROVE LoadInv'
  <2>1. wire # <<>> /\ wire' = Append(wire, "reclaimed")
    BY <1>8, <1>a DEF Load!Releases, OneStatus, StreamInOrder
  <2>2. Grows("reclaimed") /\ wire'[1] = wire[1]
    BY <2>1, <1>a, <1>b, AppendGrows
  <2>3. /\ wire' \in Seq(Frame) /\ wire' # <<>>
        /\ \A i \in DOMAIN wire' : wire'[i] \in StatusLines <=> i = 1
        /\ Has(wire', "reclaimed") <=> Has(wire, "reclaimed") \/ TRUE
        /\ Has(wire', "error") <=> Has(wire, "error")
        /\ Has(wire', "body") <=> Has(wire, "body")
        /\ Load!NoStrayWrites'
    BY <2>2, <1>b, GrowsBy
  <2>11. LoadTypes'
    BY <1>8, <1>a, <2>1, <2>2, <2>3 DEF Load!Releases, LoadTypes, Before, After, Refused
  <2>12. OneStatus'
    BY <1>8, <1>a, <2>1, <2>2, <2>3 DEF Load!Releases, LoadTypes, OneStatus
  <2>13. StreamInOrder'
    BY <1>8, <1>a, <2>1, <2>2, <2>3
       DEF Load!Releases, LoadTypes, StreamInOrder, Load!Loading, Load!NoLoad, Before
  <2>14. OutcomeTold'
    BY <1>8, <1>a, <2>1, <2>2, <2>3
       DEF Load!Releases, LoadTypes, OneStatus, StreamInOrder, OutcomeTold, Load!Loading,
           Load!NoLoad,
       Before, After, Refused
  <2>15. StatusKept'
    BY <1>8, <1>a, <2>1, <2>2, <2>3
       DEF Load!Releases, LoadTypes, OneStatus, StatusKept, StreamInOrder, After, Before,
           Load!Loading, Load!NoLoad
  <2> QED
    BY <2>11, <2>12, <2>13, <2>14, <2>15, <2>3 DEF LoadInv
<1>9. ASSUME Load!LoaderTick PROVE LoadInv'
  <2>1. wire # <<>> /\ wire \in Seq(Frame)
    BY <1>9, <1>a
       DEF Load!LoaderTick, OneStatus, StreamInOrder, Load!Loading, Load!NoLoad, LoadTypes
  <2>2. wire' = wire \/ (~released /\ wire' = Append(wire, "chunk"))
    BY <1>9, <2>1 DEF Load!LoaderTick, Load!LoaderSends, Load!Sent
  <2>3. CASE wire' = wire
    <3>1. LoadTypes'
      BY <1>9, <1>a, <2>3 DEF Load!LoaderTick, LoadTypes
    <3>2. OneStatus'
      BY <1>9, <1>a, <2>3 DEF Load!LoaderTick, OneStatus
    <3>3. StreamInOrder'
      BY <1>9, <1>a, <2>3 DEF Load!LoaderTick, StreamInOrder, Has, Load!Loading, Load!NoLoad
    <3>4. OutcomeTold'
      BY <1>9, <1>a, <2>3 DEF Load!LoaderTick, OutcomeTold, Has, Load!Loading, Load!NoLoad
    <3>5. StatusKept'
      BY <1>9, <1>a, <2>3 DEF Load!LoaderTick, StatusKept
    <3>6. Load!NoStrayWrites'
      BY <1>a, <2>3 DEF Load!NoStrayWrites, Load!Frames
    <3> QED
      BY <3>1, <3>2, <3>3, <3>4, <3>5, <3>6 DEF LoadInv
  <2>4. CASE ~released /\ wire' = Append(wire, "chunk")
    <3>1. ~Has(wire, "reclaimed")
      BY <2>4, <1>a DEF StreamInOrder
    <3>2. Grows("chunk") /\ wire'[1] = wire[1]
      BY <2>1, <2>4, <3>1, <1>a, <1>b, AppendGrows
    <3>3. /\ wire' \in Seq(Frame) /\ wire' # <<>>
          /\ \A i \in DOMAIN wire' : wire'[i] \in StatusLines <=> i = 1
          /\ Has(wire', "reclaimed") <=> Has(wire, "reclaimed")
          /\ Has(wire', "error") <=> Has(wire, "error")
          /\ Has(wire', "body") <=> Has(wire, "body")
          /\ Load!NoStrayWrites'
      BY <3>2, <1>b, GrowsBy
    <3>11. LoadTypes'
      BY <1>9, <1>a, <2>1, <3>2, <3>3 DEF Load!LoaderTick, LoadTypes, Before, After, Refused
    <3>12. OneStatus'
      BY <1>9, <1>a, <2>1, <3>2, <3>3 DEF Load!LoaderTick, LoadTypes, OneStatus
    <3>13. StreamInOrder'
      BY <1>9, <1>a, <2>1, <3>2, <3>3
         DEF Load!LoaderTick, LoadTypes, StreamInOrder, Load!Loading, Load!NoLoad, Before
    <3>14. OutcomeTold'
      BY <1>9, <1>a, <2>1, <3>2, <3>3
         DEF Load!LoaderTick, LoadTypes, OneStatus, StreamInOrder, OutcomeTold, Load!Loading,
             Load!NoLoad,
         Before, After, Refused
    <3>15. StatusKept'
      BY <1>9, <1>a, <2>1, <3>2, <3>3
         DEF Load!LoaderTick, LoadTypes, OneStatus, StatusKept, StreamInOrder, After, Before,
             Load!Loading, Load!NoLoad
    <3> QED
      BY <3>11, <3>12, <3>13, <3>14, <3>15, <3>3 DEF LoadInv
  <2> QED
    BY <2>2, <2>3, <2>4
<1>10. ASSUME Load!LoaderCleansUp PROVE LoadInv'
  <2>1. wire # <<>> /\ wire \in Seq(Frame)
    BY <1>10, <1>a
       DEF Load!LoaderCleansUp, OneStatus, StreamInOrder, Load!Loading, Load!NoLoad, LoadTypes
  <2>2. wire' = wire \/ (~released /\ wire' = Append(wire, "done"))
    BY <1>10, <2>1 DEF Load!LoaderCleansUp, Load!LoaderSends, Load!Sent
  <2>3. CASE wire' = wire
    <3>1. LoadTypes'
      BY <1>10, <1>a, <2>3 DEF Load!LoaderCleansUp, LoadTypes
    <3>2. OneStatus'
      BY <1>10, <1>a, <2>3 DEF Load!LoaderCleansUp, OneStatus
    <3>3. StreamInOrder'
      BY <1>10, <1>a, <2>3 DEF Load!LoaderCleansUp, StreamInOrder, Has, Load!Loading, Load!NoLoad
    <3>4. OutcomeTold'
      BY <1>10, <1>a, <2>3 DEF Load!LoaderCleansUp, OutcomeTold, Has, Load!Loading, Load!NoLoad
    <3>5. StatusKept'
      BY <1>10, <1>a, <2>3 DEF Load!LoaderCleansUp, StatusKept
    <3>6. Load!NoStrayWrites'
      BY <1>a, <2>3 DEF Load!NoStrayWrites, Load!Frames
    <3> QED
      BY <3>1, <3>2, <3>3, <3>4, <3>5, <3>6 DEF LoadInv
  <2>4. CASE ~released /\ wire' = Append(wire, "done")
    <3>1. ~Has(wire, "reclaimed")
      BY <2>4, <1>a DEF StreamInOrder
    <3>2. Grows("done") /\ wire'[1] = wire[1]
      BY <2>1, <2>4, <3>1, <1>a, <1>b, AppendGrows
    <3>3. /\ wire' \in Seq(Frame) /\ wire' # <<>>
          /\ \A i \in DOMAIN wire' : wire'[i] \in StatusLines <=> i = 1
          /\ Has(wire', "reclaimed") <=> Has(wire, "reclaimed")
          /\ Has(wire', "error") <=> Has(wire, "error")
          /\ Has(wire', "body") <=> Has(wire, "body")
          /\ Load!NoStrayWrites'
      BY <3>2, <1>b, GrowsBy
    <3>11. LoadTypes'
      BY <1>10, <1>a, <2>1, <3>2, <3>3 DEF Load!LoaderCleansUp, LoadTypes, Before, After, Refused
    <3>12. OneStatus'
      BY <1>10, <1>a, <2>1, <3>2, <3>3 DEF Load!LoaderCleansUp, LoadTypes, OneStatus
    <3>13. StreamInOrder'
      BY <1>10, <1>a, <2>1, <3>2, <3>3
         DEF Load!LoaderCleansUp, LoadTypes, StreamInOrder, Load!Loading, Load!NoLoad, Before
    <3>14. OutcomeTold'
      BY <1>10, <1>a, <2>1, <3>2, <3>3
         DEF Load!LoaderCleansUp, LoadTypes, OneStatus, StreamInOrder, OutcomeTold, Load!Loading,
             Load!NoLoad,
         Before, After, Refused
    <3>15. StatusKept'
      BY <1>10, <1>a, <2>1, <3>2, <3>3
         DEF Load!LoaderCleansUp, LoadTypes, OneStatus, StatusKept, StreamInOrder, After, Before,
             Load!Loading, Load!NoLoad
    <3> QED
      BY <3>11, <3>12, <3>13, <3>14, <3>15, <3>3 DEF LoadInv
  <2> QED
    BY <2>2, <2>3, <2>4
<1>11. ASSUME Load!Admitted PROVE LoadInv'
  <2>1. CASE UNCHANGED <<Load!writerVars, loader>>
    <3>0. wire' = wire
      BY <2>1 DEF Load!writerVars
    <3>1. LoadTypes'
      BY <1>11, <2>1, <1>a DEF Load!Admitted, Load!writerVars, LoadTypes, Before
    <3>2. OneStatus'
      BY <2>1, <1>a DEF Load!writerVars, OneStatus
    <3>3. StreamInOrder'
      BY <1>11, <2>1, <1>a, <3>0
         DEF Load!Admitted, Load!writerVars, StreamInOrder, Has, Load!Loading, Load!NoLoad, Before
    <3>4. OutcomeTold'
      BY <1>11, <2>1, <1>a, <3>0
         DEF Load!Admitted, Load!writerVars, OutcomeTold, Has, Load!Loading, Load!NoLoad, Before,
             Refused
    <3>5. StatusKept'
      BY <1>11, <2>1, <1>a, <3>0 DEF Load!Admitted, Load!writerVars, StatusKept
    <3>6. Load!NoStrayWrites'
      BY <1>a, <3>0 DEF Load!NoStrayWrites, Load!Frames
    <3> QED
      BY <3>1, <3>2, <3>3, <3>4, <3>5, <3>6 DEF LoadInv
  <2>2. CASE Load!Answer(Load!OK, <<"chunk">>) /\ loader' = "loop"
    <3>1. ~copier.wrote /\ ~Has(wire, "reclaimed")
      BY <1>11, <1>a DEF Load!Admitted, StreamInOrder, OneStatus, Has, Before
    <3>2. /\ Grows("chunk")
          /\ copier' = [status |-> Load!OK, wrote |-> TRUE]
          /\ access' = [status |-> Load!OK, wrote |-> TRUE]
          /\ wire'[1] = copier'.status /\ wire'[1] = access'.status
      BY <2>2, <3>1, <1>a, <1>b, AnswerGrows
    <3>3. /\ wire' \in Seq(Frame) /\ wire' # <<>>
          /\ \A i \in DOMAIN wire' : wire'[i] \in StatusLines <=> i = 1
          /\ Has(wire', "reclaimed") <=> Has(wire, "reclaimed")
          /\ Has(wire', "error") <=> Has(wire, "error")
          /\ Has(wire', "body") <=> Has(wire, "body")
          /\ Load!NoStrayWrites'
      BY <3>2, <1>b, GrowsBy
    <3>11. LoadTypes'
      BY <1>11, <2>2, <1>a, <1>b, <3>1, <3>2, <3>3
         DEF Load!Admitted, LoadTypes, Before, After, Refused
    <3>12. OneStatus'
      BY <1>11, <2>2, <1>a, <1>b, <3>1, <3>2, <3>3 DEF Load!Admitted, LoadTypes, OneStatus
    <3>13. StreamInOrder'
      BY <1>11, <2>2, <1>a, <1>b, <3>1, <3>2, <3>3
         DEF Load!Admitted, LoadTypes, StreamInOrder, Load!Loading, Load!NoLoad, Before
    <3>14. OutcomeTold'
      BY <1>11, <2>2, <1>a, <1>b, <3>1, <3>2, <3>3
         DEF Load!Admitted, LoadTypes, OneStatus, StreamInOrder, OutcomeTold, Load!Loading,
             Load!NoLoad,
         Before, After, Refused
    <3>15. StatusKept'
      BY <1>11, <2>2, <1>a, <1>b, <3>1, <3>2, <3>3
         DEF Load!Admitted, LoadTypes, OneStatus, StatusKept, StreamInOrder, After, Before,
             Load!Loading, Load!NoLoad
    <3> QED
      BY <3>11, <3>12, <3>13, <3>14, <3>15, <3>3 DEF LoadInv
  <2> QED
    BY <1>11, <2>1, <2>2 DEF Load!Admitted
<1>12. ASSUME Load!Answers PROVE LoadInv'
  <2>0. caller = "answer" /\ caller' = "metrics" /\ UNCHANGED <<here, outcome, loader, swapOver, released, recorded>>
    BY <1>12 DEF Load!Answers
  <2>1. \/ UNCHANGED Load!writerVars /\ (outcome \in Refused => Load!Loading \/ copier.wrote)
                                    /\ (outcome = "granted" => copier.wrote)
        \/ /\ ~Load!Loading /\ ~copier.wrote /\ outcome \in Refused
           /\ Load!Answer(Refusal, <<"body">>)
        \/ /\ outcome = "granted"
           /\ \E s \in StatusLines : Load!Answer(s, <<"body">>)
        \/ /\ outcome = "granted" /\ ~copier.wrote /\ ~here
           /\ copier' = Load!MarkCopier /\ access' = Load!MarkAccess(copier) /\ wire' = wire
    <3>1. outcome \in Refused \/ outcome = "gone" \/ outcome = "granted"
      BY <2>0, <1>a DEF LoadTypes, OutcomeTold
    <3>2. CASE outcome \in Refused
      BY <3>2, <1>12 DEF Load!Answers, Refused
    <3>3. CASE outcome = "gone"
      BY <3>3, <1>12 DEF Load!Answers, Refused
    <3>4. CASE outcome = "granted"
      <4>1. \/ \E s \in Statuses : Load!Answer(s, <<"body">>)
            \/ copier.wrote /\ UNCHANGED Load!writerVars
            \/ ~copier.wrote /\ ~here /\ copier' = Load!MarkCopier /\ access' = Load!MarkAccess(copier) /\ wire' = wire
            \/ Load!Answer(Load!BadGateway, <<"body">>)
        BY <3>4, <1>12 DEF Load!Answers
      <4> QED
        BY <4>1, <3>4, <1>b DEF Refused
    <3> QED
      BY <3>1, <3>2, <3>3, <3>4
  <2>2. CASE UNCHANGED Load!writerVars /\ (outcome \in Refused => Load!Loading \/ copier.wrote)
                                      /\ (outcome = "granted" => copier.wrote)
    <3>0. wire' = wire /\ UNCHANGED <<copier, access>>
      BY <2>2 DEF Load!writerVars
    <3>1. LoadTypes'
      BY <2>0, <3>0, <1>a DEF LoadTypes, After
    <3>2. OneStatus'
      BY <3>0, <1>a DEF OneStatus
    <3>3. StreamInOrder'
      BY <2>0, <1>a, <3>0 DEF StreamInOrder, Has, Load!Loading, Load!NoLoad, Before
    <3>4. OutcomeTold'
      BY <2>0, <2>2, <1>a, <3>0
         DEF StreamInOrder, OutcomeTold, Has, Load!Loading, Load!NoLoad, Before, Refused
    <3>5. StatusKept'
      BY <2>0, <2>2, <1>a, <3>0 DEF StatusKept
    <3>6. Load!NoStrayWrites'
      BY <1>a, <3>0 DEF Load!NoStrayWrites, Load!Frames
    <3> QED
      BY <3>1, <3>2, <3>3, <3>4, <3>5, <3>6 DEF LoadInv
  <2>3. CASE /\ ~Load!Loading /\ ~copier.wrote /\ outcome \in Refused
             /\ Load!Answer(Refusal, <<"body">>)
    <3>2. /\ Grows("body")
          /\ copier' = [status |-> Refusal, wrote |-> TRUE]
          /\ access' = [status |-> Refusal, wrote |-> TRUE]
          /\ wire'[1] = copier'.status /\ wire'[1] = access'.status
      BY <2>3, <1>a, <1>b, AnswerGrows
    <3>3. /\ wire' \in Seq(Frame) /\ wire' # <<>>
          /\ \A i \in DOMAIN wire' : wire'[i] \in StatusLines <=> i = 1
          /\ Has(wire', "reclaimed") <=> Has(wire, "reclaimed")
          /\ Has(wire', "error") <=> Has(wire, "error")
          /\ Has(wire', "body") <=> Has(wire, "body") \/ TRUE
          /\ Load!NoStrayWrites'
      BY <3>2, <1>b, GrowsBy
    <3>11. LoadTypes'
      BY <2>0, <2>3, <1>a, <1>b, <3>2, <3>3 DEF Load!Unwritten, LoadTypes, Before, After, Refused
    <3>12. OneStatus'
      BY <2>0, <2>3, <1>a, <1>b, <3>2, <3>3 DEF Load!Unwritten, LoadTypes, OneStatus
    <3>13. StreamInOrder'
      BY <2>0, <2>3, <1>a, <1>b, <3>2, <3>3
         DEF Load!Unwritten, LoadTypes, StreamInOrder, Load!Loading, Load!NoLoad, Before
    <3>14. OutcomeTold'
      BY <2>0, <2>3, <1>a, <1>b, <3>2, <3>3
         DEF Load!Unwritten, LoadTypes, OneStatus, StreamInOrder, OutcomeTold, Load!Loading,
             Load!NoLoad,
         Before, After, Refused
    <3>15. StatusKept'
      BY <2>0, <2>3, <1>a, <1>b, <3>2, <3>3
         DEF Load!Unwritten, LoadTypes, OneStatus, StatusKept, StreamInOrder, After, Before,
             Load!Loading, Load!NoLoad
    <3> QED
      BY <3>11, <3>12, <3>13, <3>14, <3>15, <3>3 DEF LoadInv
  <2>4. CASE outcome = "granted" /\ \E s \in StatusLines : Load!Answer(s, <<"body">>)
    <3>1. PICK s \in StatusLines : Load!Answer(s, <<"body">>)
      BY <2>4
    <3>2. /\ Grows("body")
          /\ copier' = IF copier.wrote THEN copier ELSE [status |-> s, wrote |-> TRUE]
          /\ access' = IF copier.wrote THEN access ELSE [status |-> s, wrote |-> TRUE]
          /\ wire'[1] = copier'.status /\ wire'[1] = access'.status
      BY <3>1, <1>a, AnswerGrows
    <3>3. /\ wire' \in Seq(Frame) /\ wire' # <<>>
          /\ \A i \in DOMAIN wire' : wire'[i] \in StatusLines <=> i = 1
          /\ Has(wire', "reclaimed") <=> Has(wire, "reclaimed")
          /\ Has(wire', "error") <=> Has(wire, "error")
          /\ Has(wire', "body") <=> Has(wire, "body") \/ TRUE
          /\ Load!NoStrayWrites'
      BY <3>2, <1>b, GrowsBy
    <3>11. LoadTypes'
      BY <2>0, <2>4, <1>a, <3>2, <3>3 DEF Load!Unwritten, LoadTypes, Before, After, Refused
    <3>12. OneStatus'
      BY <2>0, <2>4, <1>a, <3>2, <3>3 DEF Load!Unwritten, LoadTypes, OneStatus
    <3>13. StreamInOrder'
      BY <2>0, <2>4, <1>a, <3>2, <3>3
         DEF Load!Unwritten, LoadTypes, StreamInOrder, Load!Loading, Load!NoLoad, Before
    <3>14. OutcomeTold'
      BY <2>0, <2>4, <1>a, <3>2, <3>3
         DEF Load!Unwritten, LoadTypes, OneStatus, StreamInOrder, OutcomeTold, Load!Loading,
             Load!NoLoad,
         Before, After, Refused
    <3>15. StatusKept'
      BY <2>0, <2>4, <1>a, <3>2, <3>3
         DEF Load!Unwritten, LoadTypes, OneStatus, StatusKept, StreamInOrder, After, Before,
             Load!Loading, Load!NoLoad
    <3> QED
      BY <3>11, <3>12, <3>13, <3>14, <3>15, <3>3 DEF LoadInv
  <2>5. CASE /\ outcome = "granted" /\ ~copier.wrote /\ ~here
             /\ copier' = Load!MarkCopier /\ access' = Load!MarkAccess(copier) /\ wire' = wire
    <3>0. copier' = [copier EXCEPT !.status = LeftStatus] /\ access' = [access EXCEPT !.status = LeftStatus]
      BY <2>5 DEF Load!MarkCopier, Load!MarkAccess
    <3>1. LoadTypes'
      BY <2>0, <2>5, <3>0, <1>a DEF LoadTypes, After
    <3>2. OneStatus'
      BY <2>5, <3>0, <1>a DEF OneStatus, LoadTypes
    <3>3. StreamInOrder'
      BY <2>0, <2>5, <1>a, <3>0 DEF LoadTypes, StreamInOrder, Has, Load!Loading, Load!NoLoad, Before
    <3>4. OutcomeTold'
      BY <2>0, <2>5, <1>a, <3>0
         DEF StreamInOrder, OutcomeTold, Has, Load!Loading, Load!NoLoad, Before, Refused
    <3>5. StatusKept'
      BY <2>0, <2>5, <1>a, <3>0 DEF LoadTypes, StatusKept
    <3>6. Load!NoStrayWrites'
      BY <1>a, <2>5 DEF Load!NoStrayWrites, Load!Frames
    <3> QED
      BY <3>1, <3>2, <3>3, <3>4, <3>5, <3>6 DEF LoadInv
  <2> QED
    BY <2>1, <2>2, <2>3, <2>4, <2>5
<1> QED
  BY <1>1, <1>2, <1>3, <1>4, <1>5, <1>6, <1>7, <1>8, <1>9, <1>10, <1>11, <1>12 DEF Load!Next

\* Kept beside LoadInv: one error frame at most, none before the caller frames
\* it, and without a stream nothing but a status and its body.
OneTold ==
  /\ \A i, j \in DOMAIN wire : wire[i] = "error" /\ wire[j] = "error" => i = j
  /\ caller \in {"new", "wait", "finish"} => ~Has(wire, "error")
  /\ ~Load!Loading => wire = <<>> \/ \E s \in StatusLines : wire = <<s, "body">>

\* What a step may do to the wire, and when.
WireMoves ==
  \/ wire' = wire /\ (Load!Loading' <=> Load!Loading)
  \/ wire # <<>> /\ Load!Loading' /\ \E f \in Kinds \ {"error"} : wire' = Append(wire, f)
  \/ wire # <<>> /\ Load!Loading' /\ caller = "finish" /\ caller' = "release"
       /\ wire' = Append(wire, "error")
  \/ wire = <<>> /\ Load!Loading' /\ \E s \in StatusLines : wire' = <<s, "chunk">>
  \/ wire = <<>> /\ \E s \in StatusLines : wire' = <<s, "body">>

LEMMA AnswerMoves ==
  ASSUME LoadTypes, OneStatus, NEW s \in StatusLines, NEW f \in {"chunk", "body"},
         Load!Answer(s, <<f>>)
  PROVE  /\ copier.wrote => wire # <<>> /\ wire' = Append(wire, f)
         /\ ~copier.wrote => wire = <<>> /\ wire' = <<s, f>>
<1>1. f \in Kinds
  BY DEF Kinds
<1>2. /\ copier.wrote => wire # <<>> /\ wire' = Append(wire, f)
      /\ ~copier.wrote => wire = <<>> /\ wire' = Append(<<s>>, f)
  BY <1>1, AnswerShape
<1>3. Append(<<s>>, f) = <<s, f>>
  <2>1. f \in Frame /\ s \in Frame
    BY <1>1 DEF Frame
  <2>2. <<s>> \in Seq(Frame) /\ Len(<<s>>) = 1 /\ <<s>>[1] = s
    BY <2>1
  <2>3. /\ Append(<<s>>, f) \in Seq(Frame) /\ Len(Append(<<s>>, f)) = 2
        /\ Append(<<s>>, f)[1] = s /\ Append(<<s>>, f)[2] = f
    BY <2>1, <2>2, AppendProperties
  <2>4. <<s, f>> \in Seq(Frame) /\ Len(<<s, f>>) = 2 /\ <<s, f>>[1] = s /\ <<s, f>>[2] = f
    BY <2>1
  <2>5. \A i \in 1..2 : Append(<<s>>, f)[i] = <<s, f>>[i]
    BY <2>3, <2>4
  <2> QED
    BY <2>3, <2>4, <2>5, SeqEqual
<1> QED
  BY <1>2, <1>3

LEMMA StepsMoveWire ==
  ASSUME LoadInv, [Load!Next]_(Load!loadVars)
  PROVE  /\ WireMoves
         /\ caller' \in {"new", "wait", "finish"} => caller \in {"new", "wait", "finish"}
<1>a. LoadTypes /\ OneStatus /\ StreamInOrder /\ OutcomeTold
  BY DEF LoadInv
<1>b. /\ "chunk" \in Kinds \ {"error"} /\ "done" \in Kinds \ {"error"} /\ "reclaimed" \in Kinds \ {"error"}
      /\ "body" \in Kinds \ {"error"}
      /\ Load!OK \in StatusLines /\ Refusal \in StatusLines /\ Load!BadGateway \in StatusLines
      /\ Statuses \subseteq StatusLines
  BY DEF Kinds, StatusLines
<1>c. Load!Loading => wire # <<>>
  BY <1>a DEF OneStatus, StreamInOrder
<1> DEFINE Early == caller' \in {"new", "wait", "finish"} => caller \in {"new", "wait", "finish"}
<1>1. ASSUME Load!ClientLeaves \/ Load!MetricsRecord \/ Load!AccessLog \/ UNCHANGED Load!loadVars
      PROVE  WireMoves /\ Early
  <2>1. wire' = wire /\ loader' = loader
    BY <1>1 DEF Load!ClientLeaves, Load!MetricsRecord, Load!AccessLog, Load!loadVars, Load!writerVars
  <2>2. Early
    BY <1>1 DEF Load!ClientLeaves, Load!MetricsRecord, Load!AccessLog, Load!loadVars
  <2> QED
    BY <2>1, <2>2 DEF WireMoves, Load!Loading
<1>2. ASSUME NEW what \in {"granted", "refused", "shutdown", "gone"}, Load!Receives(what)
      PROVE  WireMoves /\ Early
  BY <1>2 DEF Load!Receives, Load!writerVars, WireMoves, Load!Loading
<1>3. ASSUME Load!FramesError PROVE WireMoves /\ Early
  <2>1. caller = "finish" /\ caller' = "release" /\ Load!Loading /\ Load!Loading'
    BY <1>3, <1>a DEF Load!FramesError, StreamInOrder, Load!Loading, Load!NoLoad
  <2>2. wire' = wire \/ wire' = Append(wire, "error")
    BY <1>3 DEF Load!FramesError
  <2> QED
    BY <2>1, <2>2, <1>c DEF WireMoves
<1>4. ASSUME Load!Releases PROVE WireMoves /\ Early
  <2>1. caller = "release" /\ caller' = "answer" /\ Load!Loading /\ Load!Loading'
    BY <1>4, <1>a DEF Load!Releases, StreamInOrder, Load!Loading, Load!NoLoad
  <2>2. wire' = Append(wire, "reclaimed")
    BY <1>4 DEF Load!Releases
  <2> QED
    BY <2>1, <2>2, <1>b, <1>c DEF WireMoves
<1>5. ASSUME Load!LoaderTick \/ Load!LoaderEnds \/ Load!LoaderCleansUp PROVE WireMoves /\ Early
  <2>1. Load!Loading /\ Load!Loading' /\ caller' = caller
    BY <1>5 DEF Load!LoaderTick, Load!LoaderEnds, Load!LoaderCleansUp, Load!Loading, Load!NoLoad
  <2>2. wire' = wire \/ wire' = Append(wire, "chunk") \/ wire' = Append(wire, "done")
    BY <1>5 DEF Load!LoaderTick, Load!LoaderEnds, Load!LoaderCleansUp, Load!LoaderSends, Load!Sent,
                Load!writerVars
  <2> QED
    BY <2>1, <2>2, <1>b, <1>c DEF WireMoves
<1>6. ASSUME Load!Admitted PROVE WireMoves /\ Early
  <2>1. caller = "new" /\ ~copier.wrote
    BY <1>6, <1>a DEF Load!Admitted, StreamInOrder, Before
  <2>2. CASE UNCHANGED <<Load!writerVars, loader>>
    BY <2>1, <2>2 DEF WireMoves, Load!writerVars, Load!Loading
  <2>3. CASE Load!Answer(Load!OK, <<"chunk">>) /\ loader' = "loop"
    <3>1. wire = <<>> /\ wire' = <<Load!OK, "chunk">>
      BY <2>1, <2>3, <1>a, <1>b, AnswerMoves
    <3>2. Load!Loading'
      BY <2>3 DEF Load!Loading, Load!NoLoad
    <3> QED
      BY <2>1, <3>1, <3>2, <1>b DEF WireMoves
  <2> QED
    BY <1>6, <2>2, <2>3 DEF Load!Admitted
<1>7. ASSUME Load!Answers PROVE WireMoves /\ Early
  <2>1. caller = "answer" /\ caller' = "metrics" /\ loader' = loader
    BY <1>7 DEF Load!Answers
  <2>2. wire' = wire \/ \E s \in StatusLines : Load!Answer(s, <<"body">>)
    <3>1. CASE outcome \in {"refused", "shutdown"}
      BY <3>1, <1>7, <1>b DEF Load!Answers, Load!writerVars
    <3>2. CASE outcome = "gone"
      BY <3>2, <1>7 DEF Load!Answers, Load!writerVars
    <3>3. CASE outcome = "granted" \/ outcome = "none"
      BY <3>3, <1>7, <1>b DEF Load!Answers, Load!writerVars
    <3> QED
      BY <3>1, <3>2, <3>3, <1>a DEF LoadTypes, Refused
  <2>3. CASE wire' = wire
    BY <2>1, <2>3 DEF WireMoves, Load!Loading
  <2>4. CASE \E s \in StatusLines : Load!Answer(s, <<"body">>)
    <3>1. PICK s \in StatusLines : Load!Answer(s, <<"body">>)
      BY <2>4
    <3>2. /\ copier.wrote => wire # <<>> /\ wire' = Append(wire, "body")
          /\ ~copier.wrote => wire = <<>> /\ wire' = <<s, "body">>
      BY <3>1, <1>a, AnswerMoves
    <3>3. copier.wrote => Load!Loading
      BY <2>1, <1>a DEF StreamInOrder, Before
    <3>4. Load!Loading' <=> Load!Loading
      BY <2>1 DEF Load!Loading
    <3> QED
      BY <2>1, <3>2, <3>3, <3>4, <1>b DEF WireMoves
  <2> QED
    BY <2>2, <2>3, <2>4
<1> QED
  BY <1>1, <1>2, <1>3, <1>4, <1>5, <1>6, <1>7 DEF Load!Next

LEMMA OneToldStep == LoadInv /\ OneTold /\ [Load!Next]_(Load!loadVars) => OneTold'
<1> SUFFICES ASSUME LoadInv, OneTold, [Load!Next]_(Load!loadVars) PROVE OneTold'
  OBVIOUS
<1>1. /\ WireMoves
      /\ caller' \in {"new", "wait", "finish"} => caller \in {"new", "wait", "finish"}
  BY StepsMoveWire
<1>2. wire \in Seq(Frame) /\ "error" \in Frame /\ Kinds \subseteq Frame
  BY DEF LoadInv, LoadTypes, Frame, Kinds
<1>3. CASE wire' = wire /\ (Load!Loading' <=> Load!Loading)
  BY <1>1, <1>3 DEF OneTold, Has
<1>4. ASSUME NEW f \in Kinds, wire # <<>>, Load!Loading', wire' = Append(wire, f),
             f = "error" => ~Has(wire, "error") /\ caller' = "release"
      PROVE  OneTold'
  <2>1. /\ DOMAIN wire = 1..Len(wire) /\ Len(wire) \in Nat
        /\ DOMAIN wire' = 1..(Len(wire) + 1)
        /\ \A i \in 1..Len(wire) : wire'[i] = wire[i]
        /\ wire'[Len(wire) + 1] = f
    BY <1>2, <1>4, AppendProperties
  <2>2. \A i \in DOMAIN wire' : i \in DOMAIN wire \/ i = Len(wire) + 1
    BY <2>1
  <2>3. ASSUME NEW i \in DOMAIN wire', NEW j \in DOMAIN wire', wire'[i] = "error", wire'[j] = "error"
        PROVE  i = j
    <3>1. CASE f = "error"
      BY <3>1, <2>1, <2>2, <2>3, <1>4 DEF Has
    <3>2. CASE f # "error"
      BY <3>2, <2>1, <2>2, <2>3 DEF OneTold
    <3> QED
      BY <3>1, <3>2
  <2>4. caller' \in {"new", "wait", "finish"} => ~Has(wire', "error")
    BY <1>1, <1>4, <2>1, <2>2 DEF OneTold, Has
  <2> QED
    BY <1>4, <2>3, <2>4 DEF OneTold
<1>5. ASSUME NEW s \in StatusLines, NEW f \in {"chunk", "body"}, wire' = <<s, f>>,
             f = "chunk" => Load!Loading'
      PROVE  OneTold'
  <2>1. s # "error" /\ f # "error"
    BY StatusesApart DEF Kinds
  <2>2. DOMAIN wire' = {1, 2} /\ wire'[1] = s /\ wire'[2] = f
    BY <1>5
  <2>3. ~Has(wire', "error")
    BY <2>1, <2>2 DEF Has
  <2>4. ~Load!Loading' => wire' = <<s, "body">>
    BY <1>5
  <2> QED
    BY <2>3, <2>4 DEF OneTold, Has
<1>6. CASE wire # <<>> /\ Load!Loading' /\ \E f \in Kinds \ {"error"} : wire' = Append(wire, f)
  BY <1>6, <1>4
<1>7. CASE /\ wire # <<>> /\ Load!Loading' /\ caller = "finish" /\ caller' = "release"
           /\ wire' = Append(wire, "error")
  <2>1. "error" \in Kinds /\ ~Has(wire, "error")
    BY <1>7 DEF Kinds, OneTold
  <2> QED
    BY <1>7, <2>1, <1>4
<1>8. CASE wire = <<>> /\ Load!Loading' /\ \E s \in StatusLines : wire' = <<s, "chunk">>
  BY <1>8, <1>5
<1>9. CASE wire = <<>> /\ \E s \in StatusLines : wire' = <<s, "body">>
  BY <1>9, <1>5
<1> QED
  BY <1>1, <1>3, <1>6, <1>7, <1>8, <1>9 DEF WireMoves

\* For any statuses and any pace of the loading stream: nothing of its own
\* behind what the handler sends, errors told once, one status in the answer and
\* both logs (loading.go, base.go, metrics.go, log.go).
THEOREM LoadSound == Load!Spec => []Load!ResponseIsSound
<1>1. LoadInv /\ OneTold => Load!ResponseIsSound
  <2> SUFFICES ASSUME LoadInv, OneTold PROVE Load!ResponseIsSound
    OBVIOUS
  <2>1. LoadTypes /\ OneStatus /\ StreamInOrder /\ OutcomeTold /\ StatusKept /\ Load!NoStrayWrites
    BY DEF LoadInv
  <2>2. /\ Load!Heads = IF wire = <<>> THEN {} ELSE {1}
        /\ Load!Frames({"error"}) # {} <=> Has(wire, "error")
        /\ Load!Frames({"body"}) # {} <=> Has(wire, "body")
    <3>1. Load!Heads = {i \in DOMAIN wire : wire[i] \in StatusLines}
      BY DEF Load!Heads, Load!Frames, StatusLines
    <3>2. wire # <<>> <=> 1 \in DOMAIN wire
      BY <2>1, EmptySeq DEF LoadTypes
    <3>3. Load!Heads = {i \in DOMAIN wire : i = 1}
      BY <3>1, <2>1 DEF OneStatus
    <3>4. Load!Heads = IF wire = <<>> THEN {} ELSE {1}
      BY <3>2, <3>3
    <3> QED
      BY <3>4 DEF Load!Frames, Has
  <2>3. Load!ErrorToldOnce
    <3> SUFFICES ASSUME caller = "over", outcome \in Refused
                 PROVE  IF Load!Loading
                          THEN /\ \E i \in DOMAIN wire : Load!Frames({"error"}) = {i}
                               /\ Load!Frames({"body"}) = {}
                          ELSE wire = <<Refusal, "body">>
      BY DEF Load!ErrorToldOnce, Refused
    <3>1. CASE Load!Loading
      <4>1. Has(wire, "error") /\ ~Has(wire, "body")
        BY <3>1, <2>1 DEF OutcomeTold, After
      <4>2. PICK i \in DOMAIN wire : wire[i] = "error"
        BY <4>1 DEF Has
      <4>3. Load!Frames({"error"}) = {i}
        BY <4>2 DEF OneTold, Load!Frames
      <4> QED
        BY <3>1, <4>1, <4>3, <2>2
    <3>2. CASE ~Load!Loading
      <4>1. copier.wrote /\ copier.status = Refusal
        BY <3>2, <2>1 DEF OutcomeTold, After
      <4>2. wire # <<>> /\ wire[1] = Refusal
        BY <4>1, <2>1 DEF OneStatus
      <4>3. PICK s \in StatusLines : wire = <<s, "body">>
        BY <3>2, <4>2 DEF OneTold
      <4> QED
        BY <3>2, <4>2, <4>3
    <3> QED
      BY <3>1, <3>2
  <2>4. \A i \in Load!Heads : i = 1
    BY <2>2
  <2>5. ASSUME caller = "over"
        PROVE  IF Load!Heads # {} THEN recorded = wire[1] /\ access.status = wire[1]
                     ELSE /\ outcome \in {"gone", "granted"}
                          /\ outcome = "gone" => recorded = LeftStatus
                          /\ recorded = LeftStatus => access.status = LeftStatus
    <3>1. CASE copier.wrote
      BY <3>1, <2>1, <2>2, <2>5 DEF OneStatus, StatusKept
    <3>2. CASE ~copier.wrote
      <4>1. outcome \in {"gone", "granted"}
        BY <3>2, <2>1, <2>5 DEF LoadTypes, StreamInOrder, OutcomeTold, Refused, After
      <4> QED
        BY <4>1, <3>2, <2>1, <2>2, <2>5 DEF OneStatus, StatusKept
    <3> QED
      BY <3>1, <3>2
  <2>6. Load!StatusIsTrue
    BY <2>4, <2>5 DEF Load!StatusIsTrue
  <2> QED
    BY <2>1, <2>3, <2>6 DEF Load!ResponseIsSound
<1>2. Load!Init => OneTold
  BY DEF Load!Init, OneTold, Has
<1> QED
  BY <1>1, <1>2, LoadInit, LoadStep, OneToldStep, PTL DEF Load!Spec

-----------------------------------------------------------------------------
(* The capability cache.                                                   *)

\* What a refresh holds: the value is that of its probe, none before.
CapTypes ==
  /\ row \in [val : Int, expired : BOOLEAN]
  /\ probing \subseteq Services
  /\ refresh \in [Refreshes -> [at : {"none", "probe", "delete", "miss", "set"},
                               of : Services \cup {0}, val : Int]]
  /\ found \in Nat
  /\ due \in Nat \cup {Cap!Unknown}

\* The single flight: a Service is probing for exactly one goroutine.
OneFlight ==
  /\ \A r \in Refreshes : refresh[r].at # "none" => refresh[r].of \in probing
  /\ \A r1, r2 \in Refreshes :
       /\ refresh[r1].at # "none" /\ refresh[r2].at # "none"
       /\ refresh[r1].of = refresh[r2].of
       => r1 = r2
  /\ \A s \in probing : \E r \in Refreshes : refresh[r].at # "none" /\ refresh[r].of = s

\* While it is known what the row should hold, at most one Service probes, and
\* the row holds it but for the time from the probe's end to the write.
RowIsDue ==
  due # Cap!Unknown =>
    /\ \A s1, s2 \in probing : s1 = s2
    /\ (\A r \in Refreshes : refresh[r].at # "set") => row.val = due /\ ~row.expired
    /\ \A r \in Refreshes : refresh[r].at = "set" => refresh[r].val = due
    /\ \A r \in Refreshes : refresh[r].at = "miss" => due = Cap!Nothing

CapInv == CapTypes /\ OneFlight /\ RowIsDue

LEMMA CapInit == Cap!Init => CapInv
<1> SUFFICES ASSUME Cap!Init PROVE CapInv
  OBVIOUS
<1>1. CapTypes
  BY DEF Cap!Init, Cap!NoRow, Cap!Done, Cap!Nothing, CapTypes
<1>2. OneFlight
  BY DEF Cap!Init, Cap!Done, OneFlight
<1>3. RowIsDue
  BY DEF Cap!Init, Cap!NoRow, Cap!Done, Cap!Nothing, RowIsDue
<1> QED
  BY <1>1, <1>2, <1>3 DEF CapInv

LEMMA CapStep == CapInv /\ [Cap!Next]_(Cap!capVars) => CapInv'
<1> SUFFICES ASSUME CapInv, [Cap!Next]_(Cap!capVars) PROVE CapInv'
  OBVIOUS
<1>a. CapTypes /\ OneFlight /\ RowIsDue
  BY DEF CapInv
<1> USE DEF Cap!Nothing, Cap!Unknown, Cap!Bad
<1>1. CASE UNCHANGED Cap!capVars
  BY <1>1, <1>a DEF CapInv, Cap!capVars, CapTypes, OneFlight, RowIsDue
<1>2. CASE Cap!Expire
  <2>1. CapTypes'
    BY <1>2, <1>a DEF Cap!Expire, CapTypes, Cap!NoRow, Cap!Done
  <2>2. OneFlight'
    BY <1>2, <1>a DEF Cap!Expire, CapTypes, OneFlight, Cap!Done
  <2>3. RowIsDue'
    BY <1>2, <1>a DEF Cap!Expire, CapTypes, OneFlight, RowIsDue, Cap!NoRow, Cap!Done
  <2> QED
    BY <2>1, <2>2, <2>3 DEF CapInv
<1>3. CASE Cap!Damage
  <2>1. CapTypes'
    BY <1>3, <1>a DEF Cap!Damage, CapTypes, Cap!NoRow, Cap!Done
  <2>2. OneFlight'
    BY <1>3, <1>a DEF Cap!Damage, CapTypes, OneFlight, Cap!Done
  <2>3. RowIsDue'
    BY <1>3, <1>a DEF Cap!Damage, CapTypes, OneFlight, RowIsDue, Cap!NoRow, Cap!Done
  <2> QED
    BY <2>1, <2>2, <2>3 DEF CapInv
<1>4. ASSUME NEW l \in Lookups, NEW s \in Services, Cap!LookUp(l, s) PROVE CapInv'
  <2>1. CapTypes'
    BY <1>4, <1>a DEF Cap!LookUp, CapTypes, Cap!NoRow, Cap!Done
  <2>2. OneFlight'
    BY <1>4, <1>a DEF Cap!LookUp, CapTypes, OneFlight, Cap!Done
  <2>3. RowIsDue'
    BY <1>4, <1>a DEF Cap!LookUp, CapTypes, OneFlight, RowIsDue, Cap!NoRow, Cap!Done
  <2> QED
    BY <2>1, <2>2, <2>3 DEF CapInv
<1>5. ASSUME NEW l \in Lookups, Cap!Get(l) PROVE CapInv'
  <2>1. CapTypes'
    BY <1>5, <1>a DEF Cap!Get, Cap!Ends, CapTypes, Cap!NoRow, Cap!Done
  <2>2. OneFlight'
    BY <1>5, <1>a DEF Cap!Get, Cap!Ends, CapTypes, OneFlight, Cap!Done
  <2>3. RowIsDue'
    BY <1>5, <1>a DEF Cap!Get, Cap!Ends, CapTypes, OneFlight, RowIsDue, Cap!NoRow, Cap!Done
  <2> QED
    BY <2>1, <2>2, <2>3 DEF CapInv
<1>6. ASSUME NEW l \in Lookups, Cap!CleanExpired(l) PROVE CapInv'
  <2>1. CapTypes'
    BY <1>6, <1>a DEF Cap!CleanExpired, Cap!Cleaned, CapTypes, Cap!NoRow, Cap!Done
  <2>2. OneFlight'
    BY <1>6, <1>a DEF Cap!CleanExpired, Cap!Cleaned, CapTypes, OneFlight, Cap!Done
  <2>3. RowIsDue'
    BY <1>6, <1>a
       DEF Cap!CleanExpired, Cap!Cleaned, CapTypes, OneFlight, RowIsDue, Cap!NoRow, Cap!Done
  <2> QED
    BY <2>1, <2>2, <2>3 DEF CapInv
<1>7. ASSUME NEW l \in Lookups, Cap!DropBad(l) PROVE CapInv'
  <2>1. CapTypes'
    BY <1>7, <1>a DEF Cap!DropBad, Cap!Ends, CapTypes, Cap!NoRow, Cap!Done
  <2>2. OneFlight'
    BY <1>7, <1>a DEF Cap!DropBad, Cap!Ends, CapTypes, OneFlight, Cap!Done
  <2>3. RowIsDue'
    BY <1>7, <1>a DEF Cap!DropBad, Cap!Ends, CapTypes, OneFlight, RowIsDue, Cap!NoRow, Cap!Done
  <2> QED
    BY <2>1, <2>2, <2>3 DEF CapInv
<1>8. ASSUME NEW l \in Lookups, Cap!LookupRemembers(l) PROVE CapInv'
  <2>1. CapTypes'
    BY <1>8, <1>a DEF Cap!LookupRemembers, Cap!Ends, Cap!Remember, CapTypes, Cap!NoRow, Cap!Done
  <2>2. OneFlight'
    BY <1>8, <1>a DEF Cap!LookupRemembers, Cap!Ends, Cap!Remember, CapTypes, OneFlight, Cap!Done
  <2>3. RowIsDue'
    BY <1>8, <1>a
       DEF Cap!LookupRemembers, Cap!Ends, Cap!Remember, CapTypes, OneFlight, RowIsDue, Cap!NoRow,
           Cap!Done
  <2> QED
    BY <2>1, <2>2, <2>3 DEF CapInv
<1>9. ASSUME NEW r \in Refreshes, NEW s \in Services, Cap!Refresh(r, s) PROVE CapInv'
  <2>1. CapTypes'
    BY <1>9, <1>a DEF Cap!Refresh, CapTypes, Cap!NoRow, Cap!Done
  <2>2. OneFlight'
    BY <1>9, <1>a DEF Cap!Refresh, CapTypes, OneFlight, Cap!Done
  <2>3. RowIsDue'
    BY <1>9, <1>a DEF Cap!Refresh, CapTypes, OneFlight, RowIsDue, Cap!NoRow, Cap!Done
  <2> QED
    BY <2>1, <2>2, <2>3 DEF CapInv
<1>10. ASSUME NEW r \in Refreshes, Cap!Probe(r) PROVE CapInv'
  <2>1. CapTypes'
    BY <1>10, <1>a DEF Cap!Probe, Cap!Remember, Cap!Release, CapTypes, Cap!Done
  <2>2. OneFlight'
    BY <1>10, <1>a DEF Cap!Probe, Cap!Remember, Cap!Release, CapTypes, OneFlight, Cap!Done
  <2>3. RowIsDue'
    <3>0. refresh[r].at = "probe" /\ row' = row /\ refresh[r].of \in probing
      BY <1>10, <1>a DEF Cap!Probe, OneFlight
    <3>1. CASE Cap!Release(r) /\ UNCHANGED due
      BY <3>0, <3>1, <1>a DEF Cap!Release, Cap!Done, CapTypes, OneFlight, RowIsDue
    <3>2. CASE refresh' = [refresh EXCEPT ![r].at = "delete"] /\ UNCHANGED <<probing, due>>
      BY <3>0, <3>2, <1>a DEF CapTypes, RowIsDue
    <3>3. CASE /\ refresh' = [refresh EXCEPT ![r].at = "set", ![r].val = found + 1]
               /\ due' = IF \E s \in probing : s # refresh[r].of THEN Cap!Unknown ELSE found + 1
               /\ UNCHANGED probing
      <4>1. SUFFICES ASSUME due' # Cap!Unknown PROVE RowIsDue'
        BY DEF RowIsDue
      <4>2. due' = found + 1 /\ \A s \in probing : s = refresh[r].of
        BY <3>3, <4>1
      <4>3. \A r1 \in Refreshes : r1 # r => refresh'[r1].at = "none"
        BY <4>2, <3>0, <3>3, <1>a DEF CapTypes, OneFlight
      <4>4. refresh'[r].at = "set" /\ refresh'[r].val = found + 1
        BY <3>3, <1>a DEF CapTypes
      <4> QED
        BY <4>2, <4>3, <4>4, <3>3 DEF RowIsDue
    <3> QED
      BY <1>10, <3>1, <3>2, <3>3 DEF Cap!Probe
  <2> QED
    BY <2>1, <2>2, <2>3 DEF CapInv
<1>11. ASSUME NEW r \in Refreshes, Cap!DeleteRow(r) PROVE CapInv'
  <2>1. CapTypes'
    <3>1. row' \in [val : Int, expired : BOOLEAN]
      <4>1. refresh[r].val \in Int
        BY <1>a DEF CapTypes
      <4>2. [val |-> refresh[r].val, expired |-> FALSE] \in [val : Int, expired : BOOLEAN]
            /\ Cap!NoRow \in [val : Int, expired : BOOLEAN]
        BY <4>1 DEF Cap!NoRow
      <4>3. row \in [val : Int, expired : BOOLEAN]
        BY <1>a DEF CapTypes
      <4>4. row' = row \/ row' = Cap!NoRow
        BY <1>11 DEF Cap!DeleteRow
      <4> QED
        BY <4>2, <4>3, <4>4
    <3>2. refresh' \in [Refreshes -> [at : {"none", "probe", "delete", "miss", "set"},
                                            of : Services \cup {0}, val : Int]]
      BY <1>11, <1>a DEF Cap!DeleteRow, Cap!Release, Cap!Done, CapTypes
    <3>3. probing' \subseteq Services
      BY <1>11, <1>a DEF Cap!DeleteRow, Cap!Release, CapTypes
    <3>4. found' \in Nat /\ due' \in Nat \cup {Cap!Unknown}
      BY <1>11, <1>a DEF Cap!DeleteRow, CapTypes
    <3> QED
      BY <3>1, <3>2, <3>3, <3>4 DEF CapTypes
  <2>2. OneFlight'
    BY <1>11, <1>a DEF Cap!DeleteRow, Cap!Release, CapTypes, OneFlight, Cap!Done
  <2>3. RowIsDue'
    <3>0. refresh[r].at = "delete" /\ refresh[r].of \in probing
      BY <1>11, <1>a DEF Cap!DeleteRow, OneFlight
    <3>1. CASE Cap!Release(r) /\ UNCHANGED <<row, due>>
      BY <3>0, <3>1, <1>a DEF Cap!Release, Cap!Done, CapTypes, OneFlight, RowIsDue
    <3>2. CASE /\ row' = Cap!NoRow
               /\ refresh' = [refresh EXCEPT ![r].at = "miss"]
               /\ due' = IF \E s \in probing : s # refresh[r].of THEN Cap!Unknown ELSE Cap!Nothing
               /\ UNCHANGED probing
      <4>1. SUFFICES ASSUME due' # Cap!Unknown PROVE RowIsDue'
        BY DEF RowIsDue
      <4>2. due' = Cap!Nothing /\ \A s \in probing : s = refresh[r].of
        BY <3>2, <4>1
      <4>3. \A r1 \in Refreshes : r1 # r => refresh'[r1].at = "none"
        BY <4>2, <3>0, <3>2, <1>a DEF CapTypes, OneFlight
      <4>4. refresh'[r].at = "miss" /\ row'.val = Cap!Nothing /\ ~row'.expired
        BY <3>2, <1>a DEF CapTypes, Cap!NoRow
      <4> QED
        BY <4>2, <4>3, <4>4, <3>2 DEF RowIsDue
    <3> QED
      BY <1>11, <3>1, <3>2 DEF Cap!DeleteRow
  <2> QED
    BY <2>1, <2>2, <2>3 DEF CapInv
<1>12. ASSUME NEW r \in Refreshes, Cap!RememberMiss(r) PROVE CapInv'
  <2>1. CapTypes'
    BY <1>12, <1>a DEF Cap!RememberMiss, Cap!Remember, Cap!Release, CapTypes, Cap!NoRow, Cap!Done
  <2>2. OneFlight'
    BY <1>12, <1>a DEF Cap!RememberMiss, Cap!Remember, Cap!Release, CapTypes, OneFlight, Cap!Done
  <2>3. RowIsDue'
    BY <1>12, <1>a
       DEF Cap!RememberMiss, Cap!Remember, Cap!Release, CapTypes, OneFlight, RowIsDue, Cap!NoRow,
           Cap!Done
  <2> QED
    BY <2>1, <2>2, <2>3 DEF CapInv
<1>13. ASSUME NEW r \in Refreshes, Cap!SetRow(r) PROVE CapInv'
  <2>1. CapTypes'
    <3>1. row' \in [val : Int, expired : BOOLEAN]
      <4>1. refresh[r].val \in Int
        BY <1>a DEF CapTypes
      <4>2. [val |-> refresh[r].val, expired |-> FALSE] \in [val : Int, expired : BOOLEAN]
            /\ Cap!NoRow \in [val : Int, expired : BOOLEAN]
        BY <4>1 DEF Cap!NoRow
      <4>3. row \in [val : Int, expired : BOOLEAN]
        BY <1>a DEF CapTypes
      <4>4. row' = row \/ row' = [val |-> refresh[r].val, expired |-> FALSE]
        BY <1>13 DEF Cap!SetRow
      <4> QED
        BY <4>2, <4>3, <4>4
    <3>2. refresh' \in [Refreshes -> [at : {"none", "probe", "delete", "miss", "set"},
                                            of : Services \cup {0}, val : Int]]
      BY <1>13, <1>a DEF Cap!SetRow, Cap!Release, Cap!Done, CapTypes
    <3>3. probing' \subseteq Services
      BY <1>13, <1>a DEF Cap!SetRow, Cap!Release, CapTypes
    <3>4. found' \in Nat /\ due' \in Nat \cup {Cap!Unknown}
      BY <1>13, <1>a DEF Cap!SetRow, CapTypes
    <3> QED
      BY <3>1, <3>2, <3>3, <3>4 DEF CapTypes
  <2>2. OneFlight'
    BY <1>13, <1>a DEF Cap!SetRow, Cap!Release, CapTypes, OneFlight, Cap!Done
  <2>3. RowIsDue'
    BY <1>13, <1>a DEF Cap!SetRow, Cap!Release, CapTypes, OneFlight, RowIsDue, Cap!NoRow, Cap!Done
  <2> QED
    BY <2>1, <2>2, <2>3 DEF CapInv
<1> QED
  BY <1>1, <1>2, <1>3, <1>4, <1>5, <1>6, <1>7, <1>8, <1>9, <1>10, <1>11, <1>12, <1>13 DEF Cap!Next

\* Whenever no Service is probing and it is known what the row should hold, it
\* holds what the last probe that was stored found, for any number of Services,
\* callers of Lookup and refreshes (Refresh and read in service.go, Get in
\* store/sqlite/cache.go).
THEOREM CapSound == Cap!Spec => []Cap!StoreHasLastProbe
<1>1. CapInv => Cap!StoreHasLastProbe
  BY DEF CapInv, OneFlight, RowIsDue, Cap!StoreHasLastProbe
<1> QED
  BY <1>1, CapInit, CapStep, PTL DEF Cap!Spec
-----------------------------------------------------------------------------
(* The Wake-on-LAN proxy.                                                  *)

MonitorPlaces == {"start", "connect", "connected", "ready", "scan", "ended"}
CallPlaces == {"none", "answered", "forward", "begin", "wait", "timeout"}

WolTypes ==
  /\ requireConfirm \in BOOLEAN
  /\ wolStatus \in {"ready", "not ready"}
  /\ sseBody \in Nat
  /\ monitor \in [at : MonitorPlaces, stream : Nat]
  /\ health \in [at : {"tick", "failed", "take", "close"}, took : Nat]
  /\ wolClosed \subseteq Nat
  /\ wolCall \in [WolRequests -> CallPlaces]

\* Streams are numbered as they are opened: what is closed, or taken to be
\* closed, is no later one, and not the one that has just been opened.
StreamsInOrder ==
  /\ \A s \in wolClosed : s <= monitor.stream
  /\ health.took <= monitor.stream
  /\ monitor.at \in {"connected", "ready"} =>
       monitor.stream > 0 /\ monitor.stream \notin wolClosed /\ monitor.stream # health.took

\* Nothing is asked of the proxy before its flags are parsed; a call that is
\* going to wake the upstream is one the user asked for, if that is required.
AskedFor ==
  /\ monitor.at = "start" => \A q \in WolRequests : wolCall[q] = "none"
  /\ \A q \in WolRequests : wolCall[q] = "begin" /\ requireConfirm => q \in WakePosts

WolInv == WolTypes /\ StreamsInOrder /\ AskedFor /\ Wol!WakeIsSound

LEMMA WolInit == Wol!Init => WolInv
<1> SUFFICES ASSUME Wol!Init PROVE WolInv
  OBVIOUS
<1>1. WolTypes
  BY Zenon DEF Wol!Init, WolTypes, MonitorPlaces, CallPlaces
<1>2. StreamsInOrder
  <2>1. monitor.stream = 0 /\ monitor.at = "start" /\ health.took = 0 /\ wolClosed = {}
    BY Zenon DEF Wol!Init
  <2> QED
    BY <2>1 DEF StreamsInOrder
<1>3. AskedFor /\ Wol!WakeIsSound
  BY Zenon DEF Wol!Init, AskedFor, Wol!WakeIsSound, Wol!WakeEnds, Wol!ReadyHasStream,
         Wol!BodyIsCurrent, Wol!ConsentAsked
<1> QED
  BY <1>1, <1>2, <1>3 DEF WolInv

LEMMA WolStep == WolInv /\ [Wol!Next]_(Wol!wolVars) => WolInv'
<1> SUFFICES ASSUME WolInv, [Wol!Next]_(Wol!wolVars) PROVE WolInv'
  OBVIOUS
<1>a. WolTypes /\ StreamsInOrder /\ AskedFor /\ Wol!WakeIsSound
  BY DEF WolInv
<1>1. CASE UNCHANGED Wol!wolVars
  BY <1>1, <1>a, Zenon DEF WolInv, Wol!wolVars, WolTypes, StreamsInOrder, AskedFor,
     Wol!WakeIsSound, Wol!WakeEnds, Wol!ReadyHasStream, Wol!BodyIsCurrent, Wol!ConsentAsked
<1>2. ASSUME NEW confirm \in BOOLEAN, Wol!Start(confirm) PROVE WolInv'
  <2>1. WolTypes'
    BY <1>2, <1>a, Zenon DEF Wol!Start, WolTypes, MonitorPlaces, CallPlaces
  <2>2. StreamsInOrder'
    BY <1>2, <1>a, Zenon DEF Wol!Start, WolTypes, StreamsInOrder
  <2>3. AskedFor'
    BY <1>2, <1>a, Zenon DEF Wol!Start, WolTypes, AskedFor
  <2>4. Wol!WakeIsSound'
    BY <1>2, <1>a, Zenon DEF Wol!Start, WolTypes, StreamsInOrder, AskedFor,
       Wol!WakeIsSound, Wol!WakeEnds, Wol!ReadyHasStream, Wol!BodyIsCurrent, Wol!ConsentAsked
  <2> QED
    BY <2>1, <2>2, <2>3, <2>4 DEF WolInv
<1>3. CASE Wol!UpstreamChanges
  <2>1. WolTypes'
    BY <1>3, <1>a, Zenon DEF Wol!UpstreamChanges, WolTypes, MonitorPlaces, CallPlaces
  <2>2. StreamsInOrder'
    BY <1>3, <1>a, Zenon DEF Wol!UpstreamChanges, WolTypes, StreamsInOrder
  <2>3. AskedFor'
    BY <1>3, <1>a, Zenon DEF Wol!UpstreamChanges, WolTypes, AskedFor
  <2>4. Wol!WakeIsSound'
    BY <1>3, <1>a, Zenon DEF Wol!UpstreamChanges, WolTypes, StreamsInOrder, AskedFor,
       Wol!WakeIsSound, Wol!WakeEnds, Wol!ReadyHasStream, Wol!BodyIsCurrent, Wol!ConsentAsked
  <2> QED
    BY <2>1, <2>2, <2>3, <2>4 DEF WolInv
<1>4. CASE Wol!WakeGrowsOld
  <2>1. WolTypes'
    BY <1>4, <1>a, Zenon DEF Wol!WakeGrowsOld, WolTypes, MonitorPlaces, CallPlaces
  <2>2. StreamsInOrder'
    BY <1>4, <1>a, Zenon DEF Wol!WakeGrowsOld, WolTypes, StreamsInOrder
  <2>3. AskedFor'
    BY <1>4, <1>a, Zenon DEF Wol!WakeGrowsOld, WolTypes, AskedFor
  <2>4. Wol!WakeIsSound'
    BY <1>4, <1>a, Zenon DEF Wol!WakeGrowsOld, WolTypes, StreamsInOrder, AskedFor,
       Wol!WakeIsSound, Wol!WakeEnds, Wol!ReadyHasStream, Wol!BodyIsCurrent, Wol!ConsentAsked
  <2> QED
    BY <2>1, <2>2, <2>3, <2>4 DEF WolInv
<1>5. CASE Wol!MonitorConnects
  <2>1. CASE Wol!SetStatus("not ready") /\ UNCHANGED monitor
    <3>0. UNCHANGED <<requireConfirm, sseBody, health, wolClosed, upstreamUp, packets, wolCall, monitor>>
      BY <2>1, <1>5, Zenon DEF Wol!MonitorConnects
    <3>1. WolTypes'
      BY <2>1, <3>0, <1>a, Zenon DEF Wol!SetStatus, WolTypes
    <3>2. StreamsInOrder'
      BY <3>0, <1>a DEF StreamsInOrder
    <3>3. AskedFor'
      BY <3>0, <1>a DEF AskedFor
    <3>4. Wol!WakeIsSound'
      BY <2>1, <3>0, <1>a, Zenon
         DEF Wol!SetStatus, Wol!WakeIsSound, Wol!WakeEnds, Wol!ReadyHasStream, Wol!BodyIsCurrent,
             Wol!ConsentAsked
    <3> QED
      BY <3>1, <3>2, <3>3, <3>4 DEF WolInv
  <2>2. CASE monitor' = [at |-> "connected", stream |-> monitor.stream + 1]
             /\ UNCHANGED <<wolStatus, wakeAge, lastWake>>
    <3>0. UNCHANGED <<requireConfirm, sseBody, health, wolClosed, upstreamUp, packets, wolCall>>
          /\ monitor.at = "connect"
      BY <1>5, Zenon DEF Wol!MonitorConnects
    <3>n. monitor.stream \in Nat /\ monitor'.at = "connected"
          /\ monitor'.stream = monitor.stream + 1
      BY <2>2, <1>a, Zenon DEF WolTypes
    <3>1. WolTypes'
      <4>1. monitor' \in [at : MonitorPlaces, stream : Nat]
        BY <2>2, <3>n DEF MonitorPlaces
      <4> QED
        BY <4>1, <2>2, <3>0, <1>a, Zenon DEF WolTypes
    <3>2. StreamsInOrder'
      <4>1. \A s \in wolClosed : s \in Nat /\ s <= monitor.stream
        BY <1>a, Zenon DEF WolTypes, StreamsInOrder
      <4>2. health.took \in Nat /\ health.took <= monitor.stream
        BY <1>a, Zenon DEF WolTypes, StreamsInOrder
      <4> QED
        BY <4>1, <4>2, <3>n, <3>0 DEF StreamsInOrder
    <3>3. AskedFor'
      BY <3>n, <3>0, <1>a DEF AskedFor
    <3>4. Wol!WakeIsSound'
      BY <3>n, <2>2, <3>0, <1>a, Zenon
         DEF Wol!WakeIsSound, Wol!WakeEnds, Wol!ReadyHasStream, Wol!BodyIsCurrent,
             Wol!ConsentAsked
    <3> QED
      BY <3>1, <3>2, <3>3, <3>4 DEF WolInv
  <2> QED
    BY <2>1, <2>2, <1>5, Zenon DEF Wol!MonitorConnects
<1>6. CASE Wol!MonitorIsReady
  <2>1. WolTypes'
    BY <1>6, <1>a, Zenon DEF Wol!MonitorIsReady, Wol!SetStatus, WolTypes, MonitorPlaces, CallPlaces
  <2>2. StreamsInOrder'
    BY <1>6, <1>a, Zenon DEF Wol!MonitorIsReady, Wol!SetStatus, WolTypes, StreamsInOrder
  <2>3. AskedFor'
    BY <1>6, <1>a, Zenon DEF Wol!MonitorIsReady, Wol!SetStatus, WolTypes, AskedFor
  <2>4. Wol!WakeIsSound'
    BY <1>6, <1>a, Zenon DEF Wol!MonitorIsReady, Wol!SetStatus, WolTypes, StreamsInOrder, AskedFor,
       Wol!WakeIsSound, Wol!WakeEnds, Wol!ReadyHasStream, Wol!BodyIsCurrent, Wol!ConsentAsked
  <2> QED
    BY <2>1, <2>2, <2>3, <2>4 DEF WolInv
<1>7. CASE Wol!MonitorKeepsBody
  <2>1. WolTypes'
    BY <1>7, <1>a, Zenon DEF Wol!MonitorKeepsBody, WolTypes, MonitorPlaces, CallPlaces
  <2>2. StreamsInOrder'
    BY <1>7, <1>a, Zenon DEF Wol!MonitorKeepsBody, WolTypes, StreamsInOrder
  <2>3. AskedFor'
    BY <1>7, <1>a, Zenon DEF Wol!MonitorKeepsBody, WolTypes, AskedFor
  <2>4. Wol!WakeIsSound'
    BY <1>7, <1>a, Zenon DEF Wol!MonitorKeepsBody, WolTypes, StreamsInOrder, AskedFor,
       Wol!WakeIsSound, Wol!WakeEnds, Wol!ReadyHasStream, Wol!BodyIsCurrent, Wol!ConsentAsked
  <2> QED
    BY <2>1, <2>2, <2>3, <2>4 DEF WolInv
<1>8. CASE Wol!StreamEnds
  <2>1. WolTypes'
    BY <1>8, <1>a, Zenon DEF Wol!StreamEnds, WolTypes, MonitorPlaces, CallPlaces
  <2>2. StreamsInOrder'
    <3>1. monitor'.stream = monitor.stream /\ monitor'.at = "ended" /\ health' = health
          /\ wolClosed' = wolClosed \union {monitor.stream}
      BY <1>8, <1>a, Zenon DEF Wol!StreamEnds, WolTypes
    <3>2.
      monitor.stream \in Nat /\ health.took \in Nat /\ health.took <= monitor.stream
        /\ \A s \in wolClosed : s \in Nat /\ s <= monitor.stream
      BY <1>a, Zenon DEF WolTypes, StreamsInOrder
    <3> QED
      BY <3>1, <3>2 DEF StreamsInOrder
  <2>3. AskedFor'
    BY <1>8, <1>a, Zenon DEF Wol!StreamEnds, WolTypes, AskedFor
  <2>4. Wol!WakeIsSound'
    BY <1>8, <1>a, Zenon DEF Wol!StreamEnds, WolTypes, StreamsInOrder, AskedFor,
       Wol!WakeIsSound, Wol!WakeEnds, Wol!ReadyHasStream, Wol!BodyIsCurrent, Wol!ConsentAsked
  <2> QED
    BY <2>1, <2>2, <2>3, <2>4 DEF WolInv
<1>9. CASE Wol!MonitorLosesStatus
  <2>1. WolTypes'
    BY <1>9, <1>a, Zenon DEF Wol!MonitorLosesStatus, Wol!SetStatus, WolTypes, MonitorPlaces, CallPlaces
  <2>2. StreamsInOrder'
    BY <1>9, <1>a, Zenon DEF Wol!MonitorLosesStatus, Wol!SetStatus, WolTypes, StreamsInOrder
  <2>3. AskedFor'
    BY <1>9, <1>a, Zenon DEF Wol!MonitorLosesStatus, Wol!SetStatus, WolTypes, AskedFor
  <2>4. Wol!WakeIsSound'
    BY <1>9, <1>a, Zenon DEF Wol!MonitorLosesStatus, Wol!SetStatus, WolTypes, StreamsInOrder, AskedFor,
       Wol!WakeIsSound, Wol!WakeEnds, Wol!ReadyHasStream, Wol!BodyIsCurrent, Wol!ConsentAsked
  <2> QED
    BY <2>1, <2>2, <2>3, <2>4 DEF WolInv
<1>10. CASE Wol!HealthFails
  <2>1. WolTypes'
    BY <1>10, <1>a, Zenon DEF Wol!HealthFails, WolTypes, MonitorPlaces, CallPlaces
  <2>2. StreamsInOrder'
    BY <1>10, <1>a, Zenon DEF Wol!HealthFails, WolTypes, StreamsInOrder
  <2>3. AskedFor'
    BY <1>10, <1>a, Zenon DEF Wol!HealthFails, WolTypes, AskedFor
  <2>4. Wol!WakeIsSound'
    BY <1>10, <1>a, Zenon DEF Wol!HealthFails, WolTypes, StreamsInOrder, AskedFor,
       Wol!WakeIsSound, Wol!WakeEnds, Wol!ReadyHasStream, Wol!BodyIsCurrent, Wol!ConsentAsked
  <2> QED
    BY <2>1, <2>2, <2>3, <2>4 DEF WolInv
<1>11. CASE Wol!HealthSetsStatus
  <2>1. WolTypes'
    BY <1>11, <1>a, Zenon DEF Wol!HealthSetsStatus, Wol!SetStatus, WolTypes, MonitorPlaces, CallPlaces
  <2>2. StreamsInOrder'
    BY <1>11, <1>a, Zenon DEF Wol!HealthSetsStatus, Wol!SetStatus, WolTypes, StreamsInOrder
  <2>3. AskedFor'
    BY <1>11, <1>a, Zenon DEF Wol!HealthSetsStatus, Wol!SetStatus, WolTypes, AskedFor
  <2>4. Wol!WakeIsSound'
    BY <1>11, <1>a, Zenon DEF Wol!HealthSetsStatus, Wol!SetStatus, WolTypes, StreamsInOrder, AskedFor,
       Wol!WakeIsSound, Wol!WakeEnds, Wol!ReadyHasStream, Wol!BodyIsCurrent, Wol!ConsentAsked
  <2> QED
    BY <2>1, <2>2, <2>3, <2>4 DEF WolInv
<1>12. CASE Wol!HealthTakesBody
  <2>1. WolTypes'
    BY <1>12, <1>a, Zenon DEF Wol!HealthTakesBody, WolTypes, MonitorPlaces, CallPlaces
  <2>2. StreamsInOrder'
    <3>1. health'.took = sseBody /\ monitor' = monitor /\ wolClosed' = wolClosed
      BY <1>12 DEF Wol!HealthTakesBody
    <3>2. sseBody # 0 => sseBody = monitor.stream /\ monitor.at = "scan"
      BY <1>a DEF Wol!WakeIsSound, Wol!BodyIsCurrent
    <3>3.
      monitor.stream \in Nat /\ health.took \in Nat /\ health.took <= monitor.stream
        /\ \A s \in wolClosed : s \in Nat /\ s <= monitor.stream
      BY <1>a, Zenon DEF WolTypes, StreamsInOrder
    <3> QED
      BY <3>1, <3>2, <3>3, <1>a DEF StreamsInOrder
  <2>3. AskedFor'
    BY <1>12, <1>a, Zenon DEF Wol!HealthTakesBody, WolTypes, AskedFor
  <2>4. Wol!WakeIsSound'
    BY <1>12, <1>a, Zenon DEF Wol!HealthTakesBody, WolTypes, StreamsInOrder, AskedFor,
       Wol!WakeIsSound, Wol!WakeEnds, Wol!ReadyHasStream, Wol!BodyIsCurrent, Wol!ConsentAsked
  <2> QED
    BY <2>1, <2>2, <2>3, <2>4 DEF WolInv
<1>13. CASE Wol!HealthClosesBody
  <2>1. WolTypes'
    BY <1>13, <1>a, Zenon DEF Wol!HealthClosesBody, WolTypes, MonitorPlaces, CallPlaces
  <2>2. StreamsInOrder'
    <3>1. health'.took = 0 /\ monitor' = monitor
          /\ wolClosed' = wolClosed \union {health.took}
      BY <1>13 DEF Wol!HealthClosesBody
    <3>2.
      monitor.stream \in Nat /\ health.took \in Nat /\ health.took <= monitor.stream
        /\ \A s \in wolClosed : s \in Nat /\ s <= monitor.stream
      BY <1>a, Zenon DEF WolTypes, StreamsInOrder
    <3> QED
      BY <3>1, <3>2, <1>a DEF StreamsInOrder
  <2>3. AskedFor'
    BY <1>13, <1>a, Zenon DEF Wol!HealthClosesBody, WolTypes, AskedFor
  <2>4. Wol!WakeIsSound'
    BY <1>13, <1>a, Zenon DEF Wol!HealthClosesBody, WolTypes, StreamsInOrder, AskedFor,
       Wol!WakeIsSound, Wol!WakeEnds, Wol!ReadyHasStream, Wol!BodyIsCurrent, Wol!ConsentAsked
  <2> QED
    BY <2>1, <2>2, <2>3, <2>4 DEF WolInv
<1>14. ASSUME NEW q \in WolRequests, Wol!Arrive(q) PROVE WolInv'
  <2>1. WolTypes'
    BY <1>14, <1>a, Zenon DEF Wol!Arrive, WolTypes, MonitorPlaces, CallPlaces
  <2>2. StreamsInOrder'
    BY <1>14, <1>a, Zenon DEF Wol!Arrive, WolTypes, StreamsInOrder
  <2>3. AskedFor'
    BY <1>14, <1>a, Zenon DEF Wol!Arrive, WolTypes, AskedFor
  <2>4. Wol!WakeIsSound'
    BY <1>14, <1>a, Zenon DEF Wol!Arrive, WolTypes, StreamsInOrder, AskedFor,
       Wol!WakeIsSound, Wol!WakeEnds, Wol!ReadyHasStream, Wol!BodyIsCurrent, Wol!ConsentAsked
  <2> QED
    BY <2>1, <2>2, <2>3, <2>4 DEF WolInv
<1>15. ASSUME NEW q \in WolRequests, Wol!Wake(q) PROVE WolInv'
  <2>1. WolTypes'
    BY <1>15, <1>a, Zenon DEF Wol!Wake, Wol!BeginWake, WolTypes, MonitorPlaces, CallPlaces
  <2>2. StreamsInOrder'
    BY <1>15, <1>a, Zenon DEF Wol!Wake, Wol!BeginWake, WolTypes, StreamsInOrder
  <2>3. AskedFor'
    BY <1>15, <1>a, Zenon DEF Wol!Wake, Wol!BeginWake, WolTypes, AskedFor
  <2>4. Wol!WakeIsSound'
    BY <1>15, <1>a, Zenon DEF Wol!Wake, Wol!BeginWake, WolTypes, StreamsInOrder, AskedFor,
       Wol!WakeIsSound, Wol!WakeEnds, Wol!ReadyHasStream, Wol!BodyIsCurrent, Wol!ConsentAsked
  <2> QED
    BY <2>1, <2>2, <2>3, <2>4 DEF WolInv
<1>16. ASSUME NEW q \in WolRequests, Wol!Waited(q) PROVE WolInv'
  <2>1. WolTypes'
    BY <1>16, <1>a, Zenon DEF Wol!Waited, WolTypes, MonitorPlaces, CallPlaces
  <2>2. StreamsInOrder'
    BY <1>16, <1>a, Zenon DEF Wol!Waited, WolTypes, StreamsInOrder
  <2>3. AskedFor'
    BY <1>16, <1>a, Zenon DEF Wol!Waited, WolTypes, AskedFor
  <2>4. Wol!WakeIsSound'
    BY <1>16, <1>a, Zenon DEF Wol!Waited, WolTypes, StreamsInOrder, AskedFor,
       Wol!WakeIsSound, Wol!WakeEnds, Wol!ReadyHasStream, Wol!BodyIsCurrent, Wol!ConsentAsked
  <2> QED
    BY <2>1, <2>2, <2>3, <2>4 DEF WolInv
<1>17. ASSUME NEW q \in WolRequests, Wol!Answer(q) PROVE WolInv'
  <2>1. WolTypes'
    BY <1>17, <1>a, Zenon DEF Wol!Answer, WolTypes, MonitorPlaces, CallPlaces
  <2>2. StreamsInOrder'
    BY <1>17, <1>a, Zenon DEF Wol!Answer, WolTypes, StreamsInOrder
  <2>3. AskedFor'
    BY <1>17, <1>a, Zenon DEF Wol!Answer, WolTypes, AskedFor
  <2>4. Wol!WakeIsSound'
    BY <1>17, <1>a, Zenon DEF Wol!Answer, WolTypes, StreamsInOrder, AskedFor,
       Wol!WakeIsSound, Wol!WakeEnds, Wol!ReadyHasStream, Wol!BodyIsCurrent, Wol!ConsentAsked
  <2> QED
    BY <2>1, <2>2, <2>3, <2>4 DEF WolInv
<1> QED
  BY <1>1, <1>2, <1>3, <1>4, <1>5, <1>6, <1>7, <1>8, <1>9, <1>10, <1>11, <1>12, <1>13, <1>14,
     <1>15, <1>16, <1>17 DEF Wol!Next

\* Status, wake, stream and consent agree in every state of the proxy, for any
\* number of requests and streams (wol-proxy.go).
THEOREM WolSound == Wol!Spec => []Wol!WakeIsSound
<1>1. WolInv => Wol!WakeIsSound
  BY DEF WolInv
<1> QED
  BY <1>1, WolInit, WolStep, PTL DEF Wol!Spec

-----------------------------------------------------------------------------
(* The Tailcat client.                                                     *)

\* Dials that are pending on a client, and connections of it.
Busy == {"dialing", "connected", "failed", "cancelled"}
InFlight(c) == {d \in Dials : dial[d].client = c /\ dial[d].at \in Busy}
InUse(c) == \E d \in Dials : dial[d].client = c /\ dial[d].at = "in use"
DialPlaces == Busy \cup {"none", "lock", "in use", "replace", "over"}
DrainPlaces == {"none", "dials", "drain", "close", "remove", "done"}

RetiredClient ==
  [listed : BOOLEAN, used : BOOLEAN, dialsDone : Nat, cancelled : BOOLEAN, at : DrainPlaces]

TcTypes ==
  /\ current \in Tc!Clients /\ usedClient \in Nat
  /\ retired \in [Tc!Clients -> RetiredClient]
  /\ pending \in [Tc!Clients -> Nat]
  /\ tcClosed \in BOOLEAN
  /\ dial \in [Dials -> [at : DialPlaces, client : 0..MaxClients, second : BOOLEAN]]
  /\ tcClient \in [Tc!Clients -> {"none", "open", "closed"}]
  /\ closing \in [at : {"none", "lock", "close", "wait", "returned"},
                  took : SUBSET Tc!Clients, used : BOOLEAN]

\* c.pending: the dials a client has been asked for that finishDial has not counted down.
PendingCounted == \A c \in Tc!Clients : pending[c] = Cardinality(InFlight(c))

\* Clients are numbered as they are made: those before the current one were replaced,
\* and have a goroutine that drains them; those after it are not made.
ClientsInOrder ==
  /\ \A c \in Tc!Clients : c > current => tcClient[c] = "none"
  /\ \A c \in Tc!Clients : c < current <=> retired[c].at # "none"
  /\ \A d \in Dials : dial[d].at \notin {"none", "lock", "over"} => dial[d].client \in 1..current
  /\ \A c \in Tc!Clients : retired[c].at \in {"remove", "done"} => tcClient[c] = "closed"

\* While a client is listed its channel is closed as soon as no dial is pending.
DialsAwaited ==
  \A c \in Tc!Clients :
    /\ retired[c].dialsDone <= 1
    /\ retired[c].listed =>
         /\ retired[c].at \notin {"none", "done"}
         /\ retired[c].dialsDone = IF pending[c] = 0 THEN 1 ELSE 0

\* Until Close: who uses a client is known, and who closes one has waited for them.
WhileOpen ==
  ~tcClosed =>
    /\ InUse(current) => usedClient = current
    /\ \A c \in Tc!Clients :
         /\ ~retired[c].cancelled
         /\ retired[c].at \notin {"none", "done"} => retired[c].listed
         /\ c < current /\ InUse(c) => retired[c].used
         /\ retired[c].at \in {"drain", "close", "remove", "done"} => pending[c] = 0
         /\ retired[c].at \in {"close", "remove", "done"} => ~InUse(c)
         /\ tcClient[c] = "closed" => retired[c].at \in {"remove", "done"}

\* Close takes what is listed, so every other client's goroutine is through.
ClosingInOrder ==
  /\ closing.at = "none" <=> ~tcClosed
  /\ closing.at = "lock" => \A c \in Tc!Clients : retired[c].at \notin {"none", "done"} => retired[c].listed
  /\ closing.at \in {"close", "wait", "returned"} =>
       \A c \in Tc!Clients : c < current => c \in closing.took \/ retired[c].at = "done"
  /\ closing.at \in {"wait", "returned"} => tcClient[current] = "closed"
  /\ closing.at = "returned" => \A c \in closing.took : retired[c].at = "done"

TcInv ==
  TcTypes /\ PendingCounted /\ ClientsInOrder /\ DialsAwaited /\ WhileOpen /\ ClosingInOrder

LEMMA InFlightFinite ==
  ASSUME IsFiniteSet(Dials), NEW c
  PROVE  /\ IsFiniteSet(InFlight(c)) /\ Cardinality(InFlight(c)) \in Nat
         /\ Cardinality(InFlight(c)) = 0 <=> InFlight(c) = {}
<1>1. InFlight(c) \subseteq Dials
  BY DEF InFlight
<1> QED
  BY <1>1, FS_Subset, FS_CardinalityType, FS_EmptySet

LEMMA ClientNumbers ==
  /\ 1 \in Tc!Clients /\ Tc!Clients \subseteq Nat /\ 0 \in 0..MaxClients
  /\ \A c \in Tc!Clients : /\ c \in 0..MaxClients
                          /\ \A n \in 1..c : n \in Tc!Clients /\ n \in Nat /\ n <= c
BY DialsAssumption DEF Tc!Clients

LEMMA TcInit == Tc!Init => TcInv
<1> SUFFICES ASSUME Tc!Init PROVE TcInv
  OBVIOUS
<1>1. TcTypes
  <2>1. 1 \in Tc!Clients /\ 0 \in 0..MaxClients
    BY ClientNumbers
  <2>2. Tc!NotRetired \in RetiredClient
    BY DEF Tc!NotRetired, RetiredClient, DrainPlaces
  <2>3. retired \in [Tc!Clients -> RetiredClient] /\ pending \in [Tc!Clients -> Nat]
    BY <2>2 DEF Tc!Init
  <2>4. [at |-> "none", client |-> 0, second |-> FALSE]
          \in [at : DialPlaces, client : 0..MaxClients, second : BOOLEAN]
    BY <2>1 DEF DialPlaces
  <2>5. dial \in [Dials -> [at : DialPlaces, client : 0..MaxClients, second : BOOLEAN]]
    BY <2>4 DEF Tc!Init
  <2>6. tcClient \in [Tc!Clients -> {"none", "open", "closed"}]
    BY DEF Tc!Init
  <2>7. closing \in [at : {"none", "lock", "close", "wait", "returned"},
                    took : SUBSET Tc!Clients, used : BOOLEAN]
    BY DEF Tc!Init
  <2> QED
    BY <2>1, <2>3, <2>5, <2>6, <2>7 DEF Tc!Init, TcTypes
<1>2. PendingCounted
  <2>1. \A c : InFlight(c) = {}
    BY DEF Tc!Init, InFlight, Busy
  <2> QED
    BY <2>1, FS_EmptySet DEF Tc!Init, PendingCounted
<1>3. ClientsInOrder
  BY DialsAssumption DEF Tc!Init, ClientsInOrder, Tc!Clients, Tc!NotRetired
<1>4. DialsAwaited
  BY DEF Tc!Init, DialsAwaited, Tc!NotRetired
<1>5. WhileOpen
  BY Zenon DEF Tc!Init, WhileOpen, InUse, Tc!NotRetired, Tc!Clients
<1>6. ClosingInOrder
  BY DEF Tc!Init, ClosingInOrder
<1> QED
  BY <1>1, <1>2, <1>3, <1>4, <1>5, <1>6 DEF TcInv

\* The fields of a record whose place alone changes.
LEMMA DialMoves ==
  ASSUME TcTypes, NEW d \in Dials, NEW at \in DialPlaces, Tc!DialAt(d, at)
  PROVE  /\ dial' \in [Dials -> [at : DialPlaces, client : 0..MaxClients, second : BOOLEAN]]
         /\ dial'[d].client = dial[d].client /\ dial'[d].at = at
         /\ \A x \in Dials : x # d => dial'[x] = dial[x]
<1>1. dial \in [Dials -> [at : DialPlaces, client : 0..MaxClients, second : BOOLEAN]]
  BY Zenon DEF TcTypes, DialPlaces
<1>2. dial' = [dial EXCEPT ![d] = [@ EXCEPT !.at = at]]
  BY DEF Tc!DialAt
<1>3. [dial[d] EXCEPT !.at = at] \in [at : DialPlaces, client : 0..MaxClients, second : BOOLEAN]
  BY <1>1
<1>4. [dial[d] EXCEPT !.at = at].at = at /\ [dial[d] EXCEPT !.at = at].client = dial[d].client
  BY <1>1
<1>5. \A x \in Dials : dial'[x] = IF x = d THEN [dial[d] EXCEPT !.at = at] ELSE dial[x]
  BY <1>1, <1>2
<1>6. dial' \in [Dials -> [at : DialPlaces, client : 0..MaxClients, second : BOOLEAN]]
  BY <1>1, <1>2, <1>3
<1> QED
  BY <1>4, <1>5, <1>6

LEMMA DrainMoves ==
  ASSUME TcTypes, NEW c \in Tc!Clients, NEW at \in DrainPlaces, Tc!DrainAt(c, at)
  PROVE  /\ retired' \in [Tc!Clients -> RetiredClient]
         /\ \A x \in Tc!Clients :
              /\ retired'[x].at = IF x = c THEN at ELSE retired[x].at
              /\ retired'[x].listed = retired[x].listed /\ retired'[x].used = retired[x].used
              /\ retired'[x].dialsDone = retired[x].dialsDone
              /\ retired'[x].cancelled = retired[x].cancelled
<1>1. retired \in [Tc!Clients -> RetiredClient]
  BY DEF TcTypes
<1> DEFINE new == [retired[c] EXCEPT !.at = at]
<1>2. retired' = [retired EXCEPT ![c] = new]
  BY DEF Tc!DrainAt
<1>3. /\ new \in RetiredClient
      /\ new.at = at /\ new.listed = retired[c].listed /\ new.used = retired[c].used
      /\ new.dialsDone = retired[c].dialsDone /\ new.cancelled = retired[c].cancelled
  BY <1>1 DEF RetiredClient, DrainPlaces
<1> HIDE DEF new
<1>4. \A x \in Tc!Clients : retired'[x] = IF x = c THEN new ELSE retired[x]
  BY <1>1, <1>2
<1>5. retired' \in [Tc!Clients -> RetiredClient]
  BY <1>1, <1>2, <1>3
<1> QED
  BY <1>3, <1>4, <1>5

\* A step of a dial that neither counts it nor uses a client of its own.
LEMMA OnlyTheDial ==
  ASSUME TcInv, UNCHANGED <<current, usedClient, retired, pending, tcClosed, tcClient, closing>>,
         dial' \in [Dials -> [at : DialPlaces, client : 0..MaxClients, second : BOOLEAN]],
         NEW d \in Dials,
         \A x \in Dials : x # d => dial'[x] = dial[x] ,
         dial'[d].client = dial[d].client, dial'[d].at # "in use",
         dial'[d].at \in Busy <=> dial[d].at \in Busy,
         dial'[d].at \in {"none", "lock", "over"} \cup Busy
  PROVE  TcInv'
<1>a. TcTypes /\ PendingCounted /\ ClientsInOrder /\ DialsAwaited /\ WhileOpen /\ ClosingInOrder
  BY Zenon DEF TcInv
<1>1. TcTypes'
  BY <1>a, Zenon DEF TcTypes, DialPlaces
<1>2. \A x : InFlight(x)' = InFlight(x)
  BY Zenon DEF InFlight
<1>3. \A x : InUse(x)' => InUse(x)
  BY Zenon DEF InUse
<1>4. PendingCounted'
  BY <1>a, <1>2, Zenon DEF PendingCounted
<1>5. ClientsInOrder'
  BY <1>a, Zenon DEF ClientsInOrder, Busy
<1>6. DialsAwaited'
  BY <1>a, Zenon DEF DialsAwaited
<1>7. WhileOpen'
  BY <1>a, <1>3, Zenon DEF WhileOpen
<1>8. ClosingInOrder'
  BY <1>a, Zenon DEF ClosingInOrder
<1> QED
  BY <1>1, <1>4, <1>5, <1>6, <1>7, <1>8, Zenon DEF TcInv


\* The steps of a dial.
LEMMA DialBeginsStep ==
  ASSUME TcInv, NEW d \in Dials, Tc!DialBegins(d) PROVE TcInv'
<1>1. TcTypes /\ dial[d].at = "none"
  BY DEF TcInv, Tc!DialBegins
<1>2. PICK at \in {"over", "lock"} : Tc!DialAt(d, at)
  BY DEF Tc!DialBegins
<1>3. at \in DialPlaces
  BY Zenon DEF DialPlaces
<1>4. /\ dial' \in [Dials -> [at : DialPlaces, client : 0..MaxClients, second : BOOLEAN]]
      /\ dial'[d].client = dial[d].client /\ dial'[d].at = at
      /\ \A x \in Dials : x # d => dial'[x] = dial[x]
  BY <1>1, <1>2, <1>3, DialMoves
<1>5. dial[d].at \notin Busy /\ dial'[d].at \notin Busy
  BY <1>1, <1>4 DEF Busy
<1>6. UNCHANGED <<current, usedClient, retired, pending, tcClosed, tcClient, closing>>
  BY DEF Tc!DialBegins
<1> QED
  BY <1>4, <1>5, <1>6, OnlyTheDial, Zenon

LEMMA DialReturnsStep ==
  ASSUME TcInv, NEW d \in Dials, Tc!DialReturns(d) PROVE TcInv'
<1>1. TcTypes /\ dial[d].at = "dialing"
  BY DEF TcInv, Tc!DialReturns
<1>2. PICK at \in {"connected", "failed", "cancelled"} : Tc!DialAt(d, at)
  BY DEF Tc!DialReturns
<1>3. at \in DialPlaces
  BY Zenon DEF DialPlaces, Busy
<1>4. /\ dial' \in [Dials -> [at : DialPlaces, client : 0..MaxClients, second : BOOLEAN]]
      /\ dial'[d].client = dial[d].client /\ dial'[d].at = at
      /\ \A x \in Dials : x # d => dial'[x] = dial[x]
  BY <1>1, <1>2, <1>3, DialMoves
<1>5. dial[d].at \in Busy /\ dial'[d].at \in Busy /\ dial'[d].at # "in use"
  BY <1>1, <1>4, Zenon DEF Busy
<1>6. UNCHANGED <<current, usedClient, retired, pending, tcClosed, tcClient, closing>>
  BY DEF Tc!DialReturns
<1> QED
  BY <1>4, <1>5, <1>6, OnlyTheDial, Zenon

LEMMA ConnectionEndsStep ==
  ASSUME TcInv, NEW d \in Dials, Tc!ConnectionEnds(d) PROVE TcInv'
<1>1. TcTypes /\ dial[d].at = "in use" /\ Tc!DialAt(d, "over")
  BY Zenon DEF TcInv, Tc!ConnectionEnds
<1>3. "over" \in DialPlaces
  BY DEF DialPlaces
<1>4. /\ dial' \in [Dials -> [at : DialPlaces, client : 0..MaxClients, second : BOOLEAN]]
      /\ dial'[d].client = dial[d].client /\ dial'[d].at = "over"
      /\ \A x \in Dials : x # d => dial'[x] = dial[x]
  BY <1>1, <1>3, DialMoves, Zenon
<1>5. dial[d].at \notin Busy /\ dial'[d].at \notin Busy
  BY <1>1, <1>4, Zenon DEF Busy
<1>6. UNCHANGED <<current, usedClient, retired, pending, tcClosed, tcClient, closing>>
  BY Zenon DEF Tc!ConnectionEnds
<1> QED
  BY <1>4, <1>5, <1>6, OnlyTheDial, Zenon

LEMMA DialStartsStep ==
  ASSUME TcInv, NEW d \in Dials, Tc!DialStarts(d) PROVE TcInv'
<1>a. TcTypes /\ PendingCounted /\ ClientsInOrder /\ DialsAwaited /\ WhileOpen /\ ClosingInOrder
  BY DEF TcInv
<1>0. /\ dial[d].at = "lock" /\ dial[d].at \notin Busy
      /\ UNCHANGED <<current, usedClient, retired, tcClosed, tcClient, closing>>
  BY DEF Tc!DialStarts, Busy
<1>1. CASE tcClosed
  <2>1. Tc!DialAt(d, "over") /\ UNCHANGED pending /\ "over" \in DialPlaces
    BY <1>1 DEF Tc!DialStarts, DialPlaces
  <2>2. /\ dial' \in [Dials -> [at : DialPlaces, client : 0..MaxClients, second : BOOLEAN]]
        /\ dial'[d].client = dial[d].client /\ dial'[d].at = "over"
        /\ \A x \in Dials : x # d => dial'[x] = dial[x]
    BY <2>1, <1>a, DialMoves
  <2>3. dial'[d].at \notin Busy
    BY <2>2 DEF Busy
  <2> QED
    BY <1>0, <2>1, <2>2, <2>3, OnlyTheDial, Zenon
<1>2. CASE ~tcClosed
  <2>1. /\ dial' = [dial EXCEPT ![d].at = "dialing", ![d].client = current]
        /\ pending' = [pending EXCEPT ![current] = @ + 1]
    BY <1>2 DEF Tc!DialStarts
  <2>2. current \in Tc!Clients /\ current \in Nat /\ current \in 0..MaxClients /\ current \in 1..current
        /\ "dialing" \in DialPlaces
    <3>1. current \in Tc!Clients
      BY <1>a DEF TcTypes
    <3>2. current \in Nat /\ current \in 0..MaxClients /\ current > 0
      BY <3>1, ClientNumbers DEF Tc!Clients
    <3>3. "dialing" \in DialPlaces
      BY DEF DialPlaces, Busy
    <3> QED
      BY <3>1, <3>2, <3>3
  <2>3. /\ dial' \in [Dials -> [at : DialPlaces, client : 0..MaxClients, second : BOOLEAN]]
        /\ dial'[d].client = current /\ dial'[d].at = "dialing"
        /\ \A x \in Dials : x # d => dial'[x] = dial[x]
    BY <2>1, <2>2, <1>a DEF TcTypes
  <2>4. /\ InFlight(current)' = InFlight(current) \cup {d} /\ d \notin InFlight(current)
        /\ \A x : x # current => InFlight(x)' = InFlight(x)
    BY <2>3, <1>0 DEF InFlight, Busy
  <2>5. \A x : InUse(x)' => InUse(x)
    BY <2>3, Zenon DEF InUse
  <2>6. pending' \in [Tc!Clients -> Nat] /\ pending'[current] = pending[current] + 1
        /\ \A x \in Tc!Clients : x # current => pending'[x] = pending[x]
    BY <2>1, <1>a DEF TcTypes
  <2>7. retired[current].at = "none" /\ current \in Tc!Clients
    BY <2>2, <1>a DEF ClientsInOrder, TcTypes
  <2>8. TcTypes'
    BY <1>0, <1>a, <2>3, <2>6 DEF TcTypes
  <2>9. PendingCounted'
    <3>1. Cardinality(InFlight(current)') = Cardinality(InFlight(current)) + 1
      BY <2>4, InFlightFinite, FS_AddElement, DialsAssumption
    <3> QED
      BY <3>1, <2>4, <2>6, <1>0, <1>a DEF PendingCounted
  <2>10. ClientsInOrder'
    BY <1>0, <1>a, <2>2, <2>3 DEF ClientsInOrder
  <2>11. DialsAwaited'
    BY <1>0, <1>a, <2>6, <2>7 DEF DialsAwaited
  <2>12. WhileOpen'
    BY <1>0, <1>a, <2>5, <2>6, <2>7 DEF WhileOpen
  <2>13. ClosingInOrder'
    BY <1>0, <1>a DEF ClosingInOrder
  <2> QED
    BY <2>8, <2>9, <2>10, <2>11, <2>12, <2>13 DEF TcInv
<1> QED
  BY <1>1, <1>2

LEMMA DialFinishesStep ==
  ASSUME TcInv, NEW d \in Dials, Tc!DialFinishes(d) PROVE TcInv'
<1>a. TcTypes /\ PendingCounted /\ ClientsInOrder /\ DialsAwaited /\ WhileOpen /\ ClosingInOrder
  BY DEF TcInv
<1> DEFINE kept == dial[d].at = "connected" /\ ~tcClosed
<1>c. PICK c : c = dial[d].client
  OBVIOUS
<1>0. /\ dial[d].at \in {"connected", "failed", "cancelled"}
      /\ usedClient' = IF kept /\ current = c THEN c ELSE usedClient
      /\ retired' = [retired EXCEPT
           ![c].used = @ \/ (kept /\ current # c /\ retired[c].listed),
           ![c].dialsDone = IF pending[c] = 1 /\ retired[c].listed THEN @ + 1 ELSE @]
      /\ pending' = [pending EXCEPT ![c] = @ - 1]
      /\ UNCHANGED <<current, tcClosed, tcClient, closing>>
  BY <1>c, Zenon DEF Tc!DialFinishes
<1>1. PICK at \in DialPlaces : /\ Tc!DialAt(d, at)
                             /\ at \in {"in use", "replace", "over"} /\ (at = "in use" => kept)
  <2>1. Tc!DialAt(d, IF kept THEN "in use"
                     ELSE IF dial[d].at = "failed" /\ ~dial[d].second THEN "replace" ELSE "over")
    BY Zenon DEF Tc!DialFinishes
  <2>2. \A x \in {"in use", "replace", "over"} : x \in DialPlaces
    BY Zenon DEF DialPlaces
  <2> HIDE DEF kept
  <2> QED
    BY <2>1, <2>2, Zenon
<1>2. at \in DialPlaces /\ at \notin Busy /\ dial[d].at \in Busy
  BY <1>0, <1>1, Zenon DEF Busy
<1>3. /\ dial' \in [Dials -> [at : DialPlaces, client : 0..MaxClients, second : BOOLEAN]]
      /\ dial'[d].client = c /\ dial'[d].at = at
      /\ \A x \in Dials : x # d => dial'[x] = dial[x]
  BY <1>1, <1>2, <1>a, <1>c, DialMoves, Zenon
<1>4. c \in 1..current /\ c \in Tc!Clients /\ current \in Tc!Clients /\ c \in Nat /\ current \in Nat
  <2>1. c \in 1..current
    BY <1>0, <1>a, <1>c DEF ClientsInOrder
  <2>2. current \in Tc!Clients
    BY <1>a DEF TcTypes
  <2> QED
    BY <2>1, <2>2, ClientNumbers
<1>5. /\ InFlight(c)' = InFlight(c) \ {d} /\ d \in InFlight(c)
      /\ \A x : x # c => InFlight(x)' = InFlight(x)
  BY <1>2, <1>3, <1>c DEF InFlight
<1>6. pending[c] \in Nat /\ pending[c] > 0 /\ pending[c] = Cardinality(InFlight(c))
  <2>1. pending[c] \in Nat
    BY <1>4, <1>a DEF TcTypes
  <2>2. pending[c] = Cardinality(InFlight(c))
    BY <1>4, <1>a DEF PendingCounted
  <2>3. Cardinality(InFlight(c)) # 0
    BY <1>5, InFlightFinite, DialsAssumption
  <2> QED
    BY <2>1, <2>2, <2>3
<1>7. pending' \in [Tc!Clients -> Nat] /\ pending'[c] = pending[c] - 1
      /\ \A x \in Tc!Clients : x # c => pending'[x] = pending[x]
  <2>1. pending \in [Tc!Clients -> Nat] /\ pending[c] - 1 \in Nat
    BY <1>6, <1>a DEF TcTypes
  <2>2. pending' = [pending EXCEPT ![c] = pending[c] - 1]
    BY <1>0
  <2> QED
    BY <2>1, <2>2, <1>4
<1>8. /\ retired' \in [Tc!Clients -> RetiredClient]
      /\ retired'[c].at = retired[c].at /\ retired'[c].listed = retired[c].listed
      /\ retired'[c].cancelled = retired[c].cancelled
      /\ retired[c].used => retired'[c].used
      /\ kept /\ current # c /\ retired[c].listed => retired'[c].used
      /\ retired'[c].dialsDone = IF pending[c] = 1 /\ retired[c].listed
                                   THEN retired[c].dialsDone + 1 ELSE retired[c].dialsDone
      /\ \A x \in Tc!Clients : x # c => retired'[x] = retired[x]
  <2> DEFINE new == [retired[c] EXCEPT !.used = @ \/ (kept /\ current # c /\ retired[c].listed),
                       !.dialsDone = IF pending[c] = 1 /\ retired[c].listed THEN @ + 1 ELSE @]
  <2>1. retired \in [Tc!Clients -> RetiredClient] /\ retired[c] \in RetiredClient
    BY <1>4, <1>a DEF TcTypes
  <2>2. retired' = [retired EXCEPT ![c] = new]
    BY <1>0
  <2>3. /\ new.at = retired[c].at /\ new.listed = retired[c].listed
        /\ new.cancelled = retired[c].cancelled
        /\ new.used = (retired[c].used \/ (kept /\ current # c /\ retired[c].listed))
        /\ new.dialsDone = IF pending[c] = 1 /\ retired[c].listed
                             THEN retired[c].dialsDone + 1 ELSE retired[c].dialsDone
    BY <2>1 DEF RetiredClient
  <2>4. new \in RetiredClient
    <3>1. (retired[c].used \/ (kept /\ current # c /\ retired[c].listed)) \in BOOLEAN
      OBVIOUS
    <3>2. (IF pending[c] = 1 /\ retired[c].listed THEN retired[c].dialsDone + 1
                                                 ELSE retired[c].dialsDone) \in Nat
      BY <2>1 DEF RetiredClient
    <3> HIDE DEF kept
    <3> QED
      BY <2>1, <3>1, <3>2 DEF RetiredClient
  <2> HIDE DEF new, kept
  <2>5. retired'[c] = new /\ \A x \in Tc!Clients : x # c => retired'[x] = retired[x]
    BY <2>1, <2>2, <1>4
  <2>6. retired' \in [Tc!Clients -> RetiredClient]
    BY <2>1, <2>2, <2>4
  <2> QED
    BY <2>3, <2>5, <2>6
<1>9. /\ \A x : x # c => (InUse(x)' => InUse(x))
      /\ InUse(c)' => InUse(c) \/ kept
  <2> HIDE DEF kept
  <2> QED
    BY <1>1, <1>3, Zenon DEF InUse
<1>10. kept => ~tcClosed
  OBVIOUS
<1>11. usedClient' = IF kept /\ current = c THEN c ELSE usedClient
  BY <1>0
<1> HIDE DEF kept
<1>12. TcTypes'
  BY <1>0, <1>3, <1>4, <1>7, <1>8, <1>11, <1>a DEF TcTypes
<1>13. PendingCounted'
  <2>1. Cardinality(InFlight(c)') = Cardinality(InFlight(c)) - 1
    <3>1. IsFiniteSet(InFlight(c))
      BY InFlightFinite, DialsAssumption
    <3>2. Cardinality(InFlight(c) \ {d}) = Cardinality(InFlight(c)) - 1
      BY <3>1, <1>5, FS_RemoveElement
    <3> QED
      BY <3>2, <1>5
  <2> QED
    BY <2>1, <1>5, <1>6, <1>7, <1>a DEF PendingCounted
<1>14. ClientsInOrder'
  <2>1. \A x \in Tc!Clients : retired'[x].at = retired[x].at
    BY <1>8
  <2>2. \A x \in Dials : dial'[x].at \notin {"none", "lock", "over"} => dial'[x].client \in 1..current
    BY <1>3, <1>4, <1>a DEF ClientsInOrder
  <2>3. UNCHANGED <<current, tcClient>>
    BY <1>0
  <2> QED
    BY <2>1, <2>2, <2>3, <1>a DEF ClientsInOrder
<1>15. DialsAwaited'
  <2> SUFFICES ASSUME NEW x \in Tc!Clients
               PROVE  /\ retired'[x].dialsDone <= 1
                      /\ retired'[x].listed =>
                           /\ retired'[x].at \notin {"none", "done"}
                           /\ retired'[x].dialsDone = IF pending'[x] = 0 THEN 1 ELSE 0
    BY DEF DialsAwaited
  <2>1. /\ retired[x].dialsDone <= 1
        /\ retired[x].listed =>
             /\ retired[x].at \notin {"none", "done"}
             /\ retired[x].dialsDone = IF pending[x] = 0 THEN 1 ELSE 0
    BY <1>a DEF DialsAwaited
  <2>2. CASE x # c
    BY <2>1, <2>2, <1>7, <1>8
  <2>3. CASE x = c
    <3>1. retired'[c].at = retired[c].at /\ retired'[c].listed = retired[c].listed
          /\ retired'[c].dialsDone = IF pending[c] = 1 /\ retired[c].listed
                                       THEN retired[c].dialsDone + 1 ELSE retired[c].dialsDone
      BY <1>8
    <3>2. retired[c].listed => retired[c].dialsDone = 0
      BY <2>1, <2>3, <1>6
    <3>3. pending'[c] = 0 <=> pending[c] = 1
      BY <1>6, <1>7
    <3> QED
      BY <2>1, <2>3, <3>1, <3>2, <3>3
  <2> QED
    BY <2>2, <2>3
<1>16. WhileOpen'
  <2> SUFFICES ASSUME ~tcClosed
               PROVE  /\ InUse(current)' => usedClient' = current
                      /\ \A x \in Tc!Clients :
                           /\ ~retired'[x].cancelled
                           /\ retired'[x].at \notin {"none", "done"} => retired'[x].listed
                           /\ x < current /\ InUse(x)' => retired'[x].used
                           /\ retired'[x].at \in {"drain", "close", "remove", "done"} => pending'[x] = 0
                           /\ retired'[x].at \in {"close", "remove", "done"} => ~InUse(x)'
                           /\ tcClient'[x] = "closed" => retired'[x].at \in {"remove", "done"}
    BY <1>0 DEF WhileOpen
  <2>1. /\ InUse(current) => usedClient = current
        /\ \A x \in Tc!Clients :
             /\ ~retired[x].cancelled
             /\ retired[x].at \notin {"none", "done"} => retired[x].listed
             /\ x < current /\ InUse(x) => retired[x].used
             /\ retired[x].at \in {"drain", "close", "remove", "done"} => pending[x] = 0
             /\ retired[x].at \in {"close", "remove", "done"} => ~InUse(x)
             /\ tcClient[x] = "closed" => retired[x].at \in {"remove", "done"}
    BY <1>a DEF WhileOpen
  <2>2. InUse(current)' => usedClient' = current
    <3>1. CASE current = c
      <4>1. InUse(c)' => InUse(c) \/ kept
        BY <1>9
      <4>2. InUse(current)' => InUse(current) \/ kept
        BY <4>1, <3>1, <1>0
      <4> QED
        BY <4>2, <3>1, <2>1, <1>11
    <3>2. CASE current # c
      <4>1. InUse(current)' => InUse(current)
        BY <3>2, <1>9, <1>0
      <4> QED
        BY <4>1, <3>2, <2>1, <1>11
    <3> QED
      BY <3>1, <3>2
  <2>3. retired[c].at \notin {"drain", "close", "remove", "done"}
    BY <2>1, <1>4, <1>6
  <2>4. current # c => retired[c].listed
    <3>1. current # c => c < current
      BY <1>4
    <3>2. c < current => retired[c].at # "none"
      BY <1>4, <1>a DEF ClientsInOrder
    <3> QED
      BY <3>1, <3>2, <2>1, <2>3, <1>4
  <2>5. ASSUME NEW x \in Tc!Clients, x # c
        PROVE  /\ ~retired'[x].cancelled
               /\ retired'[x].at \notin {"none", "done"} => retired'[x].listed
               /\ x < current /\ InUse(x)' => retired'[x].used
               /\ retired'[x].at \in {"drain", "close", "remove", "done"} => pending'[x] = 0
               /\ retired'[x].at \in {"close", "remove", "done"} => ~InUse(x)'
               /\ tcClient'[x] = "closed" => retired'[x].at \in {"remove", "done"}
    BY <2>1, <2>5, <1>0, <1>7, <1>8, <1>9
  <2>6. /\ ~retired'[c].cancelled
        /\ retired'[c].at \notin {"none", "done"} => retired'[c].listed
        /\ c < current /\ InUse(c)' => retired'[c].used
        /\ retired'[c].at \notin {"drain", "close", "remove", "done"}
        /\ tcClient'[c] = "closed" => retired'[c].at \in {"remove", "done"}
    BY <2>1, <2>3, <2>4, <1>0, <1>4, <1>8, <1>9
  <2> QED
    BY <2>2, <2>5, <2>6
<1>17. ClosingInOrder'
  <2>1. \A x \in Tc!Clients : retired'[x].at = retired[x].at /\ retired'[x].listed = retired[x].listed
    BY <1>8
  <2>2. closing.took \subseteq Tc!Clients
    BY <1>a DEF TcTypes
  <2>3. UNCHANGED <<current, tcClosed, tcClient, closing>>
    BY <1>0
  <2> QED
    BY <2>1, <2>2, <2>3, <1>a DEF ClosingInOrder
<1> QED
  BY <1>12, <1>13, <1>14, <1>15, <1>16, <1>17 DEF TcInv

LEMMA ReplaceClientStep ==
  ASSUME TcInv, NEW d \in Dials, Tc!ReplaceClient(d) PROVE TcInv'
<1>a. TcTypes /\ PendingCounted /\ ClientsInOrder /\ DialsAwaited /\ WhileOpen /\ ClosingInOrder
  BY DEF TcInv
<1>c. PICK c : c = dial[d].client
  OBVIOUS
<1>0. /\ dial[d].at = "replace" /\ UNCHANGED <<pending, tcClosed, closing>>
      /\ dial' = [dial EXCEPT ![d].at = "lock", ![d].second = TRUE]
  BY DEF Tc!ReplaceClient
<1>1. /\ dial' \in [Dials -> [at : DialPlaces, client : 0..MaxClients, second : BOOLEAN]]
      /\ dial'[d].client = c /\ dial'[d].at = "lock"
      /\ \A x \in Dials : x # d => dial'[x] = dial[x]
  BY <1>0, <1>a, <1>c, Zenon DEF TcTypes, DialPlaces
<1>2. dial[d].at \notin Busy /\ dial'[d].at \notin Busy
  BY <1>0, <1>1 DEF Busy
<1>3. CASE tcClosed \/ current # c
  <2>1. UNCHANGED <<current, usedClient, retired, tcClient>>
    BY <1>3, <1>c DEF Tc!ReplaceClient
  <2> QED
    BY <2>1, <1>0, <1>1, <1>2, <1>c, OnlyTheDial, Zenon
<1>4. CASE ~tcClosed /\ current = c
  <2>1. /\ c < MaxClients
        /\ current' = c + 1 /\ usedClient' = 0
        /\ tcClient' = [tcClient EXCEPT ![c + 1] = "open"]
        /\ retired' = [retired EXCEPT ![c] =
             [listed |-> TRUE, used |-> usedClient = c, cancelled |-> FALSE, at |-> "dials",
              dialsDone |-> IF pending[c] = 0 THEN 1 ELSE 0]]
    BY <1>4, <1>c DEF Tc!ReplaceClient
  <2>2. c \in Nat /\ c + 1 \in Tc!Clients /\ c \in Tc!Clients /\ Tc!Clients \subseteq Nat
    BY <2>1, <1>4, <1>a, DialsAssumption DEF TcTypes, Tc!Clients
  <2>3. /\ retired' \in [Tc!Clients -> RetiredClient]
        /\ retired'[c].listed /\ retired'[c].used = (usedClient = c) /\ ~retired'[c].cancelled
        /\ retired'[c].at = "dials" /\ retired'[c].dialsDone = IF pending[c] = 0 THEN 1 ELSE 0
        /\ \A x \in Tc!Clients : x # c => retired'[x] = retired[x]
    <3> DEFINE new == [listed |-> TRUE, used |-> usedClient = c, cancelled |-> FALSE, at |-> "dials",
                       dialsDone |-> IF pending[c] = 0 THEN 1 ELSE 0]
    <3>1. new \in RetiredClient
      BY DEF RetiredClient, DrainPlaces
    <3>2. retired \in [Tc!Clients -> RetiredClient]
      BY <1>a DEF TcTypes
    <3>3. retired' = [retired EXCEPT ![c] = new]
      BY <2>1
    <3>4. retired'[c] = new /\ retired' \in [Tc!Clients -> RetiredClient]
          /\ \A x \in Tc!Clients : x # c => retired'[x] = retired[x]
      <4> HIDE DEF new
      <4> QED
        BY <3>1, <3>2, <3>3, <2>2
    <3> QED
      BY <3>4
  <2>4. /\ tcClient' \in [Tc!Clients -> {"none", "open", "closed"}] /\ tcClient'[c + 1] = "open"
        /\ \A x \in Tc!Clients : x # c + 1 => tcClient'[x] = tcClient[x]
    BY <2>1, <2>2, <1>a DEF TcTypes
  <2>5. \A x : InFlight(x)' = InFlight(x)
    BY <1>1, <1>2 DEF InFlight
  <2>6. \A x : InUse(x)' => InUse(x)
    BY <1>1, Zenon DEF InUse
  <2>7. ~InUse(c + 1)
    <3>1. ASSUME NEW x \in Dials, dial[x].client = c + 1, dial[x].at = "in use" PROVE FALSE
      <4>1. c + 1 \in 1..c
        BY <3>1, <1>4, <1>a, Zenon DEF ClientsInOrder
      <4> QED
        BY <4>1, <2>2
    <3> QED
      BY <3>1, Zenon DEF InUse
  <2>8. retired[c + 1].at = "none" /\ tcClient[c + 1] = "none" /\ retired[c].at = "none"
    BY <2>2, <1>4, <1>a DEF ClientsInOrder
  <2>9. \A x \in Tc!Clients : x < c + 1 <=> x < c \/ x = c
    BY <2>2
  <2>10. TcTypes'
    BY <2>1, <2>2, <2>3, <2>4, <1>0, <1>1, <1>a DEF TcTypes
  <2>11. PendingCounted'
    BY <2>5, <1>0, <1>a DEF PendingCounted
  <2>12. ClientsInOrder'
    <3>1. \A x \in Tc!Clients : x > current' => tcClient'[x] = "none"
      BY <2>1, <2>2, <2>4, <1>4, <1>a DEF ClientsInOrder
    <3>2. \A x \in Tc!Clients : x < current' <=> retired'[x].at # "none"
      BY <2>1, <2>2, <2>3, <2>9, <1>4, <1>a DEF ClientsInOrder
    <3>3. \A x \in Dials : dial'[x].at \notin {"none", "lock", "over"} => dial'[x].client \in 1..current'
      <4>1. \A n : n \in 1..c => n \in 1..(c + 1)
        BY <2>2
      <4> QED
        BY <4>1, <2>1, <1>1, <1>4, <1>a DEF ClientsInOrder
    <3>4. \A x \in Tc!Clients : retired'[x].at \in {"remove", "done"} => tcClient'[x] = "closed"
      BY <2>3, <2>4, <2>8, <2>2, <1>a DEF ClientsInOrder
    <3> QED
      BY <3>1, <3>2, <3>3, <3>4 DEF ClientsInOrder
  <2>13. DialsAwaited'
    BY <2>3, <1>0, <1>a DEF DialsAwaited
  <2>14. WhileOpen'
    <3>1. /\ InUse(c) => usedClient = c
          /\ \A x \in Tc!Clients :
               /\ ~retired[x].cancelled
               /\ retired[x].at \notin {"none", "done"} => retired[x].listed
               /\ x < c /\ InUse(x) => retired[x].used
               /\ retired[x].at \in {"drain", "close", "remove", "done"} => pending[x] = 0
               /\ retired[x].at \in {"close", "remove", "done"} => ~InUse(x)
               /\ tcClient[x] = "closed" => retired[x].at \in {"remove", "done"}
      BY <1>4, <1>a DEF WhileOpen
    <3>2. ~InUse(current)'
      BY <2>1, <2>6, <2>7
    <3>3. ASSUME NEW x \in Tc!Clients
          PROVE  /\ ~retired'[x].cancelled
                 /\ retired'[x].at \notin {"none", "done"} => retired'[x].listed
                 /\ x < c + 1 /\ InUse(x)' => retired'[x].used
                 /\ retired'[x].at \in {"drain", "close", "remove", "done"} => pending'[x] = 0
                 /\ retired'[x].at \in {"close", "remove", "done"} => ~InUse(x)'
                 /\ tcClient'[x] = "closed" => retired'[x].at \in {"remove", "done"}
      <4>1. CASE x = c
        <5>1. tcClient'[c] = tcClient[c]
          BY <2>2, <2>4
        <5>2. tcClient[c] # "closed"
          BY <3>1, <2>2, <2>8
        <5> QED
          BY <4>1, <5>1, <5>2, <3>1, <2>3, <2>6
      <4>2. CASE x # c
        <5>1. tcClient'[x] = "closed" => tcClient[x] = "closed"
          BY <2>4
        <5> QED
          BY <4>2, <5>1, <3>1, <2>3, <2>6, <2>9, <1>0
      <4> QED
        BY <4>1, <4>2
    <3> QED
      BY <3>2, <3>3, <2>1 DEF WhileOpen
  <2>15. ClosingInOrder'
    <3>1. closing.at = "none"
      BY <1>4, <1>a DEF ClosingInOrder
    <3> QED
      BY <3>1, <1>0, <1>4 DEF ClosingInOrder
  <2> QED
    BY <2>10, <2>11, <2>12, <2>13, <2>14, <2>15 DEF TcInv
<1> QED
  BY <1>3, <1>4

\* The steps of the goroutine that drains a retired client.
LEMMA SameDials ==
  ASSUME dial' = dial
  PROVE  \A x : InFlight(x)' = InFlight(x) /\ InUse(x)' = InUse(x)
BY DEF InFlight, InUse

LEMMA NobodyConnected ==
  ASSUME NEW c, ~Tc!Connected(c)
  PROVE  ~InUse(c)
BY Zenon DEF Tc!Connected, InUse

LEMMA DrainAwaitsStep ==
  ASSUME TcInv, NEW c \in Tc!Clients, Tc!DrainAwaitsDials(c) \/ Tc!DrainAwaitsConnections(c)
  PROVE  TcInv'
<1>a. TcTypes /\ PendingCounted /\ ClientsInOrder /\ DialsAwaited /\ WhileOpen /\ ClosingInOrder
  BY DEF TcInv
<1>1. PICK at \in DrainPlaces :
        /\ Tc!DrainAt(c, at)
        /\ \/ /\ retired[c].at = "dials" /\ at \in {"drain", "close"}
              /\ at = "drain" => retired[c].dialsDone > 0
              /\ at = "close" => retired[c].cancelled \/ (retired[c].dialsDone > 0 /\ ~retired[c].used)
           \/ /\ retired[c].at = "drain" /\ at = "close"
              /\ ~Tc!Connected(c) \/ retired[c].cancelled
  <2>1. "drain" \in DrainPlaces /\ "close" \in DrainPlaces
    BY DEF DrainPlaces
  <2>2. CASE Tc!DrainAwaitsDials(c)
    BY <2>1, <2>2 DEF Tc!DrainAwaitsDials
  <2>3. CASE Tc!DrainAwaitsConnections(c)
    BY <2>1, <2>3 DEF Tc!DrainAwaitsConnections
  <2> QED
    BY <2>2, <2>3
<1>2. UNCHANGED <<current, usedClient, pending, tcClosed, dial, tcClient, closing>>
  BY DEF Tc!DrainAwaitsDials, Tc!DrainAwaitsConnections
<1>3. /\ retired' \in [Tc!Clients -> RetiredClient]
      /\ \A x \in Tc!Clients :
           /\ retired'[x].at = IF x = c THEN at ELSE retired[x].at
           /\ retired'[x].listed = retired[x].listed /\ retired'[x].used = retired[x].used
           /\ retired'[x].dialsDone = retired[x].dialsDone
           /\ retired'[x].cancelled = retired[x].cancelled
  BY <1>1, <1>a, DrainMoves
<1>4. \A x : InFlight(x)' = InFlight(x) /\ InUse(x)' = InUse(x)
  BY <1>2, SameDials
<1>5. retired[c].at \in {"dials", "drain"} /\ at \in {"drain", "close"}
  BY <1>1
<1>6. TcTypes'
  BY <1>2, <1>3, <1>a DEF TcTypes
<1>7. PendingCounted'
  BY <1>2, <1>4, <1>a DEF PendingCounted
<1>8. ClientsInOrder'
  BY <1>2, <1>3, <1>5, <1>a DEF ClientsInOrder
<1>9. DialsAwaited'
  BY <1>2, <1>3, <1>5, <1>a DEF DialsAwaited
<1>10. WhileOpen'
  <2> SUFFICES ASSUME ~tcClosed PROVE WhileOpen'
    BY <1>2 DEF WhileOpen
  <2>1. /\ InUse(current) => usedClient = current
        /\ \A x \in Tc!Clients :
             /\ ~retired[x].cancelled
             /\ retired[x].at \notin {"none", "done"} => retired[x].listed
             /\ x < current /\ InUse(x) => retired[x].used
             /\ retired[x].at \in {"drain", "close", "remove", "done"} => pending[x] = 0
             /\ retired[x].at \in {"close", "remove", "done"} => ~InUse(x)
             /\ tcClient[x] = "closed" => retired[x].at \in {"remove", "done"}
    BY <1>a DEF WhileOpen
  <2>2. pending[c] = 0
    <3>1. CASE retired[c].at = "drain"
      BY <3>1, <2>1
    <3>2. CASE retired[c].at = "dials"
      <4>1. retired[c].dialsDone > 0
        BY <3>2, <1>1, <2>1
      <4>2. retired[c].listed
        BY <3>2, <2>1
      <4> QED
        BY <4>1, <4>2, <1>a DEF DialsAwaited
    <3> QED
      BY <3>1, <3>2, <1>5
  <2>3. at = "close" => ~InUse(c)
    <3>1. CASE retired[c].at = "drain"
      BY <3>1, <1>1, <2>1, NobodyConnected
    <3>2. CASE retired[c].at = "dials"
      <4>1. at = "close" => ~retired[c].used
        BY <3>2, <1>1, <2>1
      <4>2. c < current
        BY <3>2, <1>a DEF ClientsInOrder
      <4> QED
        BY <4>1, <4>2, <2>1
    <3> QED
      BY <3>1, <3>2, <1>5
  <2>4. tcClient[c] # "closed" /\ retired[c].listed
    BY <1>5, <2>1
  <2>5. ASSUME NEW x \in Tc!Clients
        PROVE  /\ ~retired'[x].cancelled
               /\ retired'[x].at \notin {"none", "done"} => retired'[x].listed
               /\ x < current /\ InUse(x)' => retired'[x].used
               /\ retired'[x].at \in {"drain", "close", "remove", "done"} => pending[x] = 0
               /\ retired'[x].at \in {"close", "remove", "done"} => ~InUse(x)'
               /\ tcClient[x] = "closed" => retired'[x].at \in {"remove", "done"}
    <3>1. CASE x # c
      BY <3>1, <2>1, <1>3, <1>4
    <3>2. CASE x = c
      BY <3>2, <2>1, <2>2, <2>3, <2>4, <1>3, <1>4, <1>5
    <3> QED
      BY <3>1, <3>2
  <2>6. InUse(current)' => usedClient' = current'
    BY <1>2, <1>4, <2>1
  <2> QED
    BY <1>2, <2>5, <2>6 DEF WhileOpen
<1>11. ClosingInOrder'
  <2>1. closing.took \subseteq Tc!Clients
    BY <1>a DEF TcTypes
  <2>2. \A x \in Tc!Clients : /\ retired[x].at = "done" => retired'[x].at = "done"
                              /\ retired'[x].at \notin {"none", "done"} => retired[x].at \notin {"none", "done"}
                              /\ retired'[x].listed = retired[x].listed
    BY <1>3, <1>5
  <2> QED
    BY <2>1, <2>2, <1>2, <1>a DEF ClosingInOrder
<1> QED
  BY <1>6, <1>7, <1>8, <1>9, <1>10, <1>11 DEF TcInv

LEMMA DrainClosesStep ==
  ASSUME TcInv, NEW c \in Tc!Clients, Tc!DrainCloses(c)
  PROVE  TcInv'
<1>a. TcTypes /\ PendingCounted /\ ClientsInOrder /\ DialsAwaited /\ WhileOpen /\ ClosingInOrder
  BY DEF TcInv
<1>1. /\ retired[c].at = "close" /\ Tc!DrainAt(c, "remove")
      /\ tcClient' = [tcClient EXCEPT ![c] = "closed"]
      /\ UNCHANGED <<current, usedClient, pending, tcClosed, dial, closing>>
  BY DEF Tc!DrainCloses
<1>2. "remove" \in DrainPlaces
  BY DEF DrainPlaces
<1>3. /\ retired' \in [Tc!Clients -> RetiredClient]
      /\ \A x \in Tc!Clients :
           /\ retired'[x].at = IF x = c THEN "remove" ELSE retired[x].at
           /\ retired'[x].listed = retired[x].listed /\ retired'[x].used = retired[x].used
           /\ retired'[x].dialsDone = retired[x].dialsDone
           /\ retired'[x].cancelled = retired[x].cancelled
  BY <1>1, <1>2, <1>a, DrainMoves
<1>4. \A x : InFlight(x)' = InFlight(x) /\ InUse(x)' = InUse(x)
  BY <1>1, SameDials
<1>5. /\ tcClient' \in [Tc!Clients -> {"none", "open", "closed"}] /\ tcClient'[c] = "closed"
      /\ \A x \in Tc!Clients : x # c => tcClient'[x] = tcClient[x]
  BY <1>1, <1>a DEF TcTypes
<1>6. current \in Tc!Clients /\ closing.took \subseteq Tc!Clients
  BY <1>a DEF TcTypes
<1>7. TcTypes'
  BY <1>1, <1>3, <1>5, <1>a DEF TcTypes
<1>8. PendingCounted'
  BY <1>1, <1>4, <1>a DEF PendingCounted
<1>9. ClientsInOrder'
  <2>1. ~(c > current)
    <3>1. c < current
      BY <1>1, <1>a DEF ClientsInOrder
    <3>2. c \in Nat /\ current \in Nat
      BY <1>6, ClientNumbers
    <3> QED
      BY <3>1, <3>2
  <2> QED
    BY <2>1, <1>1, <1>3, <1>5, <1>a DEF ClientsInOrder
<1>10. DialsAwaited'
  BY <1>1, <1>3, <1>a DEF DialsAwaited
<1>11. WhileOpen'
  BY <1>1, <1>3, <1>4, <1>5, <1>a DEF WhileOpen
<1>12. ClosingInOrder'
  <2>2. \A x \in Tc!Clients : /\ retired[x].at = "done" => retired'[x].at = "done"
                              /\ retired'[x].at \notin {"none", "done"} => retired[x].at \notin {"none", "done"}
                              /\ retired'[x].listed = retired[x].listed
                              /\ tcClient[x] = "closed" => tcClient'[x] = "closed"
    BY <1>1, <1>3, <1>5
  <2> QED
    BY <2>2, <1>1, <1>6, <1>a DEF ClosingInOrder
<1> QED
  BY <1>7, <1>8, <1>9, <1>10, <1>11, <1>12 DEF TcInv

LEMMA DrainEndsStep ==
  ASSUME TcInv, NEW c \in Tc!Clients, Tc!DrainEnds(c)
  PROVE  TcInv'
<1>a. TcTypes /\ PendingCounted /\ ClientsInOrder /\ DialsAwaited /\ WhileOpen /\ ClosingInOrder
  BY DEF TcInv
<1>1. /\ retired[c].at = "remove"
      /\ retired' = [retired EXCEPT ![c].at = "done", ![c].listed = FALSE]
      /\ UNCHANGED <<current, usedClient, pending, tcClosed, dial, tcClient, closing>>
  BY DEF Tc!DrainEnds
<1>3. /\ retired' \in [Tc!Clients -> RetiredClient]
      /\ retired'[c].at = "done" /\ ~retired'[c].listed
      /\ retired'[c].used = retired[c].used /\ retired'[c].dialsDone = retired[c].dialsDone
      /\ retired'[c].cancelled = retired[c].cancelled
      /\ \A x \in Tc!Clients : x # c => retired'[x] = retired[x]
  <2>1. retired \in [Tc!Clients -> RetiredClient]
    BY <1>a DEF TcTypes
  <2> DEFINE new == [retired[c] EXCEPT !.at = "done", !.listed = FALSE]
  <2>2. retired' = [retired EXCEPT ![c] = new]
    BY <1>1
  <2>3. /\ new \in RetiredClient
        /\ new.at = "done" /\ ~new.listed /\ new.used = retired[c].used
        /\ new.dialsDone = retired[c].dialsDone /\ new.cancelled = retired[c].cancelled
    BY <2>1 DEF RetiredClient, DrainPlaces
  <2> HIDE DEF new
  <2>4. retired' \in [Tc!Clients -> RetiredClient] /\ retired'[c] = new
        /\ \A x \in Tc!Clients : x # c => retired'[x] = retired[x]
    BY <2>1, <2>2, <2>3
  <2> QED
    BY <2>3, <2>4
<1>4. \A x : InFlight(x)' = InFlight(x) /\ InUse(x)' = InUse(x)
  BY <1>1, SameDials
<1>7. TcTypes'
  BY <1>1, <1>3, <1>a DEF TcTypes
<1>8. PendingCounted'
  BY <1>1, <1>4, <1>a DEF PendingCounted
<1>9. ClientsInOrder'
  BY <1>1, <1>3, <1>a DEF ClientsInOrder
<1>10. DialsAwaited'
  BY <1>1, <1>3, <1>a DEF DialsAwaited
<1>11. WhileOpen'
  BY <1>1, <1>3, <1>4, <1>a DEF WhileOpen
<1>12. ClosingInOrder'
  <2>1. closing.took \subseteq Tc!Clients
    BY <1>a DEF TcTypes
  <2>2. \A x \in Tc!Clients : /\ retired[x].at = "done" => retired'[x].at = "done"
                              /\ retired'[x].at \notin {"none", "done"} =>
                                   retired[x].at \notin {"none", "done"} /\ retired'[x].listed = retired[x].listed
    BY <1>1, <1>3
  <2> QED
    BY <2>1, <2>2, <1>1, <1>a DEF ClosingInOrder
<1> QED
  BY <1>7, <1>8, <1>9, <1>10, <1>11, <1>12 DEF TcInv

\* The steps of Close.
LEMMA CloseBeginsStep ==
  ASSUME TcInv, Tc!CloseBegins
  PROVE  TcInv'
<1>a. TcTypes /\ PendingCounted /\ ClientsInOrder /\ DialsAwaited /\ WhileOpen /\ ClosingInOrder
  BY DEF TcInv
<1>1. /\ ~tcClosed /\ tcClosed' /\ closing' = [closing EXCEPT !.at = "lock"]
      /\ UNCHANGED <<current, usedClient, retired, pending, dial, tcClient>>
  BY DEF Tc!CloseBegins
<1>2. /\ closing' \in [at : {"none", "lock", "close", "wait", "returned"},
                       took : SUBSET Tc!Clients, used : BOOLEAN]
      /\ closing'.at = "lock"
  BY <1>1, <1>a DEF TcTypes
<1>3. \A x : InFlight(x)' = InFlight(x) /\ InUse(x)' = InUse(x)
  BY <1>1, SameDials
<1>4. TcTypes' /\ WhileOpen' /\ ClosingInOrder'
  <2>1. tcClosed' \in BOOLEAN
    BY DEF Tc!CloseBegins
  <2>2. TcTypes'
    BY <2>1, <1>1, <1>2, <1>a DEF TcTypes
  <2>3. WhileOpen'
    BY <1>1 DEF WhileOpen
  <2>4. ClosingInOrder'
    BY <1>1, <1>2, <1>a DEF ClosingInOrder, WhileOpen
  <2> QED
    BY <2>2, <2>3, <2>4
<1>5. PendingCounted' /\ ClientsInOrder' /\ DialsAwaited'
  BY <1>1, <1>3, <1>a DEF PendingCounted, ClientsInOrder, DialsAwaited
<1> QED
  BY <1>4, <1>5 DEF TcInv

LEMMA CloseTakesStep ==
  ASSUME TcInv, Tc!CloseTakes
  PROVE  TcInv'
<1>a. TcTypes /\ PendingCounted /\ ClientsInOrder /\ DialsAwaited /\ WhileOpen /\ ClosingInOrder
  BY DEF TcInv
<1>1. /\ closing.at = "lock"
      /\ closing' = [at |-> "close", took |-> {c \in Tc!Clients : retired[c].listed},
                     used |-> usedClient = current]
      /\ retired' = [c \in Tc!Clients |-> [retired[c] EXCEPT !.listed = FALSE]]
      /\ UNCHANGED <<current, usedClient, pending, tcClosed, dial, tcClient>>
  BY DEF Tc!CloseTakes
<1>2. /\ closing' \in [at : {"none", "lock", "close", "wait", "returned"},
                       took : SUBSET Tc!Clients, used : BOOLEAN]
      /\ closing'.at = "close" /\ closing'.took = {c \in Tc!Clients : retired[c].listed}
  <2>1. {c \in Tc!Clients : retired[c].listed} \in SUBSET Tc!Clients /\ (usedClient = current) \in BOOLEAN
    OBVIOUS
  <2> QED
    BY <2>1, <1>1
<1>3. \A x : InFlight(x)' = InFlight(x) /\ InUse(x)' = InUse(x)
  BY <1>1, SameDials
<1>4. /\ retired' \in [Tc!Clients -> RetiredClient]
      /\ \A x \in Tc!Clients :
           /\ retired'[x].at = retired[x].at /\ ~retired'[x].listed
           /\ retired'[x].dialsDone = retired[x].dialsDone
  <2>1. ASSUME NEW x \in Tc!Clients
        PROVE  /\ retired'[x] \in RetiredClient
               /\ retired'[x].at = retired[x].at /\ ~retired'[x].listed
               /\ retired'[x].dialsDone = retired[x].dialsDone
    <3>1. retired[x] \in RetiredClient
      BY <1>a DEF TcTypes
    <3>2. retired'[x] = [retired[x] EXCEPT !.listed = FALSE]
      BY <1>1, Zenon
    <3> QED
      BY <3>1, <3>2 DEF RetiredClient
  <2>2. retired' = [x \in Tc!Clients |-> retired'[x]]
    BY <1>1
  <2> QED
    BY <2>1, <2>2
<1>5. tcClosed
  BY <1>1, <1>a DEF ClosingInOrder, TcTypes
<1>6. TcTypes'
  BY <1>1, <1>2, <1>4, <1>a DEF TcTypes
<1>7. PendingCounted' /\ ClientsInOrder' /\ DialsAwaited'
  <2>1. PendingCounted'
    BY <1>1, <1>3, <1>a DEF PendingCounted
  <2>2. ClientsInOrder'
    BY <1>1, <1>4, <1>a DEF ClientsInOrder
  <2>3. DialsAwaited'
    BY <1>1, <1>4, <1>a DEF DialsAwaited
  <2> QED
    BY <2>1, <2>2, <2>3
<1>8. WhileOpen'
  BY <1>1, <1>5 DEF WhileOpen
<1>9. ClosingInOrder'
  <2>1. ASSUME NEW c \in Tc!Clients, c < current
        PROVE  c \in closing'.took \/ retired'[c].at = "done"
    <3>1. retired[c].at # "none"
      BY <2>1, <1>a DEF ClientsInOrder
    <3>2. retired[c].at # "done" => retired[c].listed
      BY <3>1, <1>1, <1>a DEF ClosingInOrder
    <3> QED
      BY <3>2, <1>2, <1>4
  <2> QED
    BY <2>1, <1>1, <1>2, <1>5 DEF ClosingInOrder
<1> QED
  BY <1>6, <1>7, <1>8, <1>9 DEF TcInv

LEMMA CloseCurrentStep ==
  ASSUME TcInv, Tc!CloseCurrent
  PROVE  TcInv'
<1>a. TcTypes /\ PendingCounted /\ ClientsInOrder /\ DialsAwaited /\ WhileOpen /\ ClosingInOrder
  BY DEF TcInv
<1>1. /\ closing.at = "close"
      /\ tcClient' = [tcClient EXCEPT ![current] = "closed"]
      /\ retired' = [c \in Tc!Clients |-> [retired[c] EXCEPT !.cancelled = @ \/ c \in closing.took]]
      /\ closing' = [closing EXCEPT !.at = "wait"]
      /\ UNCHANGED <<current, usedClient, pending, tcClosed, dial>>
  BY DEF Tc!CloseCurrent
<1>2. /\ closing' \in [at : {"none", "lock", "close", "wait", "returned"},
                       took : SUBSET Tc!Clients, used : BOOLEAN]
      /\ closing'.at = "wait" /\ closing'.took = closing.took
  BY <1>1, <1>a DEF TcTypes
<1>3. \A x : InFlight(x)' = InFlight(x) /\ InUse(x)' = InUse(x)
  BY <1>1, SameDials
<1>4. /\ retired' \in [Tc!Clients -> RetiredClient]
      /\ \A x \in Tc!Clients :
           /\ retired'[x].at = retired[x].at /\ retired'[x].listed = retired[x].listed
           /\ retired'[x].dialsDone = retired[x].dialsDone
  <2>1. ASSUME NEW x \in Tc!Clients
        PROVE  /\ retired'[x] \in RetiredClient
               /\ retired'[x].at = retired[x].at /\ retired'[x].listed = retired[x].listed
               /\ retired'[x].dialsDone = retired[x].dialsDone
    <3>1. retired[x] \in RetiredClient
      BY <1>a DEF TcTypes
    <3>2. PICK b \in BOOLEAN : b = (retired[x].cancelled \/ x \in closing.took)
      OBVIOUS
    <3>3. retired'[x] = [retired[x] EXCEPT !.cancelled = b]
      BY <3>2, <1>1, Zenon
    <3> QED
      BY <3>1, <3>3 DEF RetiredClient
  <2>2. retired' = [x \in Tc!Clients |-> retired'[x]]
    BY <1>1
  <2> QED
    BY <2>1, <2>2
<1>5. tcClosed
  BY <1>1, <1>a DEF ClosingInOrder, TcTypes
<1>6. /\ current \in Tc!Clients
      /\ tcClient' \in [Tc!Clients -> {"none", "open", "closed"}] /\ tcClient'[current] = "closed"
      /\ \A x \in Tc!Clients : x # current => tcClient'[x] = tcClient[x]
  BY <1>1, <1>a DEF TcTypes
<1>7. TcTypes'
  BY <1>1, <1>2, <1>4, <1>6, <1>a DEF TcTypes
<1>8. PendingCounted'
  BY <1>1, <1>3, <1>a DEF PendingCounted
<1>9. ClientsInOrder'
  <2>1. ~(current > current)
    BY <1>6, ClientNumbers
  <2>2. \A x \in Tc!Clients : x > current => tcClient'[x] = "none"
    BY <2>1, <1>6, <1>a DEF ClientsInOrder
  <2>3. \A x \in Tc!Clients : retired[x].at \in {"remove", "done"} => tcClient'[x] = "closed"
    BY <1>6, <1>a DEF ClientsInOrder
  <2> QED
    BY <2>2, <2>3, <1>1, <1>4, <1>a DEF ClientsInOrder
<1>10. DialsAwaited'
  BY <1>1, <1>4, <1>a DEF DialsAwaited
<1>11. WhileOpen'
  BY <1>1, <1>5 DEF WhileOpen
<1>12. ClosingInOrder'
  <2>1. \A c \in Tc!Clients : c < current => c \in closing.took \/ retired[c].at = "done"
    BY <1>1, <1>a DEF ClosingInOrder
  <2>2. closing'.at = "wait" /\ closing'.took = closing.took /\ tcClosed' /\ current' = current
    BY <1>1, <1>2, <1>5
  <2>3. \A c \in Tc!Clients : retired'[c].at = retired[c].at
    BY <1>4
  <2> QED
    BY <2>1, <2>2, <2>3, <1>6 DEF ClosingInOrder
<1> QED
  BY <1>7, <1>8, <1>9, <1>10, <1>11, <1>12 DEF TcInv

LEMMA CloseReturnsStep ==
  ASSUME TcInv, Tc!CloseReturns
  PROVE  TcInv'
<1>a. TcTypes /\ PendingCounted /\ ClientsInOrder /\ DialsAwaited /\ WhileOpen /\ ClosingInOrder
  BY DEF TcInv
<1>1. /\ closing.at = "wait" /\ closing' = [closing EXCEPT !.at = "returned"]
      /\ \A c \in closing.took : retired[c].at = "done"
      /\ UNCHANGED <<current, usedClient, retired, pending, tcClosed, dial, tcClient>>
  BY DEF Tc!CloseReturns
<1>2. /\ closing' \in [at : {"none", "lock", "close", "wait", "returned"},
                       took : SUBSET Tc!Clients, used : BOOLEAN]
      /\ closing'.at = "returned" /\ closing'.took = closing.took
  BY <1>1, <1>a DEF TcTypes
<1>3. \A x : InFlight(x)' = InFlight(x) /\ InUse(x)' = InUse(x)
  BY <1>1, SameDials
<1>4. TcTypes'
  BY <1>1, <1>2, <1>a DEF TcTypes
<1>5. PendingCounted' /\ ClientsInOrder' /\ DialsAwaited' /\ WhileOpen'
  BY <1>1, <1>3, <1>a DEF PendingCounted, ClientsInOrder, DialsAwaited, WhileOpen
<1>6. ClosingInOrder'
  BY <1>1, <1>2, <1>a DEF ClosingInOrder
<1> QED
  BY <1>4, <1>5, <1>6 DEF TcInv

LEMMA TcStep == TcInv /\ [Tc!Next]_(Tc!tcVars) => TcInv'
<1> SUFFICES ASSUME TcInv, [Tc!Next]_(Tc!tcVars) PROVE TcInv'
  OBVIOUS
<1>1. CASE UNCHANGED Tc!tcVars
  <2>1. UNCHANGED <<current, usedClient, retired, pending, tcClosed, dial, tcClient, closing>>
    BY <1>1 DEF Tc!tcVars
  <2>2. TcTypes' /\ ClientsInOrder' /\ DialsAwaited' /\ ClosingInOrder'
    BY <2>1 DEF TcInv, TcTypes, ClientsInOrder, DialsAwaited, ClosingInOrder
  <2>3. PendingCounted' /\ WhileOpen'
    BY <2>1, SameDials DEF TcInv, PendingCounted, WhileOpen
  <2> QED
    BY <2>2, <2>3 DEF TcInv
<1>2. CASE Tc!Next
  <2>1. ASSUME NEW d \in Dials,
               Tc!DialBegins(d) \/ Tc!DialStarts(d) \/ Tc!DialReturns(d) \/ Tc!DialFinishes(d)
                 \/ Tc!ReplaceClient(d) \/ Tc!ConnectionEnds(d)
        PROVE  TcInv'
    BY <2>1, DialBeginsStep, DialStartsStep, DialReturnsStep, DialFinishesStep, ReplaceClientStep,
       ConnectionEndsStep
  <2>2. ASSUME NEW c \in Tc!Clients,
               Tc!DrainAwaitsDials(c) \/ Tc!DrainAwaitsConnections(c) \/ Tc!DrainCloses(c)
                 \/ Tc!DrainEnds(c)
        PROVE  TcInv'
    BY <2>2, DrainAwaitsStep, DrainClosesStep, DrainEndsStep
  <2>3. ASSUME Tc!CloseBegins \/ Tc!CloseTakes \/ Tc!CloseCurrent \/ Tc!CloseReturns
        PROVE  TcInv'
    BY <2>3, CloseBeginsStep, CloseTakesStep, CloseCurrentStep, CloseReturnsStep
  <2> QED
    BY <1>2, <2>1, <2>2, <2>3 DEF Tc!Next
<1> QED
  BY <1>1, <1>2

\* A retired client's channel is closed once, no client is closed under a dial or
\* a connection before Close, and none is open when Close has returned: for any
\* number of dials and clients (Client in tailcat/transport.go).
THEOREM TcSound == Tc!Spec => []Tc!ClientsAreRetired
<1>1. TcInv => Tc!ClientsAreRetired
  <2> SUFFICES ASSUME TcInv PROVE Tc!ClientsAreRetired
    OBVIOUS
  <2>a. TcTypes /\ PendingCounted /\ ClientsInOrder /\ DialsAwaited /\ WhileOpen /\ ClosingInOrder
    BY DEF TcInv
  <2>1. Tc!DialsDoneOnce
    BY <2>a DEF DialsAwaited, Tc!DialsDoneOnce
  <2>2. Tc!NobodyCutOff
    <3> SUFFICES ASSUME ~tcClosed, NEW c \in Tc!Clients, tcClient[c] = "closed"
                 PROVE  pending[c] = 0 /\ ~Tc!Connected(c)
      BY DEF Tc!NobodyCutOff
    <3>1. pending[c] = 0 /\ ~InUse(c)
      BY <2>a DEF WhileOpen
    <3>2. InFlight(c) = {}
      BY <2>a, <3>1, InFlightFinite, DialsAssumption DEF PendingCounted
    <3> QED
      BY <3>1, <3>2, Zenon DEF InFlight, InUse, Busy, Tc!Connected
  <2>3. Tc!CloseIsComplete
    <3> SUFFICES ASSUME closing.at = "returned", NEW c \in Tc!Clients PROVE tcClient[c] # "open"
      BY DEF Tc!CloseIsComplete
    <3>1. CASE c < current
      <4>1. retired[c].at = "done"
        BY <2>a, <3>1 DEF ClosingInOrder
      <4> QED
        BY <2>a, <4>1 DEF ClientsInOrder
    <3>2. CASE c = current
      BY <2>a, <3>2 DEF ClosingInOrder
    <3>3. CASE c > current
      BY <2>a, <3>3 DEF ClientsInOrder
    <3>4. c \in Int /\ current \in Int
      BY <2>a DEF TcTypes, Tc!Clients
    <3> QED
      BY <3>1, <3>2, <3>3, <3>4
  <2> QED
    BY <2>1, <2>2, <2>3 DEF Tc!ClientsAreRetired
<1>2. TcInv /\ [Tc!Next]_(Tc!tcVars) => TcInv'
  BY TcStep
<1>3. Tc!Init => TcInv
  BY TcInit
<1> QED
  BY <1>1, <1>2, <1>3, PTL DEF Tc!Spec
-----------------------------------------------------------------------------
(* The Kubernetes launcher.                                                *)

EnsurePlaces == {"get", "delete", "gone", "create", "service", "getsvc", "update"}
ServePlaces ==
  EnsurePlaces \union {"start", "error", "serving", "signal", "stop", "crash", "signalled",
                       "stopped", "crashed"}
PollPlaces ==
  {"idle", "list", "store", "fail", "owndep", "deldep", "ownsvc", "delsvc", "code"}
DeletePlaces == {"none", "error", "deldep", "getsvc", "delsvc", "wait", "ok"}
KubeObject ==
  [owner : {"none", "own", "foreign"}, drifted : BOOLEAN, leaving : BOOLEAN]
PodStates == {"none", "pending", "ready", "crashed", "leaving"}

KubeTypes ==
  /\ strict \in BOOLEAN /\ stopCh \in BOOLEAN /\ crashCh \in BOOLEAN
  /\ dep \in KubeObject /\ svc \in KubeObject
  /\ pods \in [Kube!Pods -> PodStates]
  /\ serve \in [at : ServePlaces, adopted : BOOLEAN, tries : Nat]
  /\ poll \in [at : PollPlaces, pod : Kube!Pods \union {0}, ready : BOOLEAN]
  /\ del \in [at : DeletePlaces, found : BOOLEAN, early : BOOLEAN]
  /\ faults \in Nat

\* What serve makes it makes before it serves: from then on a Deployment that is
\* gone, or leaving, does not come back.
Made == serve.at \notin EnsurePlaces \union {"start"}
DeploymentFree == dep.owner # "own" \/ dep.leaving

\* Nothing polls but while serveCmd serves, and the two channels are used by then;
\* stopCh is closed for a Deployment that is gone.
PollsWhileServing ==
  /\ poll.at # "idle" => serve.at \in {"serving", "signal", "stop", "crash"}
  /\ crashCh \/ stopCh => Made
  /\ stopCh => DeploymentFree
  /\ serve.at \in {"stop", "stopped"} => stopCh

\* --strict: until "delete" or the cleanup after a crash deletes it, the Deployment
\* that serve made, or found without drift, is there.
StrictIsKept ==
  /\ serve.at = "get" /\ del.at = "none" => ~dep.leaving
  /\ (/\ strict /\ del.at = "none" /\ ~crashCh
      /\ serve.at \in {"service", "getsvc", "update", "serving"}
      /\ poll.at \in {"idle", "list", "store", "fail", "owndep", "deldep"})
     => dep.owner = "own" /\ ~dep.leaving /\ ~dep.drifted

\* As far as the cleanup is, if no call failed.
CleanupIsDone ==
  faults = 0 =>
    /\ poll.at \in {"ownsvc", "delsvc", "code"} => DeploymentFree
    /\ poll.at = "code" => svc.owner # "own"
    /\ crashCh \/ serve.at \in {"crash", "crashed"} => DeploymentFree /\ svc.owner # "own"

\* As far as "delete" is, if it began after serve had made its objects.
DeleteIsDone ==
  ~del.early =>
    /\ del.at \notin {"none", "error"} => Made
    /\ del.at \in {"getsvc", "delsvc", "wait", "ok"} => DeploymentFree
    /\ del.at = "ok" /\ del.found => \A p \in Kube!Pods : pods[p] = "none"

KubeInv ==
  KubeTypes /\ PollsWhileServing /\ StrictIsKept /\ CleanupIsDone /\ DeleteIsDone

LEMMA KubeInitial == Kube!Init => KubeInv
<1> SUFFICES ASSUME Kube!Init PROVE KubeInv
  OBVIOUS
<1>1. KubeTypes
  BY DEF Kube!Init, Kube!Nothing, KubeTypes, EnsurePlaces, ServePlaces, PollPlaces,
     DeletePlaces, KubeObject, PodStates
<1>2. /\ serve.at = "start" /\ poll.at = "idle" /\ del.at = "none" /\ ~crashCh /\ ~stopCh
      /\ ~strict
  BY DEF Kube!Init
<1> QED
  BY <1>1, <1>2 DEF KubeInv, PollsWhileServing, StrictIsKept, CleanupIsDone, DeleteIsDone

LEMMA KubeImplies == KubeInv => Kube!BackendIsOwn
  BY DEF KubeInv, KubeTypes, PollsWhileServing, StrictIsKept, CleanupIsDone, DeleteIsDone, Made,
     DeploymentFree, EnsurePlaces, Kube!BackendIsOwn, Kube!ReplacementStays,
     Kube!CrashLeavesNothing, Kube!DeleteFreesNode, Kube!StopsWhenGone, Kube!Live

\* Whatever deletes a Deployment, it is free afterwards.
LEMMA DeletingFrees ==
  ASSUME KubeTypes, Kube!DeleteDeployment
  PROVE  /\ DeploymentFree' /\ dep' \in KubeObject /\ svc' = svc
         /\ pods' \in [Kube!Pods -> PodStates]
         /\ (\A p \in Kube!Pods : pods[p] = "none") => \A p \in Kube!Pods : pods'[p] = "none"
<1>1. dep' \in KubeObject /\ DeploymentFree' /\ svc' = svc
  <2>1. svc' = svc
    BY DEF Kube!DeleteDeployment
  <2>2. \/ dep' = dep /\ dep.owner = "none"
        \/ dep' = [dep EXCEPT !.leaving = TRUE]
        \/ dep' = [owner |-> "none", drifted |-> FALSE, leaving |-> FALSE]
    BY DEF Kube!DeleteDeployment, Kube!Nothing
  <2>3. dep \in KubeObject
    BY DEF KubeTypes
  <2>4. CASE dep' = dep /\ dep.owner = "none"
    BY <2>1, <2>3, <2>4 DEF DeploymentFree
  <2>5. CASE dep' = [dep EXCEPT !.leaving = TRUE]
    BY <2>1, <2>3, <2>5 DEF KubeObject, DeploymentFree
  <2>6. CASE dep' = [owner |-> "none", drifted |-> FALSE, leaving |-> FALSE]
    BY <2>1, <2>3, <2>6 DEF KubeObject, DeploymentFree
  <2> QED
    BY <2>2, <2>4, <2>5, <2>6
<1>2. pods' \in [Kube!Pods -> PodStates]
  BY DEF Kube!DeleteDeployment, Kube!Cascade, KubeTypes, PodStates
<1>3. ASSUME \A p \in Kube!Pods : pods[p] = "none", NEW p \in Kube!Pods PROVE pods'[p] = "none"
  BY <1>3 DEF Kube!DeleteDeployment, Kube!Cascade, Kube!Live
<1> QED
  BY <1>1, <1>2, <1>3

\* One step of serve, its poll, "delete", the cluster or somebody else.
LEMMA KubeStep == KubeInv /\ [Kube!Next]_(Kube!kubeVars) => KubeInv'
<1> SUFFICES ASSUME KubeInv, [Kube!Next]_(Kube!kubeVars) PROVE KubeInv'
  OBVIOUS
<1>a. KubeTypes /\ PollsWhileServing /\ StrictIsKept /\ CleanupIsDone /\ DeleteIsDone
  BY DEF KubeInv
<1>0. CASE UNCHANGED Kube!kubeVars
  BY <1>0, <1>a
     DEF KubeInv, Kube!kubeVars, KubeTypes, PollsWhileServing, StrictIsKept, CleanupIsDone,
         DeleteIsDone, Made, DeploymentFree
<1>1. ASSUME NEW owner \in {"none", "own", "foreign"}, NEW svcOwner \in {"none", owner},
              NEW drifted \in {FALSE, owner = "own"}, Kube!FoundAtStart(owner, drifted, svcOwner)
       PROVE  KubeInv'
  <2>1. KubeTypes'
    <3>1. strict' \in BOOLEAN /\ stopCh' \in BOOLEAN /\ crashCh' \in BOOLEAN
      BY <1>1, <1>a DEF Kube!FoundAtStart, KubeTypes
    <3>2. dep' \in KubeObject
      BY <1>1, <1>a DEF Kube!FoundAtStart, KubeTypes, KubeObject
    <3>3. svc' \in KubeObject
      BY <1>1, <1>a DEF Kube!FoundAtStart, KubeTypes, KubeObject
    <3>4. pods' \in [Kube!Pods -> PodStates]
      BY <1>1, <1>a DEF Kube!FoundAtStart, KubeTypes
    <3>5. serve' \in [at : ServePlaces, adopted : BOOLEAN, tries : Nat]
      BY <1>1, <1>a DEF Kube!FoundAtStart, KubeTypes, EnsurePlaces, ServePlaces
    <3>6. poll' \in [at : PollPlaces, pod : Kube!Pods \union {0}, ready : BOOLEAN]
      BY <1>1, <1>a DEF Kube!FoundAtStart, KubeTypes, PollPlaces
    <3>7. del' \in [at : DeletePlaces, found : BOOLEAN, early : BOOLEAN]
      BY <1>1, <1>a DEF Kube!FoundAtStart, KubeTypes, DeletePlaces
    <3>8. faults' \in Nat
      BY <1>1, <1>a DEF Kube!FoundAtStart, KubeTypes
    <3> QED
      BY <3>1, <3>2, <3>3, <3>4, <3>5, <3>6, <3>7, <3>8 DEF KubeTypes
  <2>2. PollsWhileServing'
    BY <1>1, <1>a
       DEF Kube!FoundAtStart, KubeTypes, PollsWhileServing, Made, DeploymentFree, EnsurePlaces
  <2>3. StrictIsKept'
    BY <1>1, <1>a
       DEF Kube!FoundAtStart, KubeTypes, StrictIsKept, Made, DeploymentFree, PollsWhileServing,
           EnsurePlaces
  <2>4. CleanupIsDone'
    BY <1>1, <1>a
       DEF Kube!FoundAtStart, KubeTypes, CleanupIsDone, Made, DeploymentFree,
           PollsWhileServing, EnsurePlaces
  <2>5. DeleteIsDone'
    BY <1>1, <1>a
       DEF Kube!FoundAtStart, KubeTypes, DeleteIsDone, Made, DeploymentFree, EnsurePlaces
  <2> QED
    BY <2>1, <2>2, <2>3, <2>4, <2>5 DEF KubeInv
<1>2. ASSUME NEW p \in Kube!Pods, Kube!PodStarts(p) PROVE KubeInv'
  <2>1. KubeTypes'
    BY <1>2, <1>a
       DEF Kube!PodStarts, Kube!wrapperVars, Kube!Live, KubeTypes, EnsurePlaces, ServePlaces,
           PollPlaces, DeletePlaces, KubeObject, PodStates
  <2>2. PollsWhileServing'
    BY <1>2, <1>a
       DEF Kube!PodStarts, Kube!wrapperVars, Kube!Live, KubeTypes, PollsWhileServing, Made,
           DeploymentFree, EnsurePlaces
  <2>3. StrictIsKept'
    BY <1>2, <1>a
       DEF Kube!PodStarts, Kube!wrapperVars, Kube!Live, KubeTypes, StrictIsKept, Made,
           DeploymentFree, PollsWhileServing, EnsurePlaces
  <2>4. CleanupIsDone'
    BY <1>2, <1>a
       DEF Kube!PodStarts, Kube!wrapperVars, Kube!Live, KubeTypes, CleanupIsDone, Made,
           DeploymentFree, PollsWhileServing, EnsurePlaces
  <2>5. DeleteIsDone'
    BY <1>2, <1>a
       DEF Kube!PodStarts, Kube!wrapperVars, Kube!Live, KubeTypes, DeleteIsDone, Made,
           DeploymentFree, EnsurePlaces
  <2> QED
    BY <2>1, <2>2, <2>3, <2>4, <2>5 DEF KubeInv
<1>3. ASSUME NEW p \in Kube!Pods, Kube!PodChanges(p) PROVE KubeInv'
  <2>1. KubeTypes'
    BY <1>3, <1>a
       DEF Kube!PodChanges, Kube!wrapperVars, Kube!Live, KubeTypes, EnsurePlaces, ServePlaces,
           PollPlaces, DeletePlaces, KubeObject, PodStates
  <2>2. PollsWhileServing'
    BY <1>3, <1>a
       DEF Kube!PodChanges, Kube!wrapperVars, Kube!Live, KubeTypes, PollsWhileServing, Made,
           DeploymentFree, EnsurePlaces
  <2>3. StrictIsKept'
    BY <1>3, <1>a
       DEF Kube!PodChanges, Kube!wrapperVars, Kube!Live, KubeTypes, StrictIsKept, Made,
           DeploymentFree, PollsWhileServing, EnsurePlaces
  <2>4. CleanupIsDone'
    BY <1>3, <1>a
       DEF Kube!PodChanges, Kube!wrapperVars, Kube!Live, KubeTypes, CleanupIsDone, Made,
           DeploymentFree, PollsWhileServing, EnsurePlaces
  <2>5. DeleteIsDone'
    BY <1>3, <1>a
       DEF Kube!PodChanges, Kube!wrapperVars, Kube!Live, KubeTypes, DeleteIsDone, Made,
           DeploymentFree, EnsurePlaces
  <2> QED
    BY <2>1, <2>2, <2>3, <2>4, <2>5 DEF KubeInv
<1>4. ASSUME NEW p \in Kube!Pods, Kube!PodGoes(p) PROVE KubeInv'
  <2>1. KubeTypes'
    BY <1>4, <1>a
       DEF Kube!PodGoes, Kube!wrapperVars, KubeTypes, EnsurePlaces, ServePlaces, PollPlaces,
           DeletePlaces, KubeObject, PodStates
  <2>2. PollsWhileServing'
    BY <1>4, <1>a
       DEF Kube!PodGoes, Kube!wrapperVars, KubeTypes, PollsWhileServing, Made, DeploymentFree,
           EnsurePlaces
  <2>3. StrictIsKept'
    BY <1>4, <1>a
       DEF Kube!PodGoes, Kube!wrapperVars, KubeTypes, StrictIsKept, Made, DeploymentFree,
           PollsWhileServing, EnsurePlaces
  <2>4. CleanupIsDone'
    BY <1>4, <1>a
       DEF Kube!PodGoes, Kube!wrapperVars, KubeTypes, CleanupIsDone, Made, DeploymentFree,
           PollsWhileServing, EnsurePlaces
  <2>5. DeleteIsDone'
    BY <1>4, <1>a
       DEF Kube!PodGoes, Kube!wrapperVars, KubeTypes, DeleteIsDone, Made, DeploymentFree,
           EnsurePlaces
  <2> QED
    BY <2>1, <2>2, <2>3, <2>4, <2>5 DEF KubeInv
<1>5. CASE Kube!DeploymentGoes
  <2>1. KubeTypes'
    BY <1>5, <1>a
       DEF Kube!DeploymentGoes, Kube!Nothing, Kube!wrapperVars, KubeTypes, EnsurePlaces,
           ServePlaces, PollPlaces, DeletePlaces, KubeObject, PodStates
  <2>2. PollsWhileServing'
    BY <1>5, <1>a
       DEF Kube!DeploymentGoes, Kube!Nothing, Kube!wrapperVars, KubeTypes, PollsWhileServing,
           Made, DeploymentFree, EnsurePlaces
  <2>3. StrictIsKept'
    BY <1>5, <1>a
       DEF Kube!DeploymentGoes, Kube!Nothing, Kube!wrapperVars, KubeTypes, StrictIsKept, Made,
           DeploymentFree, PollsWhileServing, EnsurePlaces
  <2>4. CleanupIsDone'
    BY <1>5, <1>a
       DEF Kube!DeploymentGoes, Kube!Nothing, Kube!wrapperVars, KubeTypes, CleanupIsDone, Made,
           DeploymentFree, PollsWhileServing, EnsurePlaces
  <2>5. DeleteIsDone'
    BY <1>5, <1>a
       DEF Kube!DeploymentGoes, Kube!Nothing, Kube!wrapperVars, KubeTypes, DeleteIsDone, Made,
           DeploymentFree, EnsurePlaces
  <2> QED
    BY <2>1, <2>2, <2>3, <2>4, <2>5 DEF KubeInv
<1>6. CASE Kube!NameTaken
  <2>1. KubeTypes'
    <3>1. strict' \in BOOLEAN /\ stopCh' \in BOOLEAN /\ crashCh' \in BOOLEAN
      BY <1>6, <1>a DEF Kube!NameTaken, Kube!Nothing, Kube!wrapperVars, KubeTypes
    <3>2. dep' \in KubeObject
      BY <1>6, <1>a DEF Kube!NameTaken, Kube!Nothing, Kube!wrapperVars, KubeTypes, KubeObject
    <3>3. svc' \in KubeObject
      BY <1>6, <1>a DEF Kube!NameTaken, Kube!Nothing, Kube!wrapperVars, KubeTypes, KubeObject
    <3>4. pods' \in [Kube!Pods -> PodStates]
      BY <1>6, <1>a DEF Kube!NameTaken, Kube!Nothing, Kube!wrapperVars, KubeTypes
    <3>5. serve' \in [at : ServePlaces, adopted : BOOLEAN, tries : Nat]
      BY <1>6, <1>a
         DEF Kube!NameTaken, Kube!Nothing, Kube!wrapperVars, KubeTypes, EnsurePlaces,
             ServePlaces
    <3>6. poll' \in [at : PollPlaces, pod : Kube!Pods \union {0}, ready : BOOLEAN]
      BY <1>6, <1>a DEF Kube!NameTaken, Kube!Nothing, Kube!wrapperVars, KubeTypes, PollPlaces
    <3>7. del' \in [at : DeletePlaces, found : BOOLEAN, early : BOOLEAN]
      BY <1>6, <1>a DEF Kube!NameTaken, Kube!Nothing, Kube!wrapperVars, KubeTypes, DeletePlaces
    <3>8. faults' \in Nat
      BY <1>6, <1>a DEF Kube!NameTaken, Kube!Nothing, Kube!wrapperVars, KubeTypes
    <3> QED
      BY <3>1, <3>2, <3>3, <3>4, <3>5, <3>6, <3>7, <3>8 DEF KubeTypes
  <2>2. PollsWhileServing'
    BY <1>6, <1>a
       DEF Kube!NameTaken, Kube!Nothing, Kube!wrapperVars, KubeTypes, PollsWhileServing, Made,
           DeploymentFree, EnsurePlaces
  <2>3. StrictIsKept'
    BY <1>6, <1>a
       DEF Kube!NameTaken, Kube!Nothing, Kube!wrapperVars, KubeTypes, StrictIsKept, Made,
           DeploymentFree, PollsWhileServing, EnsurePlaces
  <2>4. CleanupIsDone'
    BY <1>6, <1>a
       DEF Kube!NameTaken, Kube!Nothing, Kube!wrapperVars, KubeTypes, CleanupIsDone, Made,
           DeploymentFree, PollsWhileServing, EnsurePlaces
  <2>5. DeleteIsDone'
    BY <1>6, <1>a
       DEF Kube!NameTaken, Kube!Nothing, Kube!wrapperVars, KubeTypes, DeleteIsDone, Made,
           DeploymentFree, EnsurePlaces
  <2> QED
    BY <2>1, <2>2, <2>3, <2>4, <2>5 DEF KubeInv
<1>7. CASE Kube!NameFreed
  <2>1. KubeTypes'
    BY <1>7, <1>a
       DEF Kube!NameFreed, Kube!Nothing, Kube!wrapperVars, KubeTypes, EnsurePlaces,
           ServePlaces, PollPlaces, DeletePlaces, KubeObject, PodStates
  <2>2. PollsWhileServing'
    BY <1>7, <1>a
       DEF Kube!NameFreed, Kube!Nothing, Kube!wrapperVars, KubeTypes, PollsWhileServing, Made,
           DeploymentFree, EnsurePlaces
  <2>3. StrictIsKept'
    BY <1>7, <1>a
       DEF Kube!NameFreed, Kube!Nothing, Kube!wrapperVars, KubeTypes, StrictIsKept, Made,
           DeploymentFree, PollsWhileServing, EnsurePlaces
  <2>4. CleanupIsDone'
    BY <1>7, <1>a
       DEF Kube!NameFreed, Kube!Nothing, Kube!wrapperVars, KubeTypes, CleanupIsDone, Made,
           DeploymentFree, PollsWhileServing, EnsurePlaces
  <2>5. DeleteIsDone'
    BY <1>7, <1>a
       DEF Kube!NameFreed, Kube!Nothing, Kube!wrapperVars, KubeTypes, DeleteIsDone, Made,
           DeploymentFree, EnsurePlaces
  <2> QED
    BY <2>1, <2>2, <2>3, <2>4, <2>5 DEF KubeInv
<1>8. CASE Kube!EnsureFails
  <2>1. KubeTypes'
    BY <1>8, <1>a
       DEF Kube!EnsureFails, Kube!Ensuring, Kube!Fault, Kube!ServeAt, Kube!clusterVars,
           KubeTypes, EnsurePlaces, ServePlaces, PollPlaces, DeletePlaces, KubeObject,
           PodStates
  <2>2. PollsWhileServing'
    BY <1>8, <1>a
       DEF Kube!EnsureFails, Kube!Ensuring, Kube!Fault, Kube!ServeAt, Kube!clusterVars,
           KubeTypes, PollsWhileServing, Made, DeploymentFree, EnsurePlaces
  <2>3. StrictIsKept'
    BY <1>8, <1>a
       DEF Kube!EnsureFails, Kube!Ensuring, Kube!Fault, Kube!ServeAt, Kube!clusterVars,
           KubeTypes, StrictIsKept, Made, DeploymentFree, PollsWhileServing, EnsurePlaces
  <2>4. CleanupIsDone'
    BY <1>8, <1>a
       DEF Kube!EnsureFails, Kube!Ensuring, Kube!Fault, Kube!ServeAt, Kube!clusterVars,
           KubeTypes, CleanupIsDone, Made, DeploymentFree, PollsWhileServing, EnsurePlaces
  <2>5. DeleteIsDone'
    BY <1>8, <1>a
       DEF Kube!EnsureFails, Kube!Ensuring, Kube!Fault, Kube!ServeAt, Kube!clusterVars,
           KubeTypes, DeleteIsDone, Made, DeploymentFree, EnsurePlaces
  <2> QED
    BY <2>1, <2>2, <2>3, <2>4, <2>5 DEF KubeInv
<1>9. CASE Kube!EnsureGets
  <2>u. /\ serve.at = "get" /\ dep.owner \in {"none", "own", "foreign"}
        /\ UNCHANGED <<dep, svc, pods, strict, poll, state, stopCh, crashCh, signalled, del, faults>>
    BY <1>9, <1>a DEF Kube!EnsureGets, Kube!clusterVars, KubeTypes, KubeObject
  <2>v. \/ serve' = [serve EXCEPT !.at = "create"]
        \/ serve' = [serve EXCEPT !.at = "error"]
        \/ serve' = [serve EXCEPT !.at = "delete"]
        \/ /\ serve' = [serve EXCEPT !.at = "getsvc", !.adopted = TRUE]
           /\ dep.owner = "own" /\ ~(strict /\ dep.drifted)
    BY <1>9, <2>u DEF Kube!EnsureGets, Kube!ServeAt
  <2>w. /\ serve'.at \in {"create", "error", "delete", "getsvc"}
        /\ serve'.at = "getsvc" => dep.owner = "own" /\ ~(strict /\ dep.drifted)
        /\ serve' \in [at : ServePlaces, adopted : BOOLEAN, tries : Nat]
    BY <2>v, <1>a, Zenon DEF KubeTypes, ServePlaces, EnsurePlaces
  <2>1. KubeTypes'
    <3>1. strict' \in BOOLEAN /\ stopCh' \in BOOLEAN /\ crashCh' \in BOOLEAN
      BY <2>u, <2>w, <1>a DEF KubeTypes
    <3>2. dep' \in KubeObject
      BY <2>u, <2>w, <1>a DEF KubeTypes, KubeObject
    <3>3. svc' \in KubeObject
      BY <2>u, <2>w, <1>a DEF KubeTypes, KubeObject
    <3>4. pods' \in [Kube!Pods -> PodStates]
      BY <2>u, <2>w, <1>a DEF KubeTypes
    <3>5. serve' \in [at : ServePlaces, adopted : BOOLEAN, tries : Nat]
      BY <2>u, <2>w, <1>a DEF KubeTypes, EnsurePlaces, ServePlaces
    <3>6. poll' \in [at : PollPlaces, pod : Kube!Pods \union {0}, ready : BOOLEAN]
      BY <2>u, <2>w, <1>a DEF KubeTypes, PollPlaces
    <3>7. del' \in [at : DeletePlaces, found : BOOLEAN, early : BOOLEAN]
      BY <2>u, <2>w, <1>a DEF KubeTypes, DeletePlaces
    <3>8. faults' \in Nat
      BY <2>u, <2>w, <1>a DEF KubeTypes
    <3> QED
      BY <3>1, <3>2, <3>3, <3>4, <3>5, <3>6, <3>7, <3>8 DEF KubeTypes
  <2>2. PollsWhileServing'
    BY <2>u, <2>w, <1>a DEF KubeTypes, PollsWhileServing, Made, DeploymentFree, EnsurePlaces
  <2>3. StrictIsKept'
    BY <2>u, <2>w, <1>a
       DEF KubeTypes, StrictIsKept, Made, DeploymentFree, PollsWhileServing, EnsurePlaces
  <2>4. CleanupIsDone'
    BY <2>u, <2>w, <1>a
       DEF KubeTypes, CleanupIsDone, Made, DeploymentFree, PollsWhileServing, EnsurePlaces
  <2>5. DeleteIsDone'
    BY <2>u, <2>w, <1>a DEF KubeTypes, DeleteIsDone, Made, DeploymentFree, EnsurePlaces
  <2> QED
    BY <2>1, <2>2, <2>3, <2>4, <2>5 DEF KubeInv
<1>10. CASE Kube!EnsureDeletes
  <2>d. /\ DeploymentFree' /\ dep' \in KubeObject /\ svc' = svc
        /\ pods' \in [Kube!Pods -> PodStates]
        /\ (\A p \in Kube!Pods : pods[p] = "none") => \A p \in Kube!Pods : pods'[p] = "none"
    <3>1. Kube!DeleteDeployment
      BY <1>10 DEF Kube!EnsureDeletes
    <3> QED
      BY <3>1, <1>a, DeletingFrees DEF KubeTypes
  <2>1. KubeTypes'
    <3>1. strict' \in BOOLEAN /\ stopCh' \in BOOLEAN /\ crashCh' \in BOOLEAN
      BY <1>10, <1>a, <2>d DEF Kube!EnsureDeletes, Kube!ServeAt, KubeTypes
    <3>2. dep' \in KubeObject
      BY <1>10, <1>a, <2>d DEF Kube!EnsureDeletes, Kube!ServeAt, KubeTypes, KubeObject
    <3>3. svc' \in KubeObject
      BY <1>10, <1>a, <2>d DEF Kube!EnsureDeletes, Kube!ServeAt, KubeTypes, KubeObject
    <3>4. pods' \in [Kube!Pods -> PodStates]
      BY <1>10, <1>a, <2>d DEF Kube!EnsureDeletes, Kube!ServeAt, KubeTypes
    <3>5. serve' \in [at : ServePlaces, adopted : BOOLEAN, tries : Nat]
      BY <1>10, <1>a, <2>d
         DEF Kube!EnsureDeletes, Kube!ServeAt, KubeTypes, EnsurePlaces, ServePlaces
    <3>6. poll' \in [at : PollPlaces, pod : Kube!Pods \union {0}, ready : BOOLEAN]
      BY <1>10, <1>a, <2>d DEF Kube!EnsureDeletes, Kube!ServeAt, KubeTypes, PollPlaces
    <3>7. del' \in [at : DeletePlaces, found : BOOLEAN, early : BOOLEAN]
      BY <1>10, <1>a, <2>d DEF Kube!EnsureDeletes, Kube!ServeAt, KubeTypes, DeletePlaces
    <3>8. faults' \in Nat
      BY <1>10, <1>a, <2>d DEF Kube!EnsureDeletes, Kube!ServeAt, KubeTypes
    <3> QED
      BY <3>1, <3>2, <3>3, <3>4, <3>5, <3>6, <3>7, <3>8 DEF KubeTypes
  <2>2. PollsWhileServing'
    BY <1>10, <1>a, <2>d
       DEF Kube!EnsureDeletes, Kube!ServeAt, KubeTypes, PollsWhileServing, Made,
           DeploymentFree, EnsurePlaces
  <2>3. StrictIsKept'
    BY <1>10, <1>a, <2>d
       DEF Kube!EnsureDeletes, Kube!ServeAt, KubeTypes, StrictIsKept, Made, DeploymentFree,
           PollsWhileServing, EnsurePlaces
  <2>4. CleanupIsDone'
    BY <1>10, <1>a, <2>d
       DEF Kube!EnsureDeletes, Kube!ServeAt, KubeTypes, CleanupIsDone, Made, DeploymentFree,
           PollsWhileServing, EnsurePlaces
  <2>5. DeleteIsDone'
    BY <1>10, <1>a, <2>d
       DEF Kube!EnsureDeletes, Kube!ServeAt, KubeTypes, DeleteIsDone, Made, DeploymentFree,
           EnsurePlaces
  <2> QED
    BY <2>1, <2>2, <2>3, <2>4, <2>5 DEF KubeInv
<1>11. CASE Kube!EnsureWaits
  <2>1. KubeTypes'
    BY <1>11, <1>a
       DEF Kube!EnsureWaits, Kube!ServeAt, Kube!clusterVars, KubeTypes, EnsurePlaces,
           ServePlaces, PollPlaces, DeletePlaces, KubeObject, PodStates
  <2>2. PollsWhileServing'
    BY <1>11, <1>a
       DEF Kube!EnsureWaits, Kube!ServeAt, Kube!clusterVars, KubeTypes, PollsWhileServing,
           Made, DeploymentFree, EnsurePlaces
  <2>3. StrictIsKept'
    BY <1>11, <1>a
       DEF Kube!EnsureWaits, Kube!ServeAt, Kube!clusterVars, KubeTypes, StrictIsKept, Made,
           DeploymentFree, PollsWhileServing, EnsurePlaces
  <2>4. CleanupIsDone'
    BY <1>11, <1>a
       DEF Kube!EnsureWaits, Kube!ServeAt, Kube!clusterVars, KubeTypes, CleanupIsDone, Made,
           DeploymentFree, PollsWhileServing, EnsurePlaces
  <2>5. DeleteIsDone'
    BY <1>11, <1>a
       DEF Kube!EnsureWaits, Kube!ServeAt, Kube!clusterVars, KubeTypes, DeleteIsDone, Made,
           DeploymentFree, EnsurePlaces
  <2> QED
    BY <2>1, <2>2, <2>3, <2>4, <2>5 DEF KubeInv
<1>12. CASE Kube!EnsureCreates
  <2>u. /\ serve.at = "create"
        /\ UNCHANGED <<svc, pods, strict, poll, state, stopCh, crashCh, signalled, del, faults>>
    BY <1>12 DEF Kube!EnsureCreates
  <2>w. /\ serve' \in [at : ServePlaces, adopted : BOOLEAN, tries : Nat]
        /\ dep' \in KubeObject
        /\ \/ serve'.at \in {"create", "error"} /\ UNCHANGED dep
           \/ serve'.at = "service" /\ dep'.owner = "own" /\ ~dep'.leaving /\ ~dep'.drifted
    <3>1. CASE dep' = Kube!Own /\ serve' = [serve EXCEPT !.at = "service"]
      BY <3>1, <1>a DEF KubeTypes, KubeObject, Kube!Own, Kube!Nothing, ServePlaces, EnsurePlaces
    <3>2. CASE UNCHANGED dep /\ serve' = [serve EXCEPT !.tries = serve.tries + 1, !.at = "error"]
      <4>1. PICK tries \in Nat : tries = serve.tries + 1
        BY <1>a DEF KubeTypes
      <4>2. serve' = [serve EXCEPT !.tries = tries, !.at = "error"]
        BY <3>2, <4>1
      <4>3. serve \in [at : ServePlaces, adopted : BOOLEAN, tries : Nat] /\ dep \in KubeObject
        BY <1>a DEF KubeTypes
      <4> QED
        BY <3>2, <4>2, <4>3 DEF ServePlaces, EnsurePlaces
    <3>3. CASE UNCHANGED dep /\ serve' = [serve EXCEPT !.tries = serve.tries + 1, !.at = "create"]
      <4>1. PICK tries \in Nat : tries = serve.tries + 1
        BY <1>a DEF KubeTypes
      <4>2. serve' = [serve EXCEPT !.tries = tries, !.at = "create"]
        BY <3>3, <4>1
      <4>3. serve \in [at : ServePlaces, adopted : BOOLEAN, tries : Nat] /\ dep \in KubeObject
        BY <1>a DEF KubeTypes
      <4> QED
        BY <3>3, <4>2, <4>3 DEF ServePlaces, EnsurePlaces
    <3> QED
      BY <3>1, <3>2, <3>3, <1>12 DEF Kube!EnsureCreates, Kube!ServeAt
  <2>1. KubeTypes'
    <3>1. strict' \in BOOLEAN /\ stopCh' \in BOOLEAN /\ crashCh' \in BOOLEAN
      BY <2>u, <2>w, <1>a DEF KubeTypes
    <3>2. dep' \in KubeObject
      BY <2>u, <2>w, <1>a DEF KubeTypes, KubeObject
    <3>3. svc' \in KubeObject
      BY <2>u, <2>w, <1>a DEF KubeTypes, KubeObject
    <3>4. pods' \in [Kube!Pods -> PodStates]
      BY <2>u, <2>w, <1>a DEF KubeTypes
    <3>5. serve' \in [at : ServePlaces, adopted : BOOLEAN, tries : Nat]
      BY <2>u, <2>w, <1>a DEF KubeTypes, EnsurePlaces, ServePlaces
    <3>6. poll' \in [at : PollPlaces, pod : Kube!Pods \union {0}, ready : BOOLEAN]
      BY <2>u, <2>w, <1>a DEF KubeTypes, PollPlaces
    <3>7. del' \in [at : DeletePlaces, found : BOOLEAN, early : BOOLEAN]
      BY <2>u, <2>w, <1>a DEF KubeTypes, DeletePlaces
    <3>8. faults' \in Nat
      BY <2>u, <2>w, <1>a DEF KubeTypes
    <3> QED
      BY <3>1, <3>2, <3>3, <3>4, <3>5, <3>6, <3>7, <3>8 DEF KubeTypes
  <2>2. PollsWhileServing'
    BY <2>u, <2>w, <1>a DEF KubeTypes, PollsWhileServing, Made, DeploymentFree, EnsurePlaces
  <2>3. StrictIsKept'
    BY <2>u, <2>w, <1>a
       DEF KubeTypes, StrictIsKept, Made, DeploymentFree, PollsWhileServing, EnsurePlaces
  <2>4. CleanupIsDone'
    BY <2>u, <2>w, <1>a
       DEF KubeTypes, CleanupIsDone, Made, DeploymentFree, PollsWhileServing, EnsurePlaces
  <2>5. DeleteIsDone'
    BY <2>u, <2>w, <1>a DEF KubeTypes, DeleteIsDone, Made, DeploymentFree, EnsurePlaces
  <2> QED
    BY <2>1, <2>2, <2>3, <2>4, <2>5 DEF KubeInv
<1>13. CASE Kube!EnsureService
  <2>1. KubeTypes'
    <3>1. strict' \in BOOLEAN /\ stopCh' \in BOOLEAN /\ crashCh' \in BOOLEAN
      BY <1>13, <1>a DEF Kube!EnsureService, Kube!ServeAt, Kube!Own, Kube!Nothing, KubeTypes
    <3>2. dep' \in KubeObject
      BY <1>13, <1>a
         DEF Kube!EnsureService, Kube!ServeAt, Kube!Own, Kube!Nothing, KubeTypes, KubeObject
    <3>3. svc' \in KubeObject
      BY <1>13, <1>a
         DEF Kube!EnsureService, Kube!ServeAt, Kube!Own, Kube!Nothing, KubeTypes, KubeObject
    <3>4. pods' \in [Kube!Pods -> PodStates]
      BY <1>13, <1>a DEF Kube!EnsureService, Kube!ServeAt, Kube!Own, Kube!Nothing, KubeTypes
    <3>5. serve' \in [at : ServePlaces, adopted : BOOLEAN, tries : Nat]
      BY <1>13, <1>a
         DEF Kube!EnsureService, Kube!ServeAt, Kube!Own, Kube!Nothing, KubeTypes, EnsurePlaces,
             ServePlaces
    <3>6. poll' \in [at : PollPlaces, pod : Kube!Pods \union {0}, ready : BOOLEAN]
      BY <1>13, <1>a
         DEF Kube!EnsureService, Kube!ServeAt, Kube!Own, Kube!Nothing, KubeTypes, PollPlaces
    <3>7. del' \in [at : DeletePlaces, found : BOOLEAN, early : BOOLEAN]
      BY <1>13, <1>a
         DEF Kube!EnsureService, Kube!ServeAt, Kube!Own, Kube!Nothing, KubeTypes, DeletePlaces
    <3>8. faults' \in Nat
      BY <1>13, <1>a DEF Kube!EnsureService, Kube!ServeAt, Kube!Own, Kube!Nothing, KubeTypes
    <3> QED
      BY <3>1, <3>2, <3>3, <3>4, <3>5, <3>6, <3>7, <3>8 DEF KubeTypes
  <2>2. PollsWhileServing'
    BY <1>13, <1>a
       DEF Kube!EnsureService, Kube!ServeAt, Kube!Own, Kube!Nothing, KubeTypes,
           PollsWhileServing, Made, DeploymentFree, EnsurePlaces
  <2>3. StrictIsKept'
    BY <1>13, <1>a
       DEF Kube!EnsureService, Kube!ServeAt, Kube!Own, Kube!Nothing, KubeTypes, StrictIsKept,
           Made, DeploymentFree, PollsWhileServing, EnsurePlaces
  <2>4. CleanupIsDone'
    BY <1>13, <1>a
       DEF Kube!EnsureService, Kube!ServeAt, Kube!Own, Kube!Nothing, KubeTypes, CleanupIsDone,
           Made, DeploymentFree, PollsWhileServing, EnsurePlaces
  <2>5. DeleteIsDone'
    BY <1>13, <1>a
       DEF Kube!EnsureService, Kube!ServeAt, Kube!Own, Kube!Nothing, KubeTypes, DeleteIsDone,
           Made, DeploymentFree, EnsurePlaces
  <2> QED
    BY <2>1, <2>2, <2>3, <2>4, <2>5 DEF KubeInv
<1>14. CASE Kube!EnsureGetsService
  <2>1. KubeTypes'
    <3>1. strict' \in BOOLEAN /\ stopCh' \in BOOLEAN /\ crashCh' \in BOOLEAN
      BY <1>14, <1>a DEF Kube!EnsureGetsService, Kube!ServeAt, Kube!Own, Kube!Nothing, KubeTypes
    <3>2. dep' \in KubeObject
      BY <1>14, <1>a
         DEF Kube!EnsureGetsService, Kube!ServeAt, Kube!Own, Kube!Nothing, KubeTypes,
             KubeObject
    <3>3. svc' \in KubeObject
      BY <1>14, <1>a
         DEF Kube!EnsureGetsService, Kube!ServeAt, Kube!Own, Kube!Nothing, KubeTypes,
             KubeObject
    <3>4. pods' \in [Kube!Pods -> PodStates]
      BY <1>14, <1>a DEF Kube!EnsureGetsService, Kube!ServeAt, Kube!Own, Kube!Nothing, KubeTypes
    <3>5. serve' \in [at : ServePlaces, adopted : BOOLEAN, tries : Nat]
      BY <1>14, <1>a
         DEF Kube!EnsureGetsService, Kube!ServeAt, Kube!Own, Kube!Nothing, KubeTypes,
             EnsurePlaces, ServePlaces
    <3>6. poll' \in [at : PollPlaces, pod : Kube!Pods \union {0}, ready : BOOLEAN]
      BY <1>14, <1>a
         DEF Kube!EnsureGetsService, Kube!ServeAt, Kube!Own, Kube!Nothing, KubeTypes,
             PollPlaces
    <3>7. del' \in [at : DeletePlaces, found : BOOLEAN, early : BOOLEAN]
      BY <1>14, <1>a
         DEF Kube!EnsureGetsService, Kube!ServeAt, Kube!Own, Kube!Nothing, KubeTypes,
             DeletePlaces
    <3>8. faults' \in Nat
      BY <1>14, <1>a DEF Kube!EnsureGetsService, Kube!ServeAt, Kube!Own, Kube!Nothing, KubeTypes
    <3> QED
      BY <3>1, <3>2, <3>3, <3>4, <3>5, <3>6, <3>7, <3>8 DEF KubeTypes
  <2>2. PollsWhileServing'
    BY <1>14, <1>a
       DEF Kube!EnsureGetsService, Kube!ServeAt, Kube!Own, Kube!Nothing, KubeTypes,
           PollsWhileServing, Made, DeploymentFree, EnsurePlaces
  <2>3. StrictIsKept'
    BY <1>14, <1>a
       DEF Kube!EnsureGetsService, Kube!ServeAt, Kube!Own, Kube!Nothing, KubeTypes,
           StrictIsKept, Made, DeploymentFree, PollsWhileServing, EnsurePlaces
  <2>4. CleanupIsDone'
    BY <1>14, <1>a
       DEF Kube!EnsureGetsService, Kube!ServeAt, Kube!Own, Kube!Nothing, KubeTypes,
           CleanupIsDone, Made, DeploymentFree, PollsWhileServing, EnsurePlaces
  <2>5. DeleteIsDone'
    BY <1>14, <1>a
       DEF Kube!EnsureGetsService, Kube!ServeAt, Kube!Own, Kube!Nothing, KubeTypes,
           DeleteIsDone, Made, DeploymentFree, EnsurePlaces
  <2> QED
    BY <2>1, <2>2, <2>3, <2>4, <2>5 DEF KubeInv
<1>15. CASE Kube!EnsureUpdates
  <2>1. KubeTypes'
    <3>1. strict' \in BOOLEAN /\ stopCh' \in BOOLEAN /\ crashCh' \in BOOLEAN
      BY <1>15, <1>a DEF Kube!EnsureUpdates, Kube!ServeAt, KubeTypes
    <3>2. dep' \in KubeObject
      BY <1>15, <1>a DEF Kube!EnsureUpdates, Kube!ServeAt, KubeTypes, KubeObject
    <3>3. svc' \in KubeObject
      BY <1>15, <1>a DEF Kube!EnsureUpdates, Kube!ServeAt, KubeTypes, KubeObject
    <3>4. pods' \in [Kube!Pods -> PodStates]
      BY <1>15, <1>a DEF Kube!EnsureUpdates, Kube!ServeAt, KubeTypes
    <3>5. serve' \in [at : ServePlaces, adopted : BOOLEAN, tries : Nat]
      BY <1>15, <1>a DEF Kube!EnsureUpdates, Kube!ServeAt, KubeTypes, EnsurePlaces, ServePlaces
    <3>6. poll' \in [at : PollPlaces, pod : Kube!Pods \union {0}, ready : BOOLEAN]
      BY <1>15, <1>a DEF Kube!EnsureUpdates, Kube!ServeAt, KubeTypes, PollPlaces
    <3>7. del' \in [at : DeletePlaces, found : BOOLEAN, early : BOOLEAN]
      BY <1>15, <1>a DEF Kube!EnsureUpdates, Kube!ServeAt, KubeTypes, DeletePlaces
    <3>8. faults' \in Nat
      BY <1>15, <1>a DEF Kube!EnsureUpdates, Kube!ServeAt, KubeTypes
    <3> QED
      BY <3>1, <3>2, <3>3, <3>4, <3>5, <3>6, <3>7, <3>8 DEF KubeTypes
  <2>2. PollsWhileServing'
    BY <1>15, <1>a
       DEF Kube!EnsureUpdates, Kube!ServeAt, KubeTypes, PollsWhileServing, Made,
           DeploymentFree, EnsurePlaces
  <2>3. StrictIsKept'
    BY <1>15, <1>a
       DEF Kube!EnsureUpdates, Kube!ServeAt, KubeTypes, StrictIsKept, Made, DeploymentFree,
           PollsWhileServing, EnsurePlaces
  <2>4. CleanupIsDone'
    BY <1>15, <1>a
       DEF Kube!EnsureUpdates, Kube!ServeAt, KubeTypes, CleanupIsDone, Made, DeploymentFree,
           PollsWhileServing, EnsurePlaces
  <2>5. DeleteIsDone'
    BY <1>15, <1>a
       DEF Kube!EnsureUpdates, Kube!ServeAt, KubeTypes, DeleteIsDone, Made, DeploymentFree,
           EnsurePlaces
  <2> QED
    BY <2>1, <2>2, <2>3, <2>4, <2>5 DEF KubeInv
<1>16. CASE Kube!PollGets
  <2>1. KubeTypes'
    <3>1. strict' \in BOOLEAN /\ stopCh' \in BOOLEAN /\ crashCh' \in BOOLEAN
      BY <1>16, <1>a DEF Kube!PollGets, Kube!Polling, Kube!PollAt, Kube!clusterVars, KubeTypes
    <3>2. dep' \in KubeObject
      BY <1>16, <1>a
         DEF Kube!PollGets, Kube!Polling, Kube!PollAt, Kube!clusterVars, KubeTypes, KubeObject
    <3>3. svc' \in KubeObject
      BY <1>16, <1>a
         DEF Kube!PollGets, Kube!Polling, Kube!PollAt, Kube!clusterVars, KubeTypes, KubeObject
    <3>4. pods' \in [Kube!Pods -> PodStates]
      BY <1>16, <1>a DEF Kube!PollGets, Kube!Polling, Kube!PollAt, Kube!clusterVars, KubeTypes
    <3>5. serve' \in [at : ServePlaces, adopted : BOOLEAN, tries : Nat]
      BY <1>16, <1>a
         DEF Kube!PollGets, Kube!Polling, Kube!PollAt, Kube!clusterVars, KubeTypes,
             EnsurePlaces, ServePlaces
    <3>6. poll' \in [at : PollPlaces, pod : Kube!Pods \union {0}, ready : BOOLEAN]
      BY <1>16, <1>a
         DEF Kube!PollGets, Kube!Polling, Kube!PollAt, Kube!clusterVars, KubeTypes, PollPlaces
    <3>7. del' \in [at : DeletePlaces, found : BOOLEAN, early : BOOLEAN]
      BY <1>16, <1>a
         DEF Kube!PollGets, Kube!Polling, Kube!PollAt, Kube!clusterVars, KubeTypes,
             DeletePlaces
    <3>8. faults' \in Nat
      BY <1>16, <1>a DEF Kube!PollGets, Kube!Polling, Kube!PollAt, Kube!clusterVars, KubeTypes
    <3> QED
      BY <3>1, <3>2, <3>3, <3>4, <3>5, <3>6, <3>7, <3>8 DEF KubeTypes
  <2>2. PollsWhileServing'
    BY <1>16, <1>a
       DEF Kube!PollGets, Kube!Polling, Kube!PollAt, Kube!clusterVars, KubeTypes,
           PollsWhileServing, Made, DeploymentFree, EnsurePlaces
  <2>3. StrictIsKept'
    BY <1>16, <1>a
       DEF Kube!PollGets, Kube!Polling, Kube!PollAt, Kube!clusterVars, KubeTypes, StrictIsKept,
           Made, DeploymentFree, PollsWhileServing, EnsurePlaces
  <2>4. CleanupIsDone'
    BY <1>16, <1>a
       DEF Kube!PollGets, Kube!Polling, Kube!PollAt, Kube!clusterVars, KubeTypes,
           CleanupIsDone, Made, DeploymentFree, PollsWhileServing, EnsurePlaces
  <2>5. DeleteIsDone'
    BY <1>16, <1>a
       DEF Kube!PollGets, Kube!Polling, Kube!PollAt, Kube!clusterVars, KubeTypes, DeleteIsDone,
           Made, DeploymentFree, EnsurePlaces
  <2> QED
    BY <2>1, <2>2, <2>3, <2>4, <2>5 DEF KubeInv
<1>17. CASE Kube!PollFails
  <2>1. KubeTypes'
    BY <1>17, <1>a
       DEF Kube!PollFails, Kube!Polling, Kube!PollAt, Kube!Fault, Kube!clusterVars, KubeTypes,
           EnsurePlaces, ServePlaces, PollPlaces, DeletePlaces, KubeObject, PodStates
  <2>2. PollsWhileServing'
    BY <1>17, <1>a
       DEF Kube!PollFails, Kube!Polling, Kube!PollAt, Kube!Fault, Kube!clusterVars, KubeTypes,
           PollsWhileServing, Made, DeploymentFree, EnsurePlaces
  <2>3. StrictIsKept'
    BY <1>17, <1>a
       DEF Kube!PollFails, Kube!Polling, Kube!PollAt, Kube!Fault, Kube!clusterVars, KubeTypes,
           StrictIsKept, Made, DeploymentFree, PollsWhileServing, EnsurePlaces
  <2>4. CleanupIsDone'
    BY <1>17, <1>a
       DEF Kube!PollFails, Kube!Polling, Kube!PollAt, Kube!Fault, Kube!clusterVars, KubeTypes,
           CleanupIsDone, Made, DeploymentFree, PollsWhileServing, EnsurePlaces
  <2>5. DeleteIsDone'
    BY <1>17, <1>a
       DEF Kube!PollFails, Kube!Polling, Kube!PollAt, Kube!Fault, Kube!clusterVars, KubeTypes,
           DeleteIsDone, Made, DeploymentFree, EnsurePlaces
  <2> QED
    BY <2>1, <2>2, <2>3, <2>4, <2>5 DEF KubeInv
<1>18. CASE Kube!PollLists
  <2>p. PICK pod \in Kube!Pods \union {0} :
          \/ poll' = [at |-> "idle", pod |-> pod, ready |-> FALSE]
          \/ poll' = [at |-> "fail", pod |-> pod, ready |-> FALSE]
          \/ poll' = [at |-> "store", pod |-> pod, ready |-> TRUE]
          \/ poll' = [at |-> "store", pod |-> pod, ready |-> FALSE]
    <3> DEFINE live == {p \in Kube!Pods : Kube!Live(p)}
               pod == IF live = {} THEN 0 ELSE CHOOSE p \in live : TRUE
               isReady == pod # 0 /\ pod \in {p \in live : pods[p] = "ready"}
    <3>1. pod \in Kube!Pods \union {0}
      BY Zenon
    <3>2. \/ poll' = [at |-> IF stopCh THEN "idle" ELSE "fail", pod |-> pod, ready |-> FALSE]
          \/ poll' = [at |-> "store", pod |-> pod, ready |-> isReady]
      BY <1>18, Zenon DEF Kube!PollLists
    <3>3. isReady = TRUE \/ isReady = FALSE
      OBVIOUS
    <3> HIDE DEF pod, isReady
    <3> QED
      BY <3>1, <3>2, <3>3, Zenon
  <2>u. /\ serve.at \in {"serving", "signal", "stop", "crash"} /\ poll.at = "list"
        /\ UNCHANGED <<dep, svc, pods, strict, serve, stopCh, crashCh, signalled, del, faults>>
    BY <1>18 DEF Kube!PollLists, Kube!Polling, Kube!clusterVars
  <2>w. /\ poll' \in [at : PollPlaces, pod : Kube!Pods \union {0}, ready : BOOLEAN]
        /\ poll'.at \in {"idle", "fail", "store"}
    <3>1. pod \in Kube!Pods \union {0}
      BY <2>p
    <3>2. CASE poll' = [at |-> "idle", pod |-> pod, ready |-> FALSE]
      BY <3>1, <3>2 DEF PollPlaces
    <3>3. CASE poll' = [at |-> "fail", pod |-> pod, ready |-> FALSE]
      BY <3>1, <3>3 DEF PollPlaces
    <3>4. CASE poll' = [at |-> "store", pod |-> pod, ready |-> TRUE]
      BY <3>1, <3>4 DEF PollPlaces
    <3>5. CASE poll' = [at |-> "store", pod |-> pod, ready |-> FALSE]
      BY <3>1, <3>5 DEF PollPlaces
    <3> QED
      BY <2>p, <3>2, <3>3, <3>4, <3>5
  <2>1. KubeTypes'
    <3>1. strict' \in BOOLEAN /\ stopCh' \in BOOLEAN /\ crashCh' \in BOOLEAN
      BY <2>u, <2>w, <1>a DEF KubeTypes
    <3>2. dep' \in KubeObject
      BY <2>u, <2>w, <1>a DEF KubeTypes, KubeObject
    <3>3. svc' \in KubeObject
      BY <2>u, <2>w, <1>a DEF KubeTypes, KubeObject
    <3>4. pods' \in [Kube!Pods -> PodStates]
      BY <2>u, <2>w, <1>a DEF KubeTypes
    <3>5. serve' \in [at : ServePlaces, adopted : BOOLEAN, tries : Nat]
      BY <2>u, <2>w, <1>a DEF KubeTypes, EnsurePlaces, ServePlaces
    <3>6. poll' \in [at : PollPlaces, pod : Kube!Pods \union {0}, ready : BOOLEAN]
      BY <2>u, <2>w, <1>a DEF KubeTypes, PollPlaces
    <3>7. del' \in [at : DeletePlaces, found : BOOLEAN, early : BOOLEAN]
      BY <2>u, <2>w, <1>a DEF KubeTypes, DeletePlaces
    <3>8. faults' \in Nat
      BY <2>u, <2>w, <1>a DEF KubeTypes
    <3> QED
      BY <3>1, <3>2, <3>3, <3>4, <3>5, <3>6, <3>7, <3>8 DEF KubeTypes
  <2>2. PollsWhileServing'
    BY <2>u, <2>w, <1>a DEF KubeTypes, PollsWhileServing, Made, DeploymentFree, EnsurePlaces
  <2>3. StrictIsKept'
    BY <2>u, <2>w, <1>a
       DEF KubeTypes, StrictIsKept, Made, DeploymentFree, PollsWhileServing, EnsurePlaces
  <2>4. CleanupIsDone'
    BY <2>u, <2>w, <1>a
       DEF KubeTypes, CleanupIsDone, Made, DeploymentFree, PollsWhileServing, EnsurePlaces
  <2>5. DeleteIsDone'
    BY <2>u, <2>w, <1>a DEF KubeTypes, DeleteIsDone, Made, DeploymentFree, EnsurePlaces
  <2> QED
    BY <2>1, <2>2, <2>3, <2>4, <2>5 DEF KubeInv
<1>19. CASE Kube!PollStores
  <2>1. KubeTypes'
    BY <1>19, <1>a
       DEF Kube!PollStores, Kube!Polling, Kube!clusterVars, KubeTypes, EnsurePlaces,
           ServePlaces, PollPlaces, DeletePlaces, KubeObject, PodStates
  <2>2. PollsWhileServing'
    BY <1>19, <1>a
       DEF Kube!PollStores, Kube!Polling, Kube!clusterVars, KubeTypes, PollsWhileServing, Made,
           DeploymentFree, EnsurePlaces
  <2>3. StrictIsKept'
    BY <1>19, <1>a
       DEF Kube!PollStores, Kube!Polling, Kube!clusterVars, KubeTypes, StrictIsKept, Made,
           DeploymentFree, PollsWhileServing, EnsurePlaces
  <2>4. CleanupIsDone'
    BY <1>19, <1>a
       DEF Kube!PollStores, Kube!Polling, Kube!clusterVars, KubeTypes, CleanupIsDone, Made,
           DeploymentFree, PollsWhileServing, EnsurePlaces
  <2>5. DeleteIsDone'
    BY <1>19, <1>a
       DEF Kube!PollStores, Kube!Polling, Kube!clusterVars, KubeTypes, DeleteIsDone, Made,
           DeploymentFree, EnsurePlaces
  <2> QED
    BY <2>1, <2>2, <2>3, <2>4, <2>5 DEF KubeInv
<1>20. CASE Kube!FailStops
  <2>1. KubeTypes'
    BY <1>20, <1>a
       DEF Kube!FailStops, Kube!Polling, Kube!PollAt, Kube!clusterVars, KubeTypes,
           EnsurePlaces, ServePlaces, PollPlaces, DeletePlaces, KubeObject, PodStates
  <2>2. PollsWhileServing'
    BY <1>20, <1>a
       DEF Kube!FailStops, Kube!Polling, Kube!PollAt, Kube!clusterVars, KubeTypes,
           PollsWhileServing, Made, DeploymentFree, EnsurePlaces
  <2>3. StrictIsKept'
    BY <1>20, <1>a
       DEF Kube!FailStops, Kube!Polling, Kube!PollAt, Kube!clusterVars, KubeTypes,
           StrictIsKept, Made, DeploymentFree, PollsWhileServing, EnsurePlaces
  <2>4. CleanupIsDone'
    BY <1>20, <1>a
       DEF Kube!FailStops, Kube!Polling, Kube!PollAt, Kube!clusterVars, KubeTypes,
           CleanupIsDone, Made, DeploymentFree, PollsWhileServing, EnsurePlaces
  <2>5. DeleteIsDone'
    BY <1>20, <1>a
       DEF Kube!FailStops, Kube!Polling, Kube!PollAt, Kube!clusterVars, KubeTypes,
           DeleteIsDone, Made, DeploymentFree, EnsurePlaces
  <2> QED
    BY <2>1, <2>2, <2>3, <2>4, <2>5 DEF KubeInv
<1>21. CASE Kube!FailGets("owndep", dep, "deldep", "ownsvc")
  <2>1. KubeTypes'
    BY <1>21, <1>a
       DEF Kube!FailGets, Kube!Polling, Kube!PollAt, Kube!Fault, Kube!clusterVars, KubeTypes,
           EnsurePlaces, ServePlaces, PollPlaces, DeletePlaces, KubeObject, PodStates
  <2>2. PollsWhileServing'
    BY <1>21, <1>a
       DEF Kube!FailGets, Kube!Polling, Kube!PollAt, Kube!Fault, Kube!clusterVars, KubeTypes,
           PollsWhileServing, Made, DeploymentFree, EnsurePlaces
  <2>3. StrictIsKept'
    BY <1>21, <1>a
       DEF Kube!FailGets, Kube!Polling, Kube!PollAt, Kube!Fault, Kube!clusterVars, KubeTypes,
           StrictIsKept, Made, DeploymentFree, PollsWhileServing, EnsurePlaces
  <2>4. CleanupIsDone'
    BY <1>21, <1>a
       DEF Kube!FailGets, Kube!Polling, Kube!PollAt, Kube!Fault, Kube!clusterVars, KubeTypes,
           CleanupIsDone, Made, DeploymentFree, PollsWhileServing, EnsurePlaces
  <2>5. DeleteIsDone'
    BY <1>21, <1>a
       DEF Kube!FailGets, Kube!Polling, Kube!PollAt, Kube!Fault, Kube!clusterVars, KubeTypes,
           DeleteIsDone, Made, DeploymentFree, EnsurePlaces
  <2> QED
    BY <2>1, <2>2, <2>3, <2>4, <2>5 DEF KubeInv
<1>22. CASE Kube!FailDeletesDeployment
  <2>d. /\ faults' = 0 => DeploymentFree'
        /\ dep' \in KubeObject /\ svc' = svc /\ pods' \in [Kube!Pods -> PodStates]
        /\ (\A p \in Kube!Pods : pods[p] = "none") => \A p \in Kube!Pods : pods'[p] = "none"
        /\ DeploymentFree => DeploymentFree'
        /\ faults' \in Nat /\ (faults' = 0 => faults = 0)
    <3>1. CASE Kube!DeleteDeployment /\ UNCHANGED faults
      BY <3>1, <1>a, DeletingFrees DEF KubeTypes
    <3>2. CASE Kube!Fault /\ UNCHANGED Kube!clusterVars
      BY <3>2, <1>a DEF KubeTypes, Kube!Fault, Kube!clusterVars, DeploymentFree
    <3> QED
      BY <3>1, <3>2, <1>22 DEF Kube!FailDeletesDeployment
  <2>e. /\ poll' = [poll EXCEPT !.at = "ownsvc"] /\ poll.at = "deldep"
        /\ UNCHANGED <<strict, serve, state, stopCh, crashCh, signalled, del>>
    BY <1>22 DEF Kube!FailDeletesDeployment, Kube!PollAt
  <2>1. KubeTypes'
    BY <2>d, <2>e, <1>a
       DEF KubeTypes, EnsurePlaces, ServePlaces, PollPlaces, DeletePlaces, KubeObject,
           PodStates
  <2>2. PollsWhileServing'
    BY <2>d, <2>e, <1>a DEF KubeTypes, PollsWhileServing, Made, DeploymentFree, EnsurePlaces
  <2>3. StrictIsKept'
    BY <2>d, <2>e, <1>a
       DEF KubeTypes, StrictIsKept, Made, DeploymentFree, PollsWhileServing, EnsurePlaces
  <2>4. CleanupIsDone'
    BY <2>d, <2>e, <1>a
       DEF KubeTypes, CleanupIsDone, Made, DeploymentFree, PollsWhileServing, EnsurePlaces
  <2>5. DeleteIsDone'
    BY <2>d, <2>e, <1>a DEF KubeTypes, DeleteIsDone, Made, DeploymentFree, EnsurePlaces
  <2> QED
    BY <2>1, <2>2, <2>3, <2>4, <2>5 DEF KubeInv
<1>23. CASE Kube!FailGets("ownsvc", svc, "delsvc", "code")
  <2>1. KubeTypes'
    BY <1>23, <1>a
       DEF Kube!FailGets, Kube!Polling, Kube!PollAt, Kube!Fault, Kube!clusterVars, KubeTypes,
           EnsurePlaces, ServePlaces, PollPlaces, DeletePlaces, KubeObject, PodStates
  <2>2. PollsWhileServing'
    BY <1>23, <1>a
       DEF Kube!FailGets, Kube!Polling, Kube!PollAt, Kube!Fault, Kube!clusterVars, KubeTypes,
           PollsWhileServing, Made, DeploymentFree, EnsurePlaces
  <2>3. StrictIsKept'
    BY <1>23, <1>a
       DEF Kube!FailGets, Kube!Polling, Kube!PollAt, Kube!Fault, Kube!clusterVars, KubeTypes,
           StrictIsKept, Made, DeploymentFree, PollsWhileServing, EnsurePlaces
  <2>4. CleanupIsDone'
    BY <1>23, <1>a
       DEF Kube!FailGets, Kube!Polling, Kube!PollAt, Kube!Fault, Kube!clusterVars, KubeTypes,
           CleanupIsDone, Made, DeploymentFree, PollsWhileServing, EnsurePlaces
  <2>5. DeleteIsDone'
    BY <1>23, <1>a
       DEF Kube!FailGets, Kube!Polling, Kube!PollAt, Kube!Fault, Kube!clusterVars, KubeTypes,
           DeleteIsDone, Made, DeploymentFree, EnsurePlaces
  <2> QED
    BY <2>1, <2>2, <2>3, <2>4, <2>5 DEF KubeInv
<1>24. CASE Kube!FailDeletesService
  <2>u. /\ serve.at \in {"serving", "signal", "stop", "crash"} /\ poll.at = "delsvc"
        /\ poll' = [poll EXCEPT !.at = "code"]
        /\ UNCHANGED <<dep, pods, strict, serve, state, stopCh, crashCh, signalled, del>>
    BY <1>24 DEF Kube!FailDeletesService, Kube!Polling, Kube!PollAt, Kube!clusterVars
  <2>w. /\ svc' \in KubeObject /\ faults' \in Nat
        /\ faults' = 0 => faults = 0 /\ svc'.owner # "own"
    <3>1. CASE svc' = Kube!Nothing /\ UNCHANGED <<dep, pods, faults>>
      BY <3>1, <1>a DEF KubeTypes, KubeObject, Kube!Nothing
    <3>2. CASE Kube!Fault /\ UNCHANGED Kube!clusterVars
      BY <3>2, <1>a DEF KubeTypes, Kube!Fault, Kube!clusterVars
    <3> QED
      BY <3>1, <3>2, <1>24 DEF Kube!FailDeletesService
  <2>1. KubeTypes'
    <3>1. strict' \in BOOLEAN /\ stopCh' \in BOOLEAN /\ crashCh' \in BOOLEAN
      BY <2>u, <2>w, <1>a DEF KubeTypes
    <3>2. dep' \in KubeObject
      BY <2>u, <2>w, <1>a DEF KubeTypes, KubeObject
    <3>3. svc' \in KubeObject
      BY <2>u, <2>w, <1>a DEF KubeTypes, KubeObject
    <3>4. pods' \in [Kube!Pods -> PodStates]
      BY <2>u, <2>w, <1>a DEF KubeTypes
    <3>5. serve' \in [at : ServePlaces, adopted : BOOLEAN, tries : Nat]
      BY <2>u, <2>w, <1>a DEF KubeTypes, EnsurePlaces, ServePlaces
    <3>6. poll' \in [at : PollPlaces, pod : Kube!Pods \union {0}, ready : BOOLEAN]
      BY <2>u, <2>w, <1>a DEF KubeTypes, PollPlaces
    <3>7. del' \in [at : DeletePlaces, found : BOOLEAN, early : BOOLEAN]
      BY <2>u, <2>w, <1>a DEF KubeTypes, DeletePlaces
    <3>8. faults' \in Nat
      BY <2>u, <2>w, <1>a DEF KubeTypes
    <3> QED
      BY <3>1, <3>2, <3>3, <3>4, <3>5, <3>6, <3>7, <3>8 DEF KubeTypes
  <2>2. PollsWhileServing'
    BY <2>u, <2>w, <1>a DEF KubeTypes, PollsWhileServing, Made, DeploymentFree, EnsurePlaces
  <2>3. StrictIsKept'
    BY <2>u, <2>w, <1>a
       DEF KubeTypes, StrictIsKept, Made, DeploymentFree, PollsWhileServing, EnsurePlaces
  <2>4. CleanupIsDone'
    BY <2>u, <2>w, <1>a
       DEF KubeTypes, CleanupIsDone, Made, DeploymentFree, PollsWhileServing, EnsurePlaces
  <2>5. DeleteIsDone'
    BY <2>u, <2>w, <1>a DEF KubeTypes, DeleteIsDone, Made, DeploymentFree, EnsurePlaces
  <2> QED
    BY <2>1, <2>2, <2>3, <2>4, <2>5 DEF KubeInv
<1>25. CASE Kube!FailSendsCode
  <2>1. KubeTypes'
    BY <1>25, <1>a
       DEF Kube!FailSendsCode, Kube!Polling, Kube!clusterVars, KubeTypes, EnsurePlaces,
           ServePlaces, PollPlaces, DeletePlaces, KubeObject, PodStates
  <2>2. PollsWhileServing'
    BY <1>25, <1>a
       DEF Kube!FailSendsCode, Kube!Polling, Kube!clusterVars, KubeTypes, PollsWhileServing,
           Made, DeploymentFree, EnsurePlaces
  <2>3. StrictIsKept'
    BY <1>25, <1>a
       DEF Kube!FailSendsCode, Kube!Polling, Kube!clusterVars, KubeTypes, StrictIsKept, Made,
           DeploymentFree, PollsWhileServing, EnsurePlaces
  <2>4. CleanupIsDone'
    BY <1>25, <1>a
       DEF Kube!FailSendsCode, Kube!Polling, Kube!clusterVars, KubeTypes, CleanupIsDone, Made,
           DeploymentFree, PollsWhileServing, EnsurePlaces
  <2>5. DeleteIsDone'
    BY <1>25, <1>a
       DEF Kube!FailSendsCode, Kube!Polling, Kube!clusterVars, KubeTypes, DeleteIsDone, Made,
           DeploymentFree, EnsurePlaces
  <2> QED
    BY <2>1, <2>2, <2>3, <2>4, <2>5 DEF KubeInv
<1>26. CASE Kube!Signal
  <2>1. KubeTypes'
    BY <1>26, <1>a
       DEF Kube!Signal, Kube!clusterVars, KubeTypes, EnsurePlaces, ServePlaces, PollPlaces,
           DeletePlaces, KubeObject, PodStates
  <2>2. PollsWhileServing'
    BY <1>26, <1>a
       DEF Kube!Signal, Kube!clusterVars, KubeTypes, PollsWhileServing, Made, DeploymentFree,
           EnsurePlaces
  <2>3. StrictIsKept'
    BY <1>26, <1>a
       DEF Kube!Signal, Kube!clusterVars, KubeTypes, StrictIsKept, Made, DeploymentFree,
           PollsWhileServing, EnsurePlaces
  <2>4. CleanupIsDone'
    BY <1>26, <1>a
       DEF Kube!Signal, Kube!clusterVars, KubeTypes, CleanupIsDone, Made, DeploymentFree,
           PollsWhileServing, EnsurePlaces
  <2>5. DeleteIsDone'
    BY <1>26, <1>a
       DEF Kube!Signal, Kube!clusterVars, KubeTypes, DeleteIsDone, Made, DeploymentFree,
           EnsurePlaces
  <2> QED
    BY <2>1, <2>2, <2>3, <2>4, <2>5 DEF KubeInv
<1>27. ASSUME NEW reason \in {"signal", "stop", "crash"}, Kube!Selects(reason) PROVE KubeInv'
  <2>1. KubeTypes'
    BY <1>27, <1>a
       DEF Kube!Selects, Kube!ServeAt, Kube!clusterVars, KubeTypes, EnsurePlaces, ServePlaces,
           PollPlaces, DeletePlaces, KubeObject, PodStates
  <2>2. PollsWhileServing'
    BY <1>27, <1>a
       DEF Kube!Selects, Kube!ServeAt, Kube!clusterVars, KubeTypes, PollsWhileServing, Made,
           DeploymentFree, EnsurePlaces
  <2>3. StrictIsKept'
    BY <1>27, <1>a
       DEF Kube!Selects, Kube!ServeAt, Kube!clusterVars, KubeTypes, StrictIsKept, Made,
           DeploymentFree, PollsWhileServing, EnsurePlaces
  <2>4. CleanupIsDone'
    BY <1>27, <1>a
       DEF Kube!Selects, Kube!ServeAt, Kube!clusterVars, KubeTypes, CleanupIsDone, Made,
           DeploymentFree, PollsWhileServing, EnsurePlaces
  <2>5. DeleteIsDone'
    BY <1>27, <1>a
       DEF Kube!Selects, Kube!ServeAt, Kube!clusterVars, KubeTypes, DeleteIsDone, Made,
           DeploymentFree, EnsurePlaces
  <2> QED
    BY <2>1, <2>2, <2>3, <2>4, <2>5 DEF KubeInv
<1>28. CASE Kube!ServeReturns
  <2>1. KubeTypes'
    BY <1>28, <1>a
       DEF Kube!ServeReturns, Kube!ServeAt, Kube!clusterVars, KubeTypes, EnsurePlaces,
           ServePlaces, PollPlaces, DeletePlaces, KubeObject, PodStates
  <2>2. PollsWhileServing'
    BY <1>28, <1>a
       DEF Kube!ServeReturns, Kube!ServeAt, Kube!clusterVars, KubeTypes, PollsWhileServing,
           Made, DeploymentFree, EnsurePlaces
  <2>3. StrictIsKept'
    BY <1>28, <1>a
       DEF Kube!ServeReturns, Kube!ServeAt, Kube!clusterVars, KubeTypes, StrictIsKept, Made,
           DeploymentFree, PollsWhileServing, EnsurePlaces
  <2>4. CleanupIsDone'
    BY <1>28, <1>a
       DEF Kube!ServeReturns, Kube!ServeAt, Kube!clusterVars, KubeTypes, CleanupIsDone, Made,
           DeploymentFree, PollsWhileServing, EnsurePlaces
  <2>5. DeleteIsDone'
    BY <1>28, <1>a
       DEF Kube!ServeReturns, Kube!ServeAt, Kube!clusterVars, KubeTypes, DeleteIsDone, Made,
           DeploymentFree, EnsurePlaces
  <2> QED
    BY <2>1, <2>2, <2>3, <2>4, <2>5 DEF KubeInv
<1>29. CASE Kube!DeleteBegins
  <2>u. /\ del.at = "none" /\ serve.at # "start"
        /\ UNCHANGED <<dep, svc, pods, strict, serve, poll, state, stopCh, crashCh, signalled, faults>>
    BY <1>29 DEF Kube!DeleteBegins, Kube!clusterVars, Kube!wrapperVars
  <2>v. \/ del' = [del EXCEPT !.at = "error"]
        \/ /\ dep.owner # "foreign"
           /\ del' = [at |-> IF dep.owner = "own" THEN "deldep" ELSE "getsvc", found |-> FALSE,
                      early |-> serve.at \in Kube!Ensuring]
    BY <1>29 DEF Kube!DeleteBegins, Kube!DeleteAt
  <2>e. (serve.at \in Kube!Ensuring) = TRUE \/ (serve.at \in Kube!Ensuring) = FALSE
    OBVIOUS
  <2>f. Kube!Ensuring = EnsurePlaces
    BY DEF Kube!Ensuring, EnsurePlaces
  <2>w. /\ del' \in [at : DeletePlaces, found : BOOLEAN, early : BOOLEAN]
        /\ del'.at \in {"error", "deldep", "getsvc"}
        /\ del'.at # "error" /\ ~del'.early => Made
        /\ del'.at = "getsvc" => DeploymentFree
    <3>1. CASE del' = [del EXCEPT !.at = "error"]
      BY <3>1, <1>a DEF KubeTypes, DeletePlaces
    <3>2. CASE /\ del' = [at |-> "deldep", found |-> FALSE, early |-> serve.at \in Kube!Ensuring]
      BY <3>2, <2>e, <2>f, <2>u DEF DeletePlaces, Made
    <3>3. CASE /\ del' = [at |-> "getsvc", found |-> FALSE, early |-> serve.at \in Kube!Ensuring]
               /\ dep.owner # "own"
      BY <3>3, <2>e, <2>f, <2>u DEF DeletePlaces, Made, DeploymentFree
    <3> QED
      BY <2>v, <3>1, <3>2, <3>3
  <2>1. KubeTypes'
    <3>1. strict' \in BOOLEAN /\ stopCh' \in BOOLEAN /\ crashCh' \in BOOLEAN
      BY <2>u, <2>w, <1>a DEF KubeTypes
    <3>2. dep' \in KubeObject
      BY <2>u, <2>w, <1>a DEF KubeTypes, KubeObject
    <3>3. svc' \in KubeObject
      BY <2>u, <2>w, <1>a DEF KubeTypes, KubeObject
    <3>4. pods' \in [Kube!Pods -> PodStates]
      BY <2>u, <2>w, <1>a DEF KubeTypes
    <3>5. serve' \in [at : ServePlaces, adopted : BOOLEAN, tries : Nat]
      BY <2>u, <2>w, <1>a DEF KubeTypes, EnsurePlaces, ServePlaces
    <3>6. poll' \in [at : PollPlaces, pod : Kube!Pods \union {0}, ready : BOOLEAN]
      BY <2>u, <2>w, <1>a DEF KubeTypes, PollPlaces
    <3>7. del' \in [at : DeletePlaces, found : BOOLEAN, early : BOOLEAN]
      BY <2>u, <2>w, <1>a DEF KubeTypes, DeletePlaces
    <3>8. faults' \in Nat
      BY <2>u, <2>w, <1>a DEF KubeTypes
    <3> QED
      BY <3>1, <3>2, <3>3, <3>4, <3>5, <3>6, <3>7, <3>8 DEF KubeTypes
  <2>2. PollsWhileServing'
    BY <2>u, <2>w, <1>a DEF KubeTypes, PollsWhileServing, Made, DeploymentFree, EnsurePlaces
  <2>3. StrictIsKept'
    BY <2>u, <2>w, <1>a
       DEF KubeTypes, StrictIsKept, Made, DeploymentFree, PollsWhileServing, EnsurePlaces
  <2>4. CleanupIsDone'
    BY <2>u, <2>w, <1>a
       DEF KubeTypes, CleanupIsDone, Made, DeploymentFree, PollsWhileServing, EnsurePlaces
  <2>5. DeleteIsDone'
    BY <2>u, <2>w, <1>a DEF KubeTypes, DeleteIsDone, Made, DeploymentFree, EnsurePlaces
  <2> QED
    BY <2>1, <2>2, <2>3, <2>4, <2>5 DEF KubeInv
<1>30. CASE Kube!DeleteDeletesDeployment
  <2>d. /\ DeploymentFree' /\ dep' \in KubeObject /\ svc' = svc
        /\ pods' \in [Kube!Pods -> PodStates]
        /\ (\A p \in Kube!Pods : pods[p] = "none") => \A p \in Kube!Pods : pods'[p] = "none"
    <3>1. Kube!DeleteDeployment
      BY <1>30 DEF Kube!DeleteDeletesDeployment
    <3> QED
      BY <3>1, <1>a, DeletingFrees DEF KubeTypes
  <2>1. KubeTypes'
    <3>1. strict' \in BOOLEAN /\ stopCh' \in BOOLEAN /\ crashCh' \in BOOLEAN
      BY <1>30, <1>a, <2>d DEF Kube!DeleteDeletesDeployment, Kube!wrapperVars, KubeTypes
    <3>2. dep' \in KubeObject
      BY <1>30, <1>a, <2>d
         DEF Kube!DeleteDeletesDeployment, Kube!wrapperVars, KubeTypes, KubeObject
    <3>3. svc' \in KubeObject
      BY <1>30, <1>a, <2>d
         DEF Kube!DeleteDeletesDeployment, Kube!wrapperVars, KubeTypes, KubeObject
    <3>4. pods' \in [Kube!Pods -> PodStates]
      BY <1>30, <1>a, <2>d DEF Kube!DeleteDeletesDeployment, Kube!wrapperVars, KubeTypes
    <3>5. serve' \in [at : ServePlaces, adopted : BOOLEAN, tries : Nat]
      BY <1>30, <1>a, <2>d
         DEF Kube!DeleteDeletesDeployment, Kube!wrapperVars, KubeTypes, EnsurePlaces,
             ServePlaces
    <3>6. poll' \in [at : PollPlaces, pod : Kube!Pods \union {0}, ready : BOOLEAN]
      BY <1>30, <1>a, <2>d
         DEF Kube!DeleteDeletesDeployment, Kube!wrapperVars, KubeTypes, PollPlaces
    <3>7. del' \in [at : DeletePlaces, found : BOOLEAN, early : BOOLEAN]
      BY <1>30, <1>a, <2>d
         DEF Kube!DeleteDeletesDeployment, Kube!wrapperVars, KubeTypes, DeletePlaces
    <3>8. faults' \in Nat
      BY <1>30, <1>a, <2>d DEF Kube!DeleteDeletesDeployment, Kube!wrapperVars, KubeTypes
    <3> QED
      BY <3>1, <3>2, <3>3, <3>4, <3>5, <3>6, <3>7, <3>8 DEF KubeTypes
  <2>2. PollsWhileServing'
    BY <1>30, <1>a, <2>d
       DEF Kube!DeleteDeletesDeployment, Kube!wrapperVars, KubeTypes, PollsWhileServing, Made,
           DeploymentFree, EnsurePlaces
  <2>3. StrictIsKept'
    BY <1>30, <1>a, <2>d
       DEF Kube!DeleteDeletesDeployment, Kube!wrapperVars, KubeTypes, StrictIsKept, Made,
           DeploymentFree, PollsWhileServing, EnsurePlaces
  <2>4. CleanupIsDone'
    BY <1>30, <1>a, <2>d
       DEF Kube!DeleteDeletesDeployment, Kube!wrapperVars, KubeTypes, CleanupIsDone, Made,
           DeploymentFree, PollsWhileServing, EnsurePlaces
  <2>5. DeleteIsDone'
    BY <1>30, <1>a, <2>d
       DEF Kube!DeleteDeletesDeployment, Kube!wrapperVars, KubeTypes, DeleteIsDone, Made,
           DeploymentFree, EnsurePlaces
  <2> QED
    BY <2>1, <2>2, <2>3, <2>4, <2>5 DEF KubeInv
<1>31. CASE Kube!DeleteGetsService
  <2>1. KubeTypes'
    BY <1>31, <1>a
       DEF Kube!DeleteGetsService, Kube!DeleteAt, Kube!clusterVars, Kube!wrapperVars,
           KubeTypes, EnsurePlaces, ServePlaces, PollPlaces, DeletePlaces, KubeObject,
           PodStates
  <2>2. PollsWhileServing'
    BY <1>31, <1>a
       DEF Kube!DeleteGetsService, Kube!DeleteAt, Kube!clusterVars, Kube!wrapperVars,
           KubeTypes, PollsWhileServing, Made, DeploymentFree, EnsurePlaces
  <2>3. StrictIsKept'
    BY <1>31, <1>a
       DEF Kube!DeleteGetsService, Kube!DeleteAt, Kube!clusterVars, Kube!wrapperVars,
           KubeTypes, StrictIsKept, Made, DeploymentFree, PollsWhileServing, EnsurePlaces
  <2>4. CleanupIsDone'
    BY <1>31, <1>a
       DEF Kube!DeleteGetsService, Kube!DeleteAt, Kube!clusterVars, Kube!wrapperVars,
           KubeTypes, CleanupIsDone, Made, DeploymentFree, PollsWhileServing, EnsurePlaces
  <2>5. DeleteIsDone'
    BY <1>31, <1>a
       DEF Kube!DeleteGetsService, Kube!DeleteAt, Kube!clusterVars, Kube!wrapperVars,
           KubeTypes, DeleteIsDone, Made, DeploymentFree, EnsurePlaces
  <2> QED
    BY <2>1, <2>2, <2>3, <2>4, <2>5 DEF KubeInv
<1>32. CASE Kube!DeleteDeletesService
  <2>1. KubeTypes'
    <3>1. strict' \in BOOLEAN /\ stopCh' \in BOOLEAN /\ crashCh' \in BOOLEAN
      BY <1>32, <1>a DEF Kube!DeleteDeletesService, Kube!Nothing, Kube!wrapperVars, KubeTypes
    <3>2. dep' \in KubeObject
      BY <1>32, <1>a
         DEF Kube!DeleteDeletesService, Kube!Nothing, Kube!wrapperVars, KubeTypes, KubeObject
    <3>3. svc' \in KubeObject
      BY <1>32, <1>a
         DEF Kube!DeleteDeletesService, Kube!Nothing, Kube!wrapperVars, KubeTypes, KubeObject
    <3>4. pods' \in [Kube!Pods -> PodStates]
      BY <1>32, <1>a DEF Kube!DeleteDeletesService, Kube!Nothing, Kube!wrapperVars, KubeTypes
    <3>5. serve' \in [at : ServePlaces, adopted : BOOLEAN, tries : Nat]
      BY <1>32, <1>a
         DEF Kube!DeleteDeletesService, Kube!Nothing, Kube!wrapperVars, KubeTypes,
             EnsurePlaces, ServePlaces
    <3>6. poll' \in [at : PollPlaces, pod : Kube!Pods \union {0}, ready : BOOLEAN]
      BY <1>32, <1>a
         DEF Kube!DeleteDeletesService, Kube!Nothing, Kube!wrapperVars, KubeTypes, PollPlaces
    <3>7. del' \in [at : DeletePlaces, found : BOOLEAN, early : BOOLEAN]
      BY <1>32, <1>a
         DEF Kube!DeleteDeletesService, Kube!Nothing, Kube!wrapperVars, KubeTypes, DeletePlaces
    <3>8. faults' \in Nat
      BY <1>32, <1>a DEF Kube!DeleteDeletesService, Kube!Nothing, Kube!wrapperVars, KubeTypes
    <3> QED
      BY <3>1, <3>2, <3>3, <3>4, <3>5, <3>6, <3>7, <3>8 DEF KubeTypes
  <2>2. PollsWhileServing'
    BY <1>32, <1>a
       DEF Kube!DeleteDeletesService, Kube!Nothing, Kube!wrapperVars, KubeTypes,
           PollsWhileServing, Made, DeploymentFree, EnsurePlaces
  <2>3. StrictIsKept'
    BY <1>32, <1>a
       DEF Kube!DeleteDeletesService, Kube!Nothing, Kube!wrapperVars, KubeTypes, StrictIsKept,
           Made, DeploymentFree, PollsWhileServing, EnsurePlaces
  <2>4. CleanupIsDone'
    BY <1>32, <1>a
       DEF Kube!DeleteDeletesService, Kube!Nothing, Kube!wrapperVars, KubeTypes, CleanupIsDone,
           Made, DeploymentFree, PollsWhileServing, EnsurePlaces
  <2>5. DeleteIsDone'
    BY <1>32, <1>a
       DEF Kube!DeleteDeletesService, Kube!Nothing, Kube!wrapperVars, KubeTypes, DeleteIsDone,
           Made, DeploymentFree, EnsurePlaces
  <2> QED
    BY <2>1, <2>2, <2>3, <2>4, <2>5 DEF KubeInv
<1>33. CASE Kube!DeleteWaits
  <2>1. KubeTypes'
    BY <1>33, <1>a
       DEF Kube!DeleteWaits, Kube!DeleteAt, Kube!Gone, Kube!clusterVars, Kube!wrapperVars,
           KubeTypes, EnsurePlaces, ServePlaces, PollPlaces, DeletePlaces, KubeObject,
           PodStates
  <2>2. PollsWhileServing'
    BY <1>33, <1>a
       DEF Kube!DeleteWaits, Kube!DeleteAt, Kube!Gone, Kube!clusterVars, Kube!wrapperVars,
           KubeTypes, PollsWhileServing, Made, DeploymentFree, EnsurePlaces
  <2>3. StrictIsKept'
    BY <1>33, <1>a
       DEF Kube!DeleteWaits, Kube!DeleteAt, Kube!Gone, Kube!clusterVars, Kube!wrapperVars,
           KubeTypes, StrictIsKept, Made, DeploymentFree, PollsWhileServing, EnsurePlaces
  <2>4. CleanupIsDone'
    BY <1>33, <1>a
       DEF Kube!DeleteWaits, Kube!DeleteAt, Kube!Gone, Kube!clusterVars, Kube!wrapperVars,
           KubeTypes, CleanupIsDone, Made, DeploymentFree, PollsWhileServing, EnsurePlaces
  <2>5. DeleteIsDone'
    BY <1>33, <1>a
       DEF Kube!DeleteWaits, Kube!DeleteAt, Kube!Gone, Kube!clusterVars, Kube!wrapperVars,
           KubeTypes, DeleteIsDone, Made, DeploymentFree, EnsurePlaces
  <2> QED
    BY <2>1, <2>2, <2>3, <2>4, <2>5 DEF KubeInv
<1>34. CASE Kube!DeleteFails
  <2>1. KubeTypes'
    BY <1>34, <1>a
       DEF Kube!DeleteFails, Kube!DeleteAt, Kube!Fault, Kube!clusterVars, Kube!wrapperVars,
           KubeTypes, EnsurePlaces, ServePlaces, PollPlaces, DeletePlaces, KubeObject,
           PodStates
  <2>2. PollsWhileServing'
    BY <1>34, <1>a
       DEF Kube!DeleteFails, Kube!DeleteAt, Kube!Fault, Kube!clusterVars, Kube!wrapperVars,
           KubeTypes, PollsWhileServing, Made, DeploymentFree, EnsurePlaces
  <2>3. StrictIsKept'
    BY <1>34, <1>a
       DEF Kube!DeleteFails, Kube!DeleteAt, Kube!Fault, Kube!clusterVars, Kube!wrapperVars,
           KubeTypes, StrictIsKept, Made, DeploymentFree, PollsWhileServing, EnsurePlaces
  <2>4. CleanupIsDone'
    BY <1>34, <1>a
       DEF Kube!DeleteFails, Kube!DeleteAt, Kube!Fault, Kube!clusterVars, Kube!wrapperVars,
           KubeTypes, CleanupIsDone, Made, DeploymentFree, PollsWhileServing, EnsurePlaces
  <2>5. DeleteIsDone'
    BY <1>34, <1>a
       DEF Kube!DeleteFails, Kube!DeleteAt, Kube!Fault, Kube!clusterVars, Kube!wrapperVars,
           KubeTypes, DeleteIsDone, Made, DeploymentFree, EnsurePlaces
  <2> QED
    BY <2>1, <2>2, <2>3, <2>4, <2>5 DEF KubeInv
<1> QED
  BY <1>0, <1>1, <1>2, <1>3, <1>4, <1>5, <1>6, <1>7, <1>8, <1>9, <1>10, <1>11, <1>12, <1>13,
     <1>14, <1>15, <1>16, <1>17, <1>18, <1>19, <1>20, <1>21, <1>22, <1>23, <1>24, <1>25, <1>26,
     <1>27, <1>28, <1>29, <1>30, <1>31, <1>32, <1>33, <1>34
     DEF Kube!Next, Kube!Cleanup

\* Whatever serve, its poll, "delete", the cluster and others do between two calls of
\* one another: what serve put there stays, a crash and a deletion leave nothing.
THEOREM KubeSound == Kube!Spec => [](Kube!BackendIsOwn)
<1>1. KubeInv => Kube!BackendIsOwn
  BY KubeImplies
<1> QED
  BY KubeInitial, KubeStep, <1>1, PTL DEF Kube!Spec

-----------------------------------------------------------------------------
(* Side by side.                                                           *)

\* Whatever part runs, each of these parts takes its own steps or none.
LEMMA SideBySide ==
  PartsSpec => /\ Perf!Spec /\ Peer!Spec /\ Load!Spec /\ Cap!Spec /\ Wol!Spec /\ Tc!Spec /\ Log!Spec
               /\ Kube!Spec
<1>1. [PartsNext]_partsVars => [Perf!Next]_(Perf!monVars)
  BY DEF PartsNext, partsVars, monitorVars, Perf!monVars
<1>2. [PartsNext]_partsVars => [Peer!Next]_(Peer!peerVars)
  BY DEF PartsNext, partsVars, peersVars, Peer!peerVars
<1>3. [PartsNext]_partsVars => [Load!Next]_(Load!loadVars)
  BY DEF PartsNext, partsVars, loadingVars, Load!loadVars
<1>4. [PartsNext]_partsVars => [Cap!Next]_(Cap!capVars)
  BY DEF PartsNext, partsVars, capabilitiesVars, Cap!capVars
<1>5. [PartsNext]_partsVars => [Wol!Next]_(Wol!wolVars)
  BY DEF PartsNext, partsVars, wolVars, Wol!wolVars
<1>6. [PartsNext]_partsVars => [Tc!Next]_(Tc!tcVars)
  BY DEF PartsNext, partsVars, tailcatVars, Tc!tcVars
<1>7. [PartsNext]_partsVars => [Log!Next]_(Log!logVars)
  BY DEF PartsNext, partsVars, logsVars, Log!logVars
<1>8. [PartsNext]_partsVars => [Kube!Next]_(Kube!kubeVars)
  BY DEF PartsNext, partsVars, kubeVars, Kube!kubeVars
<1>9. PartsInit =>
         /\ Perf!Init /\ Peer!Init /\ Load!Init /\ Cap!Init /\ Wol!Init /\ Tc!Init /\ Log!Init
         /\ Kube!Init
  BY DEF PartsInit
<1> QED
  BY <1>1, <1>2, <1>3, <1>4, <1>5, <1>6, <1>7, <1>8, <1>9, PTL
  DEF PartsSpec, Perf!Spec, Peer!Spec, Load!Spec, Cap!Spec, Wol!Spec, Tc!Spec, Log!Spec, Kube!Spec

\* However Start, Stop and UpdateConfig meet the goroutines that sample, a monitor
\* that is stopped samples no more and Current shows the newest samples (monitor.go).
THEOREM SamplingStaysSound == PartsSpec => []SamplingIsSound
<1>1. Perf!SamplingFollowsRuns /\ Perf!RingHasNewest => SamplingIsSound
  BY DEF SamplingIsSound
<1> QED
  BY <1>1, PerfSound, SideBySide, PTL

\* A graceful shutdown of the peer router cuts off nobody it waited for; a client
\* that peers share is closed once, and all are when the shutdown is over (peer.go).
THEOREM PeerShutdownStaysClean == PartsSpec => []PeerShutdownClean
<1>1. Peer!PeerShutdownClean => PeerShutdownClean
  BY DEF PeerShutdownClean
<1> QED
  BY <1>1, PeerSound, SideBySide, PTL

\* Whichever of the loading stream, the caller and the swap ends first: no write behind
\* the handler's back, an error is told once, both logs have the status that was sent
\* (loading.go, base.go).
THEOREM ResponseStaysSound == PartsSpec => []ResponseIsSound
<1>1. Load!ResponseIsSound => ResponseIsSound
  BY DEF ResponseIsSound
<1> QED
  BY <1>1, LoadSound, SideBySide, PTL

\* Once no probe is under way the stored row is what the last probe found, however
\* lookups and refreshes overlapped (capabilities/service.go).
THEOREM StoreKeepsLastProbe == PartsSpec => []StoreHasLastProbe
<1>1. Cap!StoreHasLastProbe => StoreHasLastProbe
  BY DEF StoreHasLastProbe
<1> QED
  BY <1>1, CapSound, SideBySide, PTL

\* The Wake-on-LAN proxy: whoever comes first, status, stream and wake agree, and no
\* packet goes out without the consent it asks for (wol-proxy.go).
THEOREM WakeStaysSound == PartsSpec => []WakeIsSound
<1>1. Wol!WakeIsSound => WakeIsSound
  BY DEF WakeIsSound
<1> QED
  BY <1>1, WolSound, SideBySide, PTL

\* However dials, replacements and Close overlap: each dial is settled once, no client
\* is closed under a dial or connection before Close, and Close leaves none open
\* (transport.go).
THEOREM ClientsStayRetired == PartsSpec => []ClientsAreRetired
<1>1. Tc!ClientsAreRetired => ClientsAreRetired
  BY DEF ClientsAreRetired
<1> QED
  BY <1>1, TcSound, SideBySide, PTL

\* The log's history is the last bytes written; each byte that was not broadcast is
\* reported once, and a client of the API's stream, which subscribes before it reads
\* the history, misses none but those and what its own buffer refused (logging.go,
\* apigroup.go).
THEOREM LogsStayComplete == PartsSpec => []StreamKeepsLogs
<1>1. Log!HistoryIsSuffix /\ Log!LogsAccounted => StreamKeepsLogs
  BY DEF StreamKeepsLogs
<1> QED
  BY <1>1, LogSound, SideBySide, PTL

\* What a command serves stays its own, through crashes and deletions (serve.go,
\* manage.go).
THEOREM BackendStaysOwn == PartsSpec => []BackendIsOwn
<1>1. Kube!BackendIsOwn => BackendIsOwn
  BY DEF BackendIsOwn
<1> QED
  BY <1>1, KubeSound, SideBySide, PTL
=============================================================================
