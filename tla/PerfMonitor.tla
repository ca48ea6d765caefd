----------------------------- MODULE PerfMonitor -----------------------------
(***************************************************************************)
(* The performance monitor (internal/perf/monitor.go) with the ring buffer *)
(* it keeps samples in (internal/ring/buffer.go): Start, Stop and          *)
(* UpdateConfig against the goroutines that sample.  A sample is a number, *)
(* a new one each time; a run of the monitor, from Start to Stop, is named *)
(* by a number as well.  Who reads the samples is left out.                *)
(***************************************************************************)
EXTENDS Naturals, Sequences, FiniteSets

CONSTANTS MaxRuns,     \* calls of Start that start something (bound)
          MaxSamples,  \* samples taken (bound)
          Configs      \* configurations: the ring capacity, and disabled

Runs == 1..MaxRuns
None == 0

VARIABLES monConf, monLive,  \* conf; stopCancel # nil
          monRun,      \* the run whose context the field stopCtx holds
          monUpdate,   \* where UpdateConfig is, and the configuration it brings
          stopped,     \* runs whose context is cancelled
          sampler,     \* the goroutine of each run, and the context it waits on
          collector,   \* the GPU goroutine of each run; its context is the run's
          ring,        \* sysRing
          pushed,      \* what was pushed since the ring was made (history)
          samples      \* samples taken

monVars == <<monConf, monLive, monRun, monUpdate, stopped, sampler, collector, ring, pushed,
             samples>>
goVars == <<sampler, collector>>
ringVars == <<ring, pushed, samples>>

\* ring.NewBuffer, Push and Slice.
NewBuffer(capacity) ==
  [buf |-> [i \in 0..((IF capacity < 1 THEN 1 ELSE capacity) - 1) |-> None],
   cap |-> IF capacity < 1 THEN 1 ELSE capacity, head |-> 0, size |-> 0]

Push(r, v) ==
  IF r.size < r.cap
    THEN [r EXCEPT !.buf[(r.head + r.size) % r.cap] = v, !.size = r.size + 1]
    ELSE [r EXCEPT !.buf[r.head] = v, !.head = (r.head + 1) % r.cap]

Slice(r) == [i \in 1..r.size |-> r.buf[(r.head + i - 1) % r.cap]]

Init ==
  /\ monConf \in Configs /\ monLive = FALSE /\ monRun = None
  /\ monUpdate = [at |-> "none", conf |-> monConf]
  /\ stopped = {}
  /\ sampler = [r \in Runs |-> [at |-> "none", ctx |-> None]]
  /\ collector = [r \in Runs |-> "none"]
  /\ ring = NewBuffer(monConf.capacity) /\ pushed = <<>> /\ samples = 0

\* Start, and Stop: each one critical section.
StartRun ==
  IF monLive
    THEN UNCHANGED <<monLive, monRun, goVars>>
    ELSE \E r \in Runs :
           /\ sampler[r].at = "none" /\ \A p \in 1..(r - 1) : sampler[p].at # "none"
           /\ monLive' = TRUE
           /\ monRun' = r
           /\ sampler' = [sampler EXCEPT ![r].at = "loop"]
           /\ collector' = [collector EXCEPT ![r] = "start"]

\* Mutant: Stop forgets the cancel.
StopForgets == monLive' = FALSE /\ UNCHANGED stopped
StopRun == monLive' = FALSE /\ stopped' = IF monLive THEN stopped \union {monRun} ELSE stopped

Start ==
  /\ monUpdate.at = "none"
  /\ StartRun
  /\ UNCHANGED <<monConf, monUpdate, stopped, ringVars>>

\* The main program stops it, also in the middle of a reload.
Stop ==
  /\ StopRun
  /\ UNCHANGED <<monConf, monRun, monUpdate, goVars, ringVars>>

UpdateConfig(conf) ==
  /\ monUpdate.at = "none"
  /\ conf # monConf
  /\ monUpdate' = [at |-> "stop", conf |-> conf]
  /\ UNCHANGED <<monConf, monLive, monRun, stopped, goVars, ringVars>>

UpdateStops ==
  /\ monUpdate.at = "stop"
  /\ StopRun
  /\ monUpdate' = [monUpdate EXCEPT !.at = "set"]
  /\ UNCHANGED <<monConf, monRun, goVars, ringVars>>

UpdateSets ==
  /\ monUpdate.at = "set"
  /\ monConf' = monUpdate.conf
  /\ ring' = NewBuffer(monUpdate.conf.capacity) /\ pushed' = <<>>
  /\ monUpdate' = [monUpdate EXCEPT !.at = IF monUpdate.conf.disabled THEN "none" ELSE "start"]
  /\ UNCHANGED <<monLive, monRun, stopped, goVars, samples>>

UpdateStarts ==
  /\ monUpdate.at = "start"
  /\ StartRun
  /\ monUpdate' = [monUpdate EXCEPT !.at = "none"]
  /\ UNCHANGED <<monConf, stopped, ringVars>>

-----------------------------------------------------------------------------
\* The sampler's loop reads the field stopCtx on every round, without the lock.
SamplerWaits(r) ==
  /\ sampler[r].at = "loop"
  /\ sampler' = [sampler EXCEPT ![r] = [at |-> "select", ctx |-> monRun]]
  /\ UNCHANGED <<monConf, monLive, monRun, monUpdate, stopped, collector, ringVars>>

SamplerTicks(r) ==
  /\ sampler[r].at = "select"
  /\ samples < MaxSamples
  /\ \E outcome \in {"push", "loop"} :   \* read, or could not be read
       sampler' = [sampler EXCEPT ![r].at = outcome]
  /\ UNCHANGED <<monConf, monLive, monRun, monUpdate, stopped, collector, ringVars>>

SamplerPushes(r) ==
  /\ sampler[r].at = "push"
  /\ samples < MaxSamples
  /\ samples' = samples + 1
  /\ ring' = Push(ring, samples + 1)
  /\ pushed' = Append(pushed, samples + 1)
  /\ sampler' = [sampler EXCEPT ![r].at = "loop"]
  /\ UNCHANGED <<monConf, monLive, monRun, monUpdate, stopped, collector>>

SamplerEnds(r) ==
  /\ sampler[r].at = "select" /\ sampler[r].ctx \in stopped
  /\ sampler' = [sampler EXCEPT ![r].at = "over"]
  /\ UNCHANGED <<monConf, monLive, monRun, monUpdate, stopped, collector, ringVars>>

\* collectGpuStats: without a tool it gives up, a source that closes is opened
\* again after a delay, and the run's own context ends it.
CollectorSteps(r) ==
  /\ \/ collector[r] = "start" /\ collector' \in {[collector EXCEPT ![r] = c] : c \in {"forward", "over"}}
     \/ collector[r] = "forward" /\ collector' =
          [collector EXCEPT ![r] = IF r \in stopped THEN "over" ELSE "wait"]
     \/ collector[r] = "wait" /\ collector' =
          [collector EXCEPT ![r] = IF r \in stopped THEN "over" ELSE "forward"]
  /\ UNCHANGED <<monConf, monLive, monRun, monUpdate, stopped, sampler, ringVars>>

Next ==
  \/ Start \/ Stop \/ UpdateStops \/ UpdateSets \/ UpdateStarts
  \/ \E conf \in Configs : UpdateConfig(conf)
  \/ \E r \in Runs :
       \/ SamplerWaits(r) \/ SamplerTicks(r) \/ SamplerPushes(r) \/ SamplerEnds(r)
       \/ CollectorSteps(r)

Spec == Init /\ [][Next]_monVars

-----------------------------------------------------------------------------
\* What Current shows is the newest samples since the configuration was set, in
\* the order they were taken, as many as the ring has room for.
RingHasNewest ==
  LET n == IF Len(pushed) < ring.cap THEN Len(pushed) ELSE ring.cap
  IN Slice(ring) = SubSeq(pushed, Len(pushed) - n + 1, Len(pushed))

\* A monitor that is stopped samples no more: whichever context a sampler waits
\* on or will read next is cancelled, and so is each collector's.
StopReachesAll ==
  ~monLive =>
    /\ monRun = None \/ monRun \in stopped
    /\ \A r \in Runs : sampler[r].at = "select" => sampler[r].ctx \in stopped
    /\ \A r \in Runs : collector[r] \in {"start", "forward", "wait"} => r \in stopped

\* At any time at most one collector is not on its way out.
OneCollector ==
  Cardinality({r \in Runs : collector[r] \in {"start", "forward", "wait"} /\ r \notin stopped}) <= 1

SamplingFollowsRuns == StopReachesAll /\ OneCollector
=============================================================================
