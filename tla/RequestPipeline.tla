--------------------------- MODULE RequestPipeline ---------------------------
(***************************************************************************)
(* From a request to the router that serves it: the chain of middlewares   *)
(* of an inference route (routes in internal/server/server.go) as far as   *)
(* it keeps state.  The global limit (concurrency.go), the active profile  *)
(* (profiles.go, SetActiveProfile), the selectors with their reservations  *)
(* (selector.go), and the choice between the local and the peer router     *)
(* (localPeerHandler).  The routers themselves are modules of their own.   *)
(***************************************************************************)
EXTENDS Naturals, Sequences, FiniteSets, FiniteSetsExt

CONSTANTS Calls,        \* requests, each with the name it asks for
          WebSockets,   \* those that are upgrades
          Ignoring,     \* local models with compat.ignoreWebsockets
          Limit,        \* globalConcurrencyLimit, 0 for none
          Pins,         \* per profile, what it pins; "" pins nothing
          FirstProfile, \* hooks.on_startup.profile
          Selectors,    \* per id, its strategy and its targets
          Spillover,    \* settings.spillover
          LocalModel,   \* names and aliases, with the local model of each
          PeerModel,    \* names of peers' models, with the full name of each
          RoundRobin    \* a multiple of the number of targets (bound of rr)

VARIABLES profile,      \* activeProfile
          slots,        \* the semaphore
          reserved,     \* inflight, per selector and model
          rr,           \* per selector
          running,      \* the states of the local processes
          call          \* per request: where it is, its name, what it holds,
                        \* RunningModels as it read it, and if its choice was fair

pipeVars == <<profile, slots, reserved, rr, running, call>>
sharedVars == <<profile, slots, reserved, rr, running>>

LocalModels == {LocalModel[n] : n \in DOMAIN LocalModel}
Spilling == {s \in DOMAIN Selectors : Selectors[s].strategy = "spillover"}
IsLocal(target) == target \in DOMAIN LocalModel
ModelOf(target) == IF IsLocal(target) THEN LocalModel[target] ELSE PeerModel[target]
Models == {ModelOf(n) : n \in DOMAIN LocalModel \union DOMAIN PeerModel}
NoCall == [at |-> "none", name |-> "", holds |-> "", target |-> "", seen |-> <<>>, fair |-> TRUE]

Init ==
  /\ profile = FirstProfile
  /\ slots = 0
  /\ reserved = [s \in Spilling |-> [m \in Models |-> 0]]
  /\ rr = [s \in Spilling |-> 0]
  /\ running = [m \in LocalModels |-> "stopped"]
  /\ call = [q \in DOMAIN Calls |-> NoCall]

\* What the processes do meanwhile.
StateChanges(m) ==
  /\ running' = [running EXCEPT ![m] = CASE running[m] = "stopped"  -> "starting"
                                         [] running[m] = "starting" -> "ready"
                                         [] running[m] = "ready"    -> "stopping"
                                         [] OTHER                   -> "stopped"]
  /\ UNCHANGED <<profile, slots, reserved, rr, call>>

\* SetActiveProfile, in one critical section.
SetActiveProfile(p) ==
  /\ p # profile
  /\ profile' = p
  /\ UNCHANGED <<slots, reserved, rr, running, call>>

-----------------------------------------------------------------------------
\* release: the first target of that name gives back, if it has any.
\* Mutant: the model's count is forgotten.
ReleasedAll(s, target) == [reserved EXCEPT ![s][ModelOf(target)] = 0]
Released(s, target) ==
  IF reserved[s][ModelOf(target)] > 0
    THEN [reserved EXCEPT ![s][ModelOf(target)] = @ - 1] ELSE reserved

\* The handler returns through its defers: the reservation, then the slot.
Returns(q) ==
  /\ call' = [call EXCEPT ![q] = [NoCall EXCEPT !.at = "over"]]
  /\ reserved' = IF call[q].holds = "" THEN reserved ELSE Released(call[q].holds, call[q].target)
  /\ slots' = IF Limit = 0 THEN slots ELSE slots - 1
  /\ UNCHANGED <<profile, rr, running>>

\* TryAcquire: no slot, no waiting.
Enter(q) ==
  /\ call[q].at = "none"
  /\ IF Limit = 0 \/ slots < Limit
       THEN /\ slots' = IF Limit = 0 THEN slots ELSE slots + 1
            /\ call' = [call EXCEPT ![q].at = "profile", ![q].name = Calls[q]]
       ELSE call' = [call EXCEPT ![q].at = "over"] /\ UNCHANGED slots
  /\ UNCHANGED <<profile, reserved, rr, running>>

\* The active profile is read once.
ApplyProfile(q) ==
  /\ call[q].at = "profile"
  /\ LET pins == Pins[profile]
     IN \/ /\ call' = [call EXCEPT ![q].at = "select",
                        ![q].name = IF @ \in DOMAIN pins THEN pins[@] ELSE @]
           /\ UNCHANGED sharedVars
        \/ call[q].name \in DOMAIN pins /\ Returns(q)   \* it cannot be rewritten

\* The first target that is ready, or else starting, or else the first.
Warm(targets) ==
  LET In(state) == {i \in DOMAIN targets :
                      IsLocal(targets[i]) /\ running[LocalModel[targets[i]]] = state}
  IN targets[Min(IF In("ready") # {} THEN In("ready")
                 ELSE IF In("starting") # {} THEN In("starting") ELSE DOMAIN targets)]

\* strategyPin and strategyWarm choose at once; for strategySpillover the
\* states are read here, before its lock is taken.
Select(q) ==
  LET name == call[q].name
      sel == Selectors[name]
  IN /\ call[q].at = "select"
     /\ CASE name \notin DOMAIN Selectors -> call' = [call EXCEPT ![q].at = "dispatch"]
          [] name \in Spilling ->
               call' = [call EXCEPT ![q].at = "spill", ![q].seen = running]
          [] OTHER ->
               call' = [call EXCEPT ![q].at = "rename", ![q].target =
                          IF sel.strategy = "pin" THEN sel.targets[1] ELSE Warm(sel.targets)]
     /\ UNCHANGED sharedVars

\* strategySpillover, under the selector's lock.
Stopping(q, t) == IsLocal(t) /\ call[q].seen[LocalModel[t]] \in {"stopping", "shutdown"}
Up(q, t) == IsLocal(t) /\ call[q].seen[LocalModel[t]] \in {"ready", "starting"}
Load(s, t) == reserved[s][ModelOf(t)]

\* The positions it takes turns among: of the fewest requests among those in use,
\* or the first that nobody uses.
BestTargets(q, s) ==
  LET targets == Selectors[s].targets
      usable == {i \in DOMAIN targets : ~Stopping(q, targets[i])}
      active == {i \in usable : Up(q, targets[i]) \/ Load(s, targets[i]) > 0}
      cold == usable \ active
      minimum == Min({Load(s, targets[i]) : i \in active})
  IN IF active = {} \/ (minimum >= Spillover /\ cold # {})
       THEN IF cold = {} THEN {} ELSE {Min(cold)}
       ELSE {i \in active : Load(s, targets[i]) = minimum}

\* tied[n], from 0
Nth(positions, n) == CHOOSE i \in positions : Cardinality({j \in positions : j < i}) = n

\* The strategy as it is meant: a target nobody uses is started only when each
\* one in use has as many requests as settings.spillover says; else the request
\* goes where the fewest are.
FairChoice(q, s, t) ==
  \A o \in {Selectors[s].targets[i] : i \in DOMAIN Selectors[s].targets} :
    (~Stopping(q, o) /\ ModelOf(o) # ModelOf(t) /\ (Up(q, o) \/ Load(s, o) > 0)) =>
      IF Up(q, t) \/ Load(s, t) > 0 THEN Load(s, t) <= Load(s, o)
                                    ELSE Load(s, o) >= Spillover

Spill(q) ==
  LET s == call[q].name
      choices == BestTargets(q, s)
      inUse(t) == Up(q, t) \/ Load(s, t) > 0
      turns == \E i \in choices : inUse(Selectors[s].targets[i])
      turn == IF turns THEN rr[s] % Cardinality(choices) ELSE 0
      target == Selectors[s].targets[Nth(choices, turn)]
  IN /\ call[q].at = "spill"
     /\ IF choices = {} THEN Returns(q)
        ELSE /\ reserved' = [reserved EXCEPT ![s][ModelOf(target)] = @ + 1]
             /\ rr' = IF turns THEN [rr EXCEPT ![s] = (@ + 1) % RoundRobin] ELSE rr
             /\ call' = [call EXCEPT ![q] = [@ EXCEPT !.at = "rename", !.holds = s, !.seen = <<>>,
                                               !.target = target, !.fair = FairChoice(q, s, target)]]
             /\ UNCHANGED <<profile, slots, running>>

\* ReplaceRequestModel; an ignored upgrade gives its reservation back at once.
Rename(q) ==
  LET target == call[q].target
      ignored == /\ call[q].holds # "" /\ q \in WebSockets
                 /\ IsLocal(target) /\ LocalModel[target] \in Ignoring
  IN /\ call[q].at = "rename"
     /\ \/ Returns(q)                                   \* it cannot be rewritten
        \/ /\ call' = [call EXCEPT ![q].at = "dispatch", ![q].name = target,
                                   ![q].holds = IF ignored THEN "" ELSE @]
           /\ reserved' = IF ignored THEN Released(call[q].holds, target) ELSE reserved
           /\ UNCHANGED <<profile, slots, rr, running>>

\* localPeerHandler, with the context, inflight, filter and metrics middlewares
\* before it, which may each end the request.
Dispatch(q) ==
  /\ call[q].at = "dispatch"
  /\ \/ /\ call[q].name \in DOMAIN LocalModel \union DOMAIN PeerModel
        /\ call' = [call EXCEPT ![q].at = IF IsLocal(call[q].name) THEN "local" ELSE "peer"]
        /\ UNCHANGED sharedVars
     \/ Returns(q)

Served(q) == call[q].at \in {"local", "peer"} /\ Returns(q)

Next ==
  \/ \E m \in LocalModels : StateChanges(m)
  \/ \E p \in DOMAIN Pins : SetActiveProfile(p)
  \/ \E q \in DOMAIN Calls :
       \/ Enter(q) \/ ApplyProfile(q) \/ Select(q) \/ Spill(q) \/ Rename(q)
       \/ Dispatch(q) \/ Served(q)

Spec == Init /\ [][Next]_pipeVars

-----------------------------------------------------------------------------
Inside == {q \in DOMAIN Calls : call[q].at \notin {"none", "over"}}

\* Each reservation belongs to one request that is still inside, and each slot
\* too: whatever way a request leaves, it gives back what it took, once.
NothingLeaks ==
  /\ Limit # 0 => slots = Cardinality(Inside) /\ slots <= Limit
  /\ \A s \in Spilling : \A m \in Models :
       reserved[s][m] = Cardinality({q \in Inside : call[q].holds = s /\ ModelOf(call[q].target) = m})

\* Requests that choose at the same time see each other's reservations, even
\* when the states of the processes they read are no longer true.
ChoicesAreFair == \A q \in Inside : call[q].fair

PipelineIsSound == NothingLeaks /\ ChoicesAreFair
=============================================================================
