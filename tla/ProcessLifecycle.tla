-------------------------- MODULE ProcessLifecycle --------------------------
(***************************************************************************)
(* What an upstream process promises to the router (internal/process/       *)
(* process.go, interface Process), as the router sees it through State():   *)
(* the states follow one another in a fixed order, and a process that says  *)
(* it is stopped has no upstream left, so its memory is free.               *)
(***************************************************************************)

VARIABLES
    state,  \* Status.State
    up      \* an upstream child exists

States == {"stopped", "starting", "ready", "stopping", "shutdown"}

Init == state = "stopped" /\ up = FALSE

Begin == state = "stopped" /\ state' = "starting" /\ up' \in BOOLEAN

\* The upstream is spawned only by a start, which a shutdown may overtake, and
\* may end by itself.
Spawn == state \in {"starting", "shutdown"} /\ up' = TRUE /\ UNCHANGED state
Die == up' = FALSE /\ UNCHANGED state

Serve == state = "starting" /\ state' = "ready" /\ UNCHANGED up
BeginStop == state = "ready" /\ state' = "stopping" /\ UNCHANGED up

\* A failed or aborted start, an exit, the end of a stop.
Settle == state \in {"starting", "ready", "stopping"} /\ state' = "stopped" /\ up' = FALSE

\* Final: the context of the process is cancelled; the upstream may still be
\* there, and is then torn down.
Close == state' = "shutdown" /\ up' \in {FALSE, up}

Next == Begin \/ Spawn \/ Die \/ Serve \/ BeginStop \/ Settle \/ Close

Spec == Init /\ [][Next]_<<state, up>>
=============================================================================
