-------------------------- MODULE MCProcessCommand --------------------------
(***************************************************************************)
(* Instances of ProcessCommand for TLC.                                     *)
(***************************************************************************)
EXTENDS ProcessCommand, TLC

CONSTANTS run, ensure1, wait1, stop1, q1

\* One caller of each kind: two of them start the process, so it can be started
\* again after a stop, an exit or a failed start.
OneOfEach == (run :> "Run") @@ (ensure1 :> "EnsureReady")
          @@ (wait1 :> "WaitReady") @@ (stop1 :> "Stop")
MCOp == [c \in Callers |-> OneOfEach[c]]
=============================================================================
