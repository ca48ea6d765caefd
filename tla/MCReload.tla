------------------------------- MODULE MCReload -------------------------------
(***************************************************************************)
(* Reload for TLC.                                                         *)
(***************************************************************************)
EXTENDS Reload, TLC

MCStorePath == (0 :> "a") @@ (1 :> "b") @@ (2 :> "b")
=============================================================================
