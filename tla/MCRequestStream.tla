---------------------------- MODULE MCRequestStream ----------------------------
(***************************************************************************)
(* RequestStream for TLC.                                                  *)
(***************************************************************************)
EXTENDS RequestStream, TLC
=============================================================================
