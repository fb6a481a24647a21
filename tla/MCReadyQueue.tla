---------------------------- MODULE MCReadyQueue ---------------------------
(***************************************************************************)
(* The instance of ReadyQueue that TLC checks.                             *)
(***************************************************************************)
EXTENDS ReadyQueue
=============================================================================
