----------------------------- MODULE MCProcess -----------------------------
(***************************************************************************)
(* The instances of Process that TLC checks; the configurations give the   *)
(* constants their values.                                                 *)
(***************************************************************************)
EXTENDS Process
=============================================================================
