----------------------------- MODULE MCAppWait -----------------------------
(***************************************************************************)
(* The instances of AppWait that TLC checks.                               *)
(***************************************************************************)
EXTENDS AppWait
=============================================================================
