------------------------------ MODULE MCLoader ------------------------------
(* The instances of Loader that TLC checks.                                *)
EXTENDS Loader
=============================================================================
