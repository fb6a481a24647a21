------------------------------- MODULE MCHtif -------------------------------
(* Instances of Htif for TLC: the configurations give every constant.      *)
EXTENDS Htif
=============================================================================
