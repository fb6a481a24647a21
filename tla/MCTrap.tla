------------------------------- MODULE MCTrap -------------------------------
(* Instances of Trap for TLC: the configurations give every constant.      *)
EXTENDS Trap
=============================================================================
