------------------------------ MODULE MCTomas -------------------------------
(* Model of the whole system for TLC: the constants are given their values  *)
(* in the .cfg files.                                                       *)
EXTENDS Tomas
=============================================================================
