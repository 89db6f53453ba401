------------------------------ MODULE MCSystem ------------------------------
(* Instances of PMwCASSystem for TLC. *)
EXTENDS PMwCASSystem, MCScripts
=============================================================================
