------------------------------ MODULE MCPMwCAS ------------------------------
(* Instances of PMwCAS, without recycling and crashes, for TLC. *)
EXTENDS PMwCAS, MCScripts
=============================================================================
