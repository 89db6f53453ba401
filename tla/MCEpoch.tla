------------------------------ MODULE MCEpoch ------------------------------
(* Instances of EpochReclaim for TLC. *)
EXTENDS EpochReclaim, TLC

ThreadSymmetry == Permutations(Threads)
=============================================================================
