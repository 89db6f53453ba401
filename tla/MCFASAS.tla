------------------------------ MODULE MCFASAS ------------------------------
(* Instances of FASASSystem for TLC. *)
EXTENDS FASASSystem

Fetch(new) == [op |-> "fasas", new |-> new]
DoubleCAS(old, new, pv) == [op |-> "dcas", old |-> old, new |-> new, pv |-> pv]
RecoverableCAS(old, new) == [op |-> "rcas", old |-> old, new |-> new]
ReadShared == [op |-> "read"]

(* Each operation can meet each other; the values of all differ. *)
MixedScript == << <<Fetch(2), DoubleCAS(2, 3, 7)>>,
                  <<ReadShared, Fetch(5), RecoverableCAS(2, 4)>> >>

Failures == [plain |-> 1, opt |-> 2]
=============================================================================
