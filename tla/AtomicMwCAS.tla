---------------------------- MODULE AtomicMwCAS ----------------------------
(***************************************************************************)
(* What README.md promises: "atomically changing multiple 8-byte words".   *)
(* A pending operation succeeds in one step that finds every target word   *)
(* at its old value and sets it to its new one, or fails without a trace.  *)
(* It may fail although the values match: a dirty flag on a word that is   *)
(* being persisted makes CondCAS miss the old value.                       *)
(***************************************************************************)
CONSTANTS Addresses, Ops, target, InitValue

VARIABLES value, outcome

Init ==
  /\ value = [a \in Addresses |-> InitValue[a]]
  /\ outcome = [d \in Ops |-> "pending"]

Entry(d) == {target[d][i] : i \in DOMAIN target[d]}

Succeed(d) ==
  /\ outcome[d] = "pending"
  /\ \A e \in Entry(d) : value[e.address] = e.old
  /\ outcome' = [outcome EXCEPT ![d] = "Succeeded"]
  /\ value' = [a \in Addresses |->
       IF \E e \in Entry(d) : e.address = a
       THEN (CHOOSE e \in Entry(d) : e.address = a).new
       ELSE value[a]]

Fail(d) ==
  /\ outcome[d] = "pending"
  /\ outcome' = [outcome EXCEPT ![d] = "Failed"]
  /\ UNCHANGED value

Next == \E d \in Ops : Succeed(d) \/ Fail(d)

Spec == Init /\ [][Next]_<<value, outcome>>
=============================================================================
