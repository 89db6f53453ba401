---------------------------- MODULE AtomicFASAS ----------------------------
(***************************************************************************)
(* What the FASAS descriptors promise ("support both fetch store store and *)
(* dcas"): one step replaces the shared word and stores into the caller's  *)
(* private word.  An operation with an expected value may fail and leaves  *)
(* both alone; a read returns the shared word.                             *)
(***************************************************************************)
CONSTANTS Threads, Ops(_), Stored(_, _)

VARIABLES value, private, result

(* Results: of an operation under way, a value, and of a CAS. *)
None == <<"none", 0>>
Got(v) == <<"value", v>>
True == <<"true", 0>>
False == <<"false", 0>>

vars == <<value, private, result>>

Init ==
  /\ value = 0
  /\ private = [t \in Threads |-> 0]
  /\ result = [t \in Threads |-> None]

(* Fetch-and-store-and-store returns the value it replaced. *)
Fetch(t, op) ==
  /\ op.op = "fasas"
  /\ result' = [result EXCEPT ![t] = Got(value)]

(* A double or a recoverable CAS found the value it expected. *)
Compare(t, op) ==
  /\ op.op \in {"dcas", "rcas"} /\ value = op.old
  /\ result' = [result EXCEPT ![t] = True]

Apply(t, op) ==
  /\ Fetch(t, op) \/ Compare(t, op)
  /\ private' = [private EXCEPT ![t] = Stored(op, value)]
  /\ value' = op.new

Fail(t, op) ==
  /\ op.op \in {"dcas", "rcas"}
  /\ result' = [result EXCEPT ![t] = False]
  /\ UNCHANGED <<value, private>>

Read(t, op) ==
  /\ op.op = "read"
  /\ result' = [result EXCEPT ![t] = Got(value)]
  /\ UNCHANGED <<value, private>>

(* The next operation of t begins. *)
Forget(t) ==
  /\ result' = [result EXCEPT ![t] = None]
  /\ UNCHANGED <<value, private>>

Next ==
  \E t \in Threads :
    \/ result[t] = None /\ \E op \in Ops(t) :
         Apply(t, op) \/ Fail(t, op) \/ Read(t, op)
    \/ Forget(t)

Steps == [Next]_vars

Spec == Init /\ [][Next]_vars
=============================================================================
