----------------------------- MODULE DListSystem -----------------------------
(***************************************************************************)
(* Threads that insert, delete and walk on one list, and what the list     *)
(* promises them.                                                          *)
(***************************************************************************)
EXTENDS CASDList

Start(op) == IF kind = "mwcas" THEN MwStart(op) ELSE CasStart(op)

Step(t) == Call(t, Start) \/ Return(t) \/ MwStep(t) \/ CasStep(t)

Finished == AllDone /\ UNCHANGED vars

Next == (\E t \in Threads : Step(t)) \/ Finished

(* Every thread keeps running. *)
Spec == Init /\ [][Next]_vars /\ \A t \in Threads : WF_vars(Step(t))

-----------------------------------------------------------------------------
(* A link is a node or null; no thread follows a null or a marked pointer. *)
DListTypeOK ==
  /\ \A n \in Nodes : nx[n].n \in Nodes \union {-1} /\ pv[n].n \in Nodes \union {-1}
  /\ \A t \in Threads : local[t].pc # "fault"

(***************************************************************************)
(* Every call of either list takes effect once, in one step: an insert     *)
(* links its node next to its anchor while that is in the list, a delete   *)
(* takes out its node and no other, and nothing else changes what a walk   *)
(* over the unmarked nodes sees (InsertBefore, InsertAfter, Delete).       *)
(***************************************************************************)
Abstract == INSTANCE AtomicDList WITH
  op <- [t \in Threads |-> local[t].op], took <- [t \in Threads |-> local[t].took],
  Ops <- CallsOf

ChangesAtomically == Abstract!Steps

(***************************************************************************)
(* SingleThreadSanityCheck: from head to tail, every node is its           *)
(* successor's predecessor, and none is marked.  MwCASDList keeps this at  *)
(* every moment, CASDList when no call is running.                         *)
(***************************************************************************)
SanityCheck ==
  LET all == <<head_>> \o list \o <<tail_>> IN
  kind = "mwcas" \/ (\A t \in Threads : At(t, "idle")) =>
    /\ pv[head_] = Null /\ nx[tail_] = Null
    /\ \A i \in 1 .. Len(all) - 1 : nx[all[i]] = Ptr(all[i + 1]) /\ pv[all[i + 1]] = Ptr(all[i])

(***************************************************************************)
(* A cursor that has gone from one end to the other has met every node     *)
(* that was in the list all the while, whatever was inserted and deleted   *)
(* around it (DListCursor over GetNext and GetPrev).                       *)
(***************************************************************************)
WalkComplete ==
  \A t \in Threads : At(t, "return") => local[t].present \subseteq local[t].seen

(* Every call returns, however the others interfere. *)
AllCallsReturn == <>AllDone

=============================================================================
