---------------------------- MODULE EpochReclaim ----------------------------
(***************************************************************************)
(* The epoch manager together with its users: threads that reach items of  *)
(* a shared structure inside a protected region, unlink items, stamp them  *)
(* with the current epoch (the first line of GarbageList::Push) and free   *)
(* them once IsSafeToReclaim answers true for the stamp.  In this library  *)
(* the items are descriptors: linked while a target word points to them,   *)
(* unlinked when the final values are installed, retired by doCleanup and  *)
(* reclaimed by FreeDescriptor.                                            *)
(***************************************************************************)
EXTENDS EpochManager

CONSTANT Items

VARIABLES
  item,           \* "free", "linked", "unlinked" or "retired"
  removal_epoch,  \* the stamp of a retired item
  holds           \* per thread: the items it has reached in this region

vars == <<epochVars, item, removal_epoch, holds>>
itemVars == <<item, removal_epoch, holds>>

Init ==
  /\ EpochInit
  /\ item = [i \in Items |-> "free"]
  /\ removal_epoch = [i \in Items |-> 0]
  /\ holds = [t \in Threads |-> {}]

(* A fresh item is made reachable. *)
Link(i) ==
  /\ item[i] = "free"
  /\ item' = [item EXCEPT ![i] = "linked"]
  /\ UNCHANGED <<epochVars, removal_epoch, holds>>

(* A protected thread loads a pointer to a linked item and keeps it. *)
Access(t, i) ==
  /\ region[t] = "in" /\ NotBumping(t)
  /\ item[i] = "linked"
  /\ holds' = [holds EXCEPT ![t] = @ \union {i}]
  /\ UNCHANGED <<epochVars, item, removal_epoch>>

(* A protected thread swaps the item out with a compare-exchange. *)
Unlink(t, i) ==
  /\ region[t] = "in" /\ NotBumping(t) /\ Drained(t)
  /\ item[i] = "linked"
  /\ item' = [item EXCEPT ![i] = "unlinked"]
  /\ UNCHANGED <<epochVars, removal_epoch, holds>>

(* Push stamps the unlinked item with GetCurrentEpoch(). *)
Retire(i) ==
  /\ item[i] = "unlinked"
  /\ item' = [item EXCEPT ![i] = "retired"]
  /\ removal_epoch' = [removal_epoch EXCEPT ![i] = current_epoch]
  /\ UNCHANGED <<epochVars, holds>>

(* Push or Scavenge finds the stamp safe and calls the destroy callback. *)
Reclaim(i) ==
  /\ item[i] = "retired"
  /\ IsSafeToReclaim(removal_epoch[i])
  /\ item' = [item EXCEPT ![i] = "free"]
  /\ UNCHANGED <<epochVars, removal_epoch, holds>>

(* Leaving the region, a thread gives up every pointer it reached in it. *)
Leave(t) ==
  /\ Unprotect(t)
  /\ holds' = [holds EXCEPT ![t] = {}]
  /\ UNCHANGED <<item, removal_epoch>>

Next ==
  \/ \E t \in Threads :
       \/ EpochStep(t) /\ UNCHANGED itemVars
       \/ Leave(t)
       \/ \E i \in Items : Access(t, i) \/ Unlink(t, i)
  \/ \E i \in Items : Link(i) \/ Retire(i) \/ Reclaim(i)

Spec == Init /\ [][Next]_vars

-----------------------------------------------------------------------------

(***************************************************************************)
(* The variables have the types of their C++ counterparts; in particular   *)
(* the unsigned safe epoch, one less than the bound of a scan, never wraps *)
(* below 0.                                                                *)
(***************************************************************************)
TypeOK ==
  /\ current_epoch \in Nat
  /\ safe_to_reclaim_epoch \in Nat
  /\ protected_epoch \in [Slots -> Nat]
  /\ thread_id \in [Slots -> Threads \union {NoThread}]
  /\ tls \in [Threads -> Slots \union {NoSlot}]
  /\ buffer \in [Threads -> Seq(Nat)]
  /\ region \in [Threads -> {"out", "entering", "fence", "in"}]
  /\ loaded \in [Threads -> Nat]
  /\ scan \in [Threads -> (0 .. TableSize) \union {NoSlot}]
  /\ oldest_call \in [Threads -> Nat]
  /\ item \in [Items -> {"free", "linked", "unlinked", "retired"}]
  /\ removal_epoch \in [Items -> Nat]
  /\ holds \in [Threads -> SUBSET Items]

(***************************************************************************)
(* epoch.cc, ComputeNewSafeToReclaimEpoch: "The returned value will never  *)
(* be equal to or greater than the global epoch at any point, ever."  This *)
(* holds although racing bumps overwrite each other's results, and whether *)
(* or not the store of protected_epoch is sequentially consistent.         *)
(***************************************************************************)
SafeBelowCurrent == safe_to_reclaim_epoch < current_epoch

(***************************************************************************)
(* Protect(): "accesses to protected data structure items are guaranteed   *)
(* to be safe, even if the item is concurrently removed": no item that a   *)
(* thread reached inside its current protected region has been reclaimed.  *)
(***************************************************************************)
NoReclaimWhileHeld ==
  \A t \in Threads : \A i \in holds[t] : item[i] # "free"

(***************************************************************************)
(* ReserveEntry: two threads never share a table entry, so one thread's    *)
(* Unprotect() cannot erase the epoch another thread published.            *)
(***************************************************************************)
EntriesExclusive ==
  \A t, u \in Threads : t # u /\ tls[t] # NoSlot => tls[t] # tls[u]

=============================================================================
