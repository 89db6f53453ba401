----------------------------- MODULE GarbageList -----------------------------
(***************************************************************************)
(* src/common/garbage_list.h and garbage_list_unsafe.h: rings of removed   *)
(* items, each stamped with the epoch of its removal.  The slots of a      *)
(* GarbageList are shared, and claimed with a compare-exchange; those of a *)
(* GarbageListUnsafe belong to one thread, and are claimed with a store.   *)
(* Both are walked the same way.                                           *)
(*                                                                         *)
(* The epoch manager is seen through its interface: Protect, Unprotect,    *)
(* BumpCurrentEpoch and IsSafeToReclaim are one step each.  EpochManager   *)
(* has their steps.  What is removed is memory of the TLS allocator.       *)
(***************************************************************************)
EXTENDS TlsAllocator, FiniteSetsExt, SequencesExt

VARIABLES
  item_count,             \* item_count_, which never changes
  current_epoch,          \* current_epoch_
  safe_to_reclaim_epoch,  \* safe_to_reclaim_epoch_
  protected_epoch,        \* per thread: the epoch it protects, 0 if none
  tail,                   \* per list: tail_, modulo item_count
  items,                  \* per list and slot: removal_epoch and removed_item
  gc                      \* per thread: its running Push or Scavenge

epochVars == <<current_epoch, safe_to_reclaim_epoch, protected_epoch>>
listVars == <<tail, items>>

Slots == 0 .. item_count - 1
Invalid == -1                 \* invalid_epoch, ~0
Empty == [epoch |-> 0, item |-> <<>>]
NotCollecting == [pc |-> "idle", op |-> "none", list |-> 0, item |-> <<>>,
                  stamp |-> 0, slot |-> 0, prior |-> 0]

(* Initialize() of a list of either kind: it refuses a number of items that *)
(* is not a power of two.                                                   *)
RingInit(Lists, n) ==
  /\ item_count = n /\ \E k \in 0 .. 17 : n = 2 ^ k
  /\ tail = [l \in Lists |-> 0]
  /\ items = [l \in Lists |-> [s \in Slots |-> Empty]]

(* The lists, their epoch manager, and nobody in a Push or Scavenge. *)
GarbageInit(Lists, n) ==
  /\ RingInit(Lists, n)
  /\ current_epoch = 1 /\ safe_to_reclaim_epoch = 0
  /\ protected_epoch = [t \in Threads |-> 0]
  /\ gc = [t \in Threads |-> NotCollecting]

-----------------------------------------------------------------------------
(* The epoch manager *)

Protect(t) ==
  /\ protected_epoch' = [protected_epoch EXCEPT ![t] = current_epoch]
  /\ UNCHANGED <<current_epoch, safe_to_reclaim_epoch>>

Unprotect(t) ==
  /\ protected_epoch' = [protected_epoch EXCEPT ![t] = 0]
  /\ UNCHANGED <<current_epoch, safe_to_reclaim_epoch>>

OldestProtected ==
  Min({current_epoch} \union ({protected_epoch[t] : t \in Threads} \ {0}))

(* Mutant: the safe epoch is computed from the new epoch, itself included. *)
BumpInclusive ==
  /\ current_epoch' = current_epoch + 1
  /\ safe_to_reclaim_epoch' =
       Min({current_epoch + 1} \union ({protected_epoch[t] : t \in Threads} \ {0}))
  /\ UNCHANGED protected_epoch

BumpCurrentEpoch ==
  /\ current_epoch' = current_epoch + 1
  /\ safe_to_reclaim_epoch' = OldestProtected - 1
  /\ UNCHANGED protected_epoch

IsSafeToReclaim(epoch) == epoch <= safe_to_reclaim_epoch

-----------------------------------------------------------------------------
(* Push and Scavenge *)

GcAt(t, pc) == gc[t].pc = pc
GcGoto(t, g) == gc' = [gc EXCEPT ![t] = g]

(* Push(): the removal epoch is read once, before the search for a slot. *)
Push(t, list, item) ==
  GcGoto(t, [pc |-> "slot", op |-> "push", list |-> list, item |-> item,
             stamp |-> current_epoch, slot |-> 0, prior |-> 0])

Scavenge(t, list) ==
  GcGoto(t, [pc |-> "read", op |-> "scavenge", list |-> list, item |-> <<>>,
             stamp |-> 0, slot |-> 0, prior |-> 0])

(***************************************************************************)
(* Push's search, and AllocateDescriptor's, go on for as long as another   *)
(* thread's region keeps every item unsafe.  Epochs are only compared: if  *)
(* nothing bears the current one, the safe epoch stays where it is and no  *)
(* slot can be used, another round changes nothing, and is left out.       *)
(***************************************************************************)
EpochsInUse ==
  {protected_epoch[t] : t \in Threads} \union {gc[t].stamp : t \in Threads}
    \union {items[l][s].epoch : l \in DOMAIN items, s \in Slots}

RoundMatters(usable) ==
  \/ current_epoch \in EpochsInUse
  \/ OldestProtected - 1 # safe_to_reclaim_epoch
  \/ usable

(***************************************************************************)
(* fetch_add returns the tail before it, from which GarbageList::Push      *)
(* subtracts one; a quarter of the ring further on, the epoch is bumped.   *)
(***************************************************************************)
TakeSlot(t, shared) ==
  LET list == gc[t].list
      slot == (tail[list] - (IF shared THEN 1 ELSE 0)) % item_count
  IN /\ GcAt(t, "slot")
     /\ RoundMatters(\E s \in Slots : items[list][s].epoch \in 0 .. safe_to_reclaim_epoch)
     /\ tail' = [tail EXCEPT ![list] = (@ + 1) % item_count]
     /\ IF (4 * slot) % item_count = 0 THEN BumpCurrentEpoch ELSE UNCHANGED epochVars
     /\ GcGoto(t, [gc[t] EXCEPT !.pc = "read", !.slot = slot])
     /\ UNCHANGED items

(* "Try elsewhere": Push takes another slot, Scavenge goes to the next one. *)
Elsewhere(g) ==
  IF g.op = "push" THEN [g EXCEPT !.pc = "slot"]
  ELSE IF g.slot + 1 \in Slots THEN [g EXCEPT !.pc = "read", !.slot = g.slot + 1]
  ELSE NotCollecting

(* What Push, or Scavenge, leaves in a slot it may use. *)
Refill(g) == IF g.op = "push" THEN [epoch |-> g.stamp, item |-> g.item] ELSE Empty
AfterRefill(g) == IF g.op = "push" THEN NotCollecting ELSE Elsewhere(g)

(* Mutant: what is in a slot is dropped however young it is. *)
MayUseAny(g, epoch) == ~(g.op = "scavenge" /\ epoch = 0)

(* An empty slot is of no use to Scavenge, an unsafe item of none to either. *)
MayUse(g, epoch) ==
  /\ ~(g.op = "scavenge" /\ epoch = 0)
  /\ epoch = 0 \/ IsSafeToReclaim(epoch)

(* The slot that t is at. *)
Slot(t) == items[gc[t].list][gc[t].slot]

(***************************************************************************)
(* GarbageListUnsafe: the thread is alone with the slot, and reads one     *)
(* thing of others, the safe epoch.  The destroy callback gets the item of *)
(* the slot (<<>> if none) when the slot is used.                          *)
(***************************************************************************)
VisitOwnSlot(t) ==
  LET g == gc[t] IN
  /\ GcAt(t, "read")
  /\ IF MayUse(g, Slot(t).epoch)
     THEN /\ items' = [items EXCEPT ![g.list][g.slot] = Refill(g)]
          /\ GcGoto(t, AfterRefill(g))
     ELSE GcGoto(t, Elsewhere(g)) /\ UNCHANGED items
  /\ UNCHANGED <<epochVars, tail>>

OwnItem(t) == IF MayUse(gc[t], Slot(t).epoch) THEN Slot(t).item ELSE <<>>

(* GarbageList: somebody else is at the slot, or nothing for Scavenge in it. *)
ReadSlot(t) ==
  LET g == gc[t]
      prior == items[g.list][g.slot].epoch
  IN /\ GcAt(t, "read")
     /\ GcGoto(t, IF prior = Invalid \/ (g.op = "scavenge" /\ prior = 0)
                  THEN Elsewhere(g)
                  ELSE [g EXCEPT !.pc = "claim", !.prior = prior])
     /\ UNCHANGED <<epochVars, listVars>>

(* A write to removal_epoch of the slot; its removed_item stays. *)
SetEpoch(g, epoch) ==
  items' = [items EXCEPT ![g.list][g.slot] =
              [epoch |-> epoch, item |-> items[g.list][g.slot].item]]

(* Mutant: the slot is taken without comparing, as in the unsafe list. *)
ClaimSlotBlindly(t) ==
  LET g == gc[t] IN
  /\ GcAt(t, "claim")
  /\ SetEpoch(g, Invalid)
  /\ GcGoto(t, [g EXCEPT !.pc = "check"])
  /\ UNCHANGED <<epochVars, tail>>

(* The compare-exchange of removal_epoch from prior to invalid_epoch. *)
ClaimSlot(t) ==
  LET g == gc[t] IN
  /\ GcAt(t, "claim")
  /\ IF items[g.list][g.slot].epoch = g.prior
     THEN /\ SetEpoch(g, Invalid)
          /\ GcGoto(t, [g EXCEPT !.pc = "check"])
     ELSE GcGoto(t, Elsewhere(g)) /\ UNCHANGED items
  /\ UNCHANGED <<epochVars, tail>>

(* An item that is not safe to reclaim gets its epoch back. *)
CheckSlot(t) ==
  LET g == gc[t] IN
  /\ GcAt(t, "check")
  /\ IF MayUse(g, g.prior)
     THEN GcGoto(t, [g EXCEPT !.pc = "destroy"]) /\ UNCHANGED items
     ELSE /\ SetEpoch(g, g.prior)
          /\ GcGoto(t, Elsewhere(g))
  /\ UNCHANGED <<epochVars, tail>>

(* The destroy callback for Slot(t).item, and the store of the new epoch. *)
DestroyItem(t) ==
  LET g == gc[t] IN
  /\ GcAt(t, "destroy")
  /\ items' = [items EXCEPT ![g.list][g.slot] = Refill(g)]
  /\ GcGoto(t, AfterRefill(g))
  /\ UNCHANGED <<epochVars, tail>>

(* Uninitialize(): every item is destroyed, whatever its epoch. *)
Uninitialize(list) ==
  /\ items' = [items EXCEPT ![list] = [s \in Slots |-> Empty]]
  /\ tail' = [tail EXCEPT ![list] = 0]
  /\ UNCHANGED <<epochVars, gc>>

=============================================================================
