----------------------------- MODULE PoolProofs -----------------------------
(***************************************************************************)
(* Proofs about PoolSystem, its garbage lists and its allocator, for any   *)
(* threads, scripts, sizes of the lists and of the pool, nodes, cache      *)
(* lines and slabs.                                                        *)
(*                                                                         *)
(* SlotInv: why the compare-exchange of removal_epoch is enough to give a  *)
(* slot of the shared list one owner.  A claimed slot shows Invalid, which *)
(* is never the epoch that a claim expects; and a slot that is not claimed *)
(* has an epoch if and only if it has an item, so that what the owner has  *)
(* read tells it whether there is something to destroy.                    *)
(*                                                                         *)
(* AllocInv: blocks are disjoint because slabs are, and slabs because each *)
(* is cut from its node beyond all that was cut before.  A block lies in   *)
(* the part of its slab that is given out, or outside of the slab, and so  *)
(* the rest of a slab is free for the next block.                          *)
(***************************************************************************)
EXTENDS PoolSystem, FiniteSetTheorems, WellFoundedInduction, TLAPS

(* Time for the longest leaves. *)
USE ZenonT(4), SMTT(10), ZenonT(40), SMTT(60), ZenonT(150)

(* A running Push or Scavenge. *)
IsCall(g) ==
  g = [pc |-> g.pc, op |-> g.op, list |-> g.list, item |-> g.item,
       stamp |-> g.stamp, slot |-> g.slot, prior |-> g.prior]

(* A call is nowhere but at its places; what it pushes is not nothing. *)
CallOK(g) ==
  /\ IsCall(g)
  /\ g.pc \in {"idle", "slot", "read", "claim", "check", "destroy"}
  /\ kind = "pool" => g.pc \in {"idle", "slot", "read"}
  /\ kind = "list" => g.list = 0 /\ g.slot \in Slots
  /\ g.op = "push" => g.stamp \in Nat \ {0} /\ g.item # <<>>
  /\ g.pc \in {"claim", "check", "destroy"} => g.prior \in Nat

(* A slot that nobody has claimed has an epoch if it has an item. *)
EntryOK(e) ==
  /\ e = [epoch |-> e.epoch, item |-> e.item]
  /\ e.epoch = Invalid \/ (e.epoch \in Nat /\ (e.epoch = 0 <=> e.item = <<>>))

(* A caller of the shared list has no descriptor. *)
CallerOK(l) ==
  /\ l = [pc |-> l.pc, d |-> l.d, old |-> l.old, new |-> l.new, seen |-> l.seen]
  /\ l.pc \in {"idle", "cas", "push"}

SlotInv ==
  /\ kind \in Kinds /\ (kind = "list" \/ kind = "pool")
  /\ item_count \in Nat \ {0} /\ current_epoch \in Nat \ {0}
  /\ gc = [t \in Threads |-> gc[t]] /\ \A t \in Threads : CallOK(gc[t])
  /\ kind = "list" =>
       /\ tail = [l \in {0} |-> tail[l]] /\ tail[0] \in Int
       /\ items = [l \in {0} |-> items[l]] /\ items[0] = [s \in Slots |-> items[0][s]]
       /\ \A s \in Slots : EntryOK(items[0][s])
       /\ local = [t \in Threads |-> local[t]] /\ \A t \in Threads : CallerOK(local[t])
  /\ SlotExclusive

-----------------------------------------------------------------------------

(* The constructed lists satisfy the invariant. *)
LEMMA SlotInit == Init => SlotInv
  <1> SUFFICES ASSUME Init PROVE SlotInv
    OBVIOUS
  <1> USE DEF Init
  <1>1. kind \in Kinds /\ (kind = "list" \/ kind = "pool") /\ ItemCount[kind] \in Nat \ {0}
    BY KindsAssumption, ItemCountAssumption
  <1>2. /\ item_count = ItemCount[kind] /\ current_epoch = 1
        /\ gc = [t \in Threads |-> NotCollecting]
    BY DEF PartitionsInit, GarbageInit, RingInit
  <1>3. \A t \in Threads : gc[t] = NotCollecting /\ CallOK(gc[t])
    BY <1>1, <1>2 DEF NotCollecting, CallOK, IsCall, Slots
  <1>4. ASSUME kind = "list"
        PROVE  /\ tail = [l \in {0} |-> 0]
               /\ items = [l \in {0} |-> [s \in Slots |-> Empty]]
    BY <1>4 DEF GarbageInit, RingInit
  <1>5. EntryOK(Empty) /\ CallerOK(Idle)
    BY DEF EntryOK, CallerOK, Empty, Idle, Invalid
  <1>6. SlotExclusive
    BY <1>3 DEF SlotExclusive, NotCollecting
  <1> QED
    BY <1>1, <1>2, <1>3, <1>4, <1>5, <1>6 DEF SlotInv

(* What EXCEPT does to two fields of a call. *)
LEMMA TwoFields ==
  ASSUME NEW g, IsCall(g), NEW p, NEW n
  PROVE  /\ [g EXCEPT !.pc = p, !.slot = n]
              = [pc |-> p, op |-> g.op, list |-> g.list, item |-> g.item,
                 stamp |-> g.stamp, slot |-> n, prior |-> g.prior]
         /\ [g EXCEPT !.pc = p, !.prior = n]
              = [pc |-> p, op |-> g.op, list |-> g.list, item |-> g.item,
                 stamp |-> g.stamp, slot |-> g.slot, prior |-> n]
  <1> DEFINE m == [g EXCEPT !.pc = p]
  <1>1. /\ [g EXCEPT !.pc = p, !.slot = n] = [m EXCEPT !.slot = n]
        /\ [g EXCEPT !.pc = p, !.prior = n] = [m EXCEPT !.prior = n]
    OBVIOUS
  <1>2. m = [pc |-> p, op |-> g.op, list |-> g.list, item |-> g.item,
             stamp |-> g.stamp, slot |-> g.slot, prior |-> g.prior]
    BY DEF IsCall
  <1> HIDE DEF m
  <1> QED
    BY <1>1, <1>2

(* Where a Push or Scavenge goes on when it is through with a slot. *)
LEMMA ElsewhereOK ==
  ASSUME NEW g, CallOK(g), item_count \in Nat \ {0}, kind \in {"list", "pool"}
  PROVE  /\ CallOK(NotCollecting)
         /\ CallOK(Elsewhere(g)) /\ Elsewhere(g).pc \in {"idle", "slot", "read"}
         /\ CallOK(AfterRefill(g)) /\ AfterRefill(g).pc \in {"idle", "slot", "read"}
  <1>1. CallOK(NotCollecting) /\ NotCollecting.pc = "idle"
    BY DEF CallOK, IsCall, NotCollecting, Slots
  <1>2. CallOK([g EXCEPT !.pc = "slot"]) /\ [g EXCEPT !.pc = "slot"].pc = "slot"
    BY DEF CallOK, IsCall
  <1>3. ASSUME g.slot + 1 \in Slots
        PROVE  /\ CallOK([g EXCEPT !.pc = "read", !.slot = g.slot + 1])
               /\ [g EXCEPT !.pc = "read", !.slot = g.slot + 1].pc = "read"
    <2> DEFINE h == [g EXCEPT !.pc = "read", !.slot = g.slot + 1]
    <2>1. h = [pc |-> "read", op |-> g.op, list |-> g.list, item |-> g.item,
               stamp |-> g.stamp, slot |-> g.slot + 1, prior |-> g.prior]
      BY TwoFields DEF CallOK
    <2> HIDE DEF h
    <2>2. CallOK(h) /\ h.pc = "read"
      BY <1>3, <2>1 DEF CallOK, IsCall
    <2> QED
      BY <2>2 DEF h
  <1> QED
    BY <1>1, <1>2, <1>3 DEF Elsewhere, AfterRefill

(* A step that is none of the garbage lists' leaves them as they are. *)
LEMMA Unrelated ==
  ASSUME SlotInv, UNCHANGED <<fixed, listVars, gc>>,
         current_epoch' = current_epoch \/ current_epoch' = current_epoch + 1,
         kind = "list" => /\ local' = [t \in Threads |-> local'[t]]
                          /\ \A t \in Threads : CallerOK(local'[t])
  PROVE  SlotInv'
  <1>1. (\A t \in Threads : CallOK(gc[t]))' /\ SlotExclusive' /\ Slots' = Slots
    BY DEF SlotInv, CallOK, IsCall, SlotExclusive, fixed, listVars, Slots
  <1>2. kind = "list" => (\A s \in Slots : EntryOK(items[0][s]))'
    BY DEF SlotInv, EntryOK, fixed, listVars, Slots, Invalid
  <1>3. (\A t \in Threads : CallerOK(local[t]))' <=> \A t \in Threads : CallerOK(local'[t])
    BY DEF CallerOK
  <1> QED
    BY <1>1, <1>2, <1>3 DEF SlotInv, fixed, listVars

(* A step of one thread that claims no slot and writes to none. *)
LEMMA ClaimsNothing ==
  ASSUME SlotInv, NEW t \in Threads, NEW g, UNCHANGED fixed,
         gc' = [gc EXCEPT ![t] = g], CallOK(g), g.pc \notin {"check", "destroy"},
         current_epoch' = current_epoch \/ current_epoch' = current_epoch + 1,
         kind = "list" => /\ items' = items
                          /\ tail' = [l \in {0} |-> tail'[l]] /\ tail'[0] \in Int
                          /\ local' = [u \in Threads |-> local'[u]]
                          /\ \A u \in Threads : CallerOK(local'[u])
  PROVE  SlotInv'
  <1>1. \A u \in Threads : gc'[u] = IF u = t THEN g ELSE gc[u]
    BY DEF SlotInv
  <1>2. (\A u \in Threads : CallOK(gc[u]))' /\ Slots' = Slots
    BY <1>1 DEF SlotInv, CallOK, IsCall, fixed, Slots
  <1>3. SlotExclusive'
    <2>1. CASE kind = "pool"
      BY <1>1, <2>1 DEF SlotInv, CallOK, SlotExclusive
    <2>2. CASE kind = "list"
      BY <1>1, <2>2 DEF SlotInv, SlotExclusive, Invalid
    <2> QED
      BY <2>1, <2>2 DEF SlotInv
  <1>4. kind = "list" => (\A s \in Slots : EntryOK(items[0][s]))'
    BY DEF SlotInv, EntryOK, fixed, Slots, Invalid
  <1>5. (\A u \in Threads : CallerOK(local[u]))' <=> \A u \in Threads : CallerOK(local'[u])
    BY DEF CallerOK
  <1> QED
    BY <1>1, <1>2, <1>3, <1>4, <1>5 DEF SlotInv, fixed

(* What the steps of a Push or Scavenge start from. *)
LEMMA CallFacts ==
  ASSUME SlotInv, NEW t \in Threads
  PROVE  /\ CallOK(gc[t]) /\ item_count \in Nat \ {0} /\ kind \in {"list", "pool"}
         /\ CallOK(Elsewhere(gc[t])) /\ Elsewhere(gc[t]).pc \in {"idle", "slot", "read"}
         /\ CallOK(AfterRefill(gc[t])) /\ AfterRefill(gc[t]).pc \in {"idle", "slot", "read"}
         /\ kind = "list" =>
              /\ gc[t].list = 0 /\ gc[t].slot \in Slots
              /\ EntryOK(items[0][gc[t].slot])
              /\ tail = [l \in {0} |-> tail[l]] /\ tail[0] \in Int
              /\ local = [u \in Threads |-> local[u]]
              /\ \A u \in Threads : CallerOK(local[u])
  <1>1. CallOK(gc[t]) /\ item_count \in Nat \ {0} /\ kind \in {"list", "pool"}
    BY DEF SlotInv
  <1>2. kind = "list" => gc[t].list = 0 /\ gc[t].slot \in Slots
    BY <1>1 DEF CallOK
  <1> QED
    BY <1>1, <1>2, ElsewhereOK DEF SlotInv

(* A slot of the ring for Push. *)
LEMMA TakeSlotStep ==
  ASSUME SlotInv, NEW t \in Threads, TakeSlot(t, kind = "list"), UNCHANGED <<fixed, local>>
  PROVE  SlotInv'
  <1> DEFINE g == gc[t]
  <1>1. IsCall(g)
    BY CallFacts DEF CallOK
  <1>2. ASSUME NEW n
        PROVE  [g EXCEPT !.pc = "read", !.slot = n]
                 = [pc |-> "read", op |-> g.op, list |-> g.list, item |-> g.item,
                    stamp |-> g.stamp, slot |-> n, prior |-> g.prior]
    BY <1>1, TwoFields
  <1> DEFINE slot == (tail[g.list] - (IF kind = "list" THEN 1 ELSE 0)) % item_count
             h == [g EXCEPT !.pc = "read", !.slot = slot]
  <1>3. CallOK(g) /\ IsCall(g)
    BY CallFacts DEF CallOK
  <1>4. h = [pc |-> "read", op |-> g.op, list |-> g.list, item |-> g.item,
             stamp |-> g.stamp, slot |-> slot, prior |-> g.prior]
    BY <1>2
  <1>5. kind = "list" => slot \in Slots /\ (tail[0] + 1) % item_count \in Int
    BY CallFacts DEF Slots
  <1>6. /\ gc' = [gc EXCEPT ![t] = h] /\ items' = items
        /\ tail' = [tail EXCEPT ![g.list] = (@ + 1) % item_count]
        /\ current_epoch' = current_epoch \/ current_epoch' = current_epoch + 1
    BY DEF TakeSlot, GcGoto, BumpCurrentEpoch, epochVars
  <1> HIDE DEF slot, h
  <1>7. CallOK(h) /\ h.pc = "read"
    BY <1>3, <1>4, <1>5 DEF CallOK, IsCall
  <1>8. kind = "list" => tail' = [l \in {0} |-> tail'[l]] /\ tail'[0] \in Int
    BY CallFacts, <1>5, <1>6
  <1> HIDE DEF g
  <1> QED
    BY CallFacts, <1>6, <1>7, <1>8, ClaimsNothing

(* The thread-owned list. *)
LEMMA VisitOwnSlotStep ==
  ASSUME SlotInv, NEW t \in Threads, kind = "pool", VisitOwnSlot(t),
         UNCHANGED fixed
  PROVE  SlotInv'
  <1>1. /\ current_epoch' = current_epoch
        /\ \/ gc' = [gc EXCEPT ![t] = AfterRefill(gc[t])]
           \/ gc' = [gc EXCEPT ![t] = Elsewhere(gc[t])]
    BY DEF VisitOwnSlot, GcGoto, epochVars
  <1> QED
    BY CallFacts, <1>1, ClaimsNothing

(* The epoch of the slot is read. *)
LEMMA ReadSlotStep ==
  ASSUME SlotInv, NEW t \in Threads, kind = "list", ReadSlot(t), UNCHANGED <<fixed, local>>
  PROVE  SlotInv'
  <1> DEFINE g == gc[t]
             prior == items[g.list][g.slot].epoch
             h == [g EXCEPT !.pc = "claim", !.prior = prior]
  <1>1. /\ CallOK(g) /\ item_count \in Nat \ {0} /\ g.list = 0 /\ g.slot \in Slots
        /\ EntryOK(items[0][g.slot])
    BY CallFacts
  <1>2. h = [pc |-> "claim", op |-> g.op, list |-> g.list, item |-> g.item,
             stamp |-> g.stamp, slot |-> g.slot, prior |-> prior]
    BY <1>1, TwoFields DEF CallOK
  <1>3. /\ UNCHANGED <<current_epoch, items, tail>>
        /\ \/ gc' = [gc EXCEPT ![t] = Elsewhere(g)]
           \/ gc' = [gc EXCEPT ![t] = h] /\ prior # Invalid
    BY DEF ReadSlot, GcGoto, epochVars, listVars
  <1>4. prior = Invalid \/ prior \in Nat
    BY <1>1 DEF EntryOK
  <1> HIDE DEF prior, h
  <1>5. prior # Invalid => CallOK(h) /\ h.pc = "claim"
    BY <1>1, <1>2, <1>4 DEF CallOK, IsCall
  <1> QED
    BY CallFacts, <1>3, <1>5, ClaimsNothing

(***************************************************************************)
(* A write to the slot of a call that nobody else has claimed: the call    *)
(* may own it afterwards if it then shows Invalid.                         *)
(***************************************************************************)
LEMMA WritesOneSlot ==
  ASSUME SlotInv, NEW t \in Threads, kind = "list", NEW e, NEW h,
         items' = [items EXCEPT ![0][gc[t].slot] = e], gc' = [gc EXCEPT ![t] = h],
         UNCHANGED <<fixed, local, current_epoch, tail>>,
         EntryOK(e), CallOK(h),
         \/ h.pc \notin {"check", "destroy"}
         \/ /\ h.slot = gc[t].slot /\ e.epoch = Invalid
            /\ (h.prior = 0) <=> (e.item = <<>>),
         \A u \in Threads \ {t} :
           gc[u].pc \in {"check", "destroy"} => gc[u].slot # gc[t].slot
  PROVE  SlotInv'
  <1> DEFINE i == gc[t].slot
  <1>1. i \in Slots /\ Slots' = Slots /\ \A u \in Threads : CallOK(gc[u])
    BY CallFacts DEF SlotInv, Slots, fixed
  <1>2. \A u \in Threads : gc'[u] = IF u = t THEN h ELSE gc[u]
    BY DEF SlotInv
  <1>3. \A s \in Slots : items'[0][s] = IF s = i THEN e ELSE items[0][s]
    BY <1>1 DEF SlotInv
  <1>4. SlotExclusive'
    <2>1. \A u \in Threads : gc[u].pc \in {"check", "destroy"} =>
            /\ gc[u].slot \in Slots /\ items[0][gc[u].slot].epoch = Invalid
            /\ (gc[u].prior = 0) <=> (items[0][gc[u].slot].item = <<>>)
            /\ \A w \in Threads \ {u} :
                 gc[w].pc \in {"check", "destroy"} => gc[w].slot # gc[u].slot
      BY CallFacts DEF SlotInv, SlotExclusive
    <2>2. gc'[t] = h /\ items'[0][i] = e
      BY <1>1, <1>2, <1>3
    <2>3. ASSUME NEW u \in Threads, u # t, gc'[u].pc \in {"check", "destroy"}
          PROVE  /\ gc'[u] = gc[u] /\ gc[u].slot \in Slots /\ gc[u].slot # i
                 /\ items'[0][gc[u].slot] = items[0][gc[u].slot]
      <3>1. gc'[u] = gc[u] /\ gc[u].slot # i
        BY <1>2, <2>3
      <3>2. gc[u].slot \in Slots
        BY <2>1, <2>3, <3>1
      <3> QED
        BY <1>3, <3>1, <3>2
    <2> HIDE DEF i
    <2>4. ASSUME h.pc \in {"check", "destroy"}
          PROVE  h.slot = i /\ e.epoch = Invalid /\ ((h.prior = 0) <=> (e.item = <<>>))
      BY <2>4 DEF i
    <2>5. ASSUME NEW u \in Threads, gc'[u].pc \in {"check", "destroy"}
          PROVE  /\ items'[0][gc'[u].slot].epoch = Invalid
                 /\ (gc'[u].prior = 0) <=> (items'[0][gc'[u].slot].item = <<>>)
      <3>1. CASE u = t
        BY <2>2, <2>4, <2>5, <3>1
      <3>2. CASE u # t
        BY <2>1, <2>3, <2>5, <3>2
      <3> QED
        BY <3>1, <3>2
    <2>6. ASSUME NEW u \in Threads, NEW w \in Threads \ {u},
                 gc'[u].pc \in {"check", "destroy"}, gc'[w].pc \in {"check", "destroy"}
          PROVE  gc'[w].slot # gc'[u].slot
      <3>1. CASE u = t
        BY <2>2, <2>3, <2>4, <2>6, <3>1
      <3>2. CASE w = t
        BY <2>2, <2>3, <2>4, <2>6, <3>2
      <3>3. CASE u # t /\ w # t
        BY <2>1, <2>3, <2>6, <3>3
      <3> QED
        BY <3>1, <3>2, <3>3
    <2> QED
      BY <2>5, <2>6 DEF SlotExclusive, Invalid
  <1>5. (\A u \in Threads : CallOK(gc[u]))'
    <2>1. kind' = kind /\ Slots' = Slots
      BY <1>1 DEF fixed
    <2>2. ASSUME NEW u \in Threads
          PROVE  CallOK(gc[u])'
      <3>1. PICK g : g = gc'[u]
        OBVIOUS
      <3>2. CallOK(g)
        BY <1>1, <1>2, <3>1
      <3> QED
        BY <2>1, <3>1, <3>2 DEF CallOK, IsCall
    <2> QED
      BY <2>2
  <1>6. (\A s \in Slots : EntryOK(items[0][s]))'
    BY <1>1, <1>3 DEF SlotInv, EntryOK, Invalid
  <1>7. /\ items' = [l \in {0} |-> items'[l]] /\ items'[0] = [s \in Slots |-> items'[0][s]]
        /\ gc' = [u \in Threads |-> gc'[u]]
    BY DEF SlotInv
  <1>8. (\A u \in Threads : CallerOK(local[u]))'
    BY CallFacts DEF CallerOK
  <1> QED
    BY <1>1, <1>4, <1>5, <1>6, <1>7, <1>8 DEF SlotInv, fixed

(* The compare-exchange: a slot that somebody owns does not have an epoch. *)
LEMMA ClaimSlotStep ==
  ASSUME SlotInv, NEW t \in Threads, kind = "list", ClaimSlot(t), UNCHANGED <<fixed, local>>
  PROVE  SlotInv'
  <1> DEFINE g == gc[t]
             old == items[0][g.slot]
  <1>1. /\ CallOK(g) /\ item_count \in Nat \ {0} /\ g.list = 0 /\ g.slot \in Slots
        /\ EntryOK(items[0][g.slot])
    BY CallFacts
  <1>2. CASE old.epoch = g.prior
    <2> DEFINE e == [epoch |-> Invalid, item |-> old.item]
               h == [g EXCEPT !.pc = "check"]
    <2>1. gc' = [gc EXCEPT ![t] = h] /\ UNCHANGED <<current_epoch, tail>>
      BY <1>1, <1>2 DEF ClaimSlot, GcGoto, epochVars
    <2>2. items' = [items EXCEPT ![0][g.slot] = e]
      BY <1>1, <1>2 DEF ClaimSlot, SetEpoch
    <2>3. g.prior \in Nat
      BY <1>1 DEF ClaimSlot, GcAt, CallOK
    <2>4. g.prior = 0 <=> old.item = <<>>
      <3>1. old.epoch # Invalid
        BY <1>2, <2>3 DEF Invalid
      <3> QED
        BY <1>1, <1>2, <3>1 DEF EntryOK
    <2>5. h = [pc |-> "check", op |-> g.op, list |-> g.list, item |-> g.item,
               stamp |-> g.stamp, slot |-> g.slot, prior |-> g.prior]
      BY <1>1 DEF CallOK, IsCall
    <2> HIDE DEF h
    <2>6. CallOK(h) /\ h.slot = g.slot /\ h.prior = g.prior
      BY <1>1, <2>3, <2>5 DEF CallOK, IsCall
    <2>7. EntryOK(e) /\ e.epoch = Invalid /\ e.item = old.item
      BY DEF EntryOK
    <2>8. \A u \in Threads \ {t} : gc[u].pc \in {"check", "destroy"} => gc[u].slot # g.slot
      BY <1>2, <2>3 DEF SlotInv, SlotExclusive, Invalid
    <2> HIDE DEF e
    <2> QED
      BY <2>1, <2>2, <2>4, <2>6, <2>7, <2>8, WritesOneSlot
  <1>3. CASE old.epoch # g.prior
    <2>1. UNCHANGED <<current_epoch, items, tail>> /\ gc' = [gc EXCEPT ![t] = Elsewhere(g)]
      BY <1>1, <1>3 DEF ClaimSlot, GcGoto, epochVars
    <2> QED
      BY CallFacts, <2>1, ClaimsNothing
  <1> QED
    BY <1>2, <1>3

(* What the owner of a slot knows. *)
LEMMA OwnerFacts ==
  ASSUME SlotInv, NEW t \in Threads, kind = "list", gc[t].pc \in {"check", "destroy"}
  PROVE  /\ gc[t].prior \in Nat /\ items[0][gc[t].slot].epoch = Invalid
         /\ (gc[t].prior = 0) <=> (items[0][gc[t].slot].item = <<>>)
         /\ \A u \in Threads \ {t} :
              gc[u].pc \in {"check", "destroy"} => gc[u].slot # gc[t].slot
  BY CallFacts DEF SlotInv, SlotExclusive, CallOK

(* The owner keeps the slot, or gives it back with its epoch. *)
LEMMA CheckSlotStep ==
  ASSUME SlotInv, NEW t \in Threads, kind = "list", CheckSlot(t), UNCHANGED <<fixed, local>>
  PROVE  SlotInv'
  <1> DEFINE g == gc[t]
             old == items[0][g.slot]
  <1>1. /\ CallOK(g) /\ item_count \in Nat \ {0} /\ g.list = 0 /\ g.slot \in Slots
        /\ EntryOK(items[0][g.slot])
    BY CallFacts
  <1>2. g.pc = "check" /\ UNCHANGED <<current_epoch, tail>>
    BY DEF CheckSlot, GcAt, epochVars
  <1>3. /\ g.prior \in Nat /\ old.epoch = Invalid /\ (g.prior = 0 <=> old.item = <<>>)
        /\ \A u \in Threads \ {t} : gc[u].pc \in {"check", "destroy"} => gc[u].slot # g.slot
    BY <1>2, OwnerFacts
  <1>4. CASE MayUse(g, g.prior)
    <2> DEFINE h == [g EXCEPT !.pc = "destroy"]
    <2>1. items' = items /\ gc' = [gc EXCEPT ![t] = h]
      BY <1>4 DEF CheckSlot, GcGoto
    <2>2. h = [pc |-> "destroy", op |-> g.op, list |-> g.list, item |-> g.item,
               stamp |-> g.stamp, slot |-> g.slot, prior |-> g.prior]
      BY <1>1 DEF CallOK, IsCall
    <2> HIDE DEF h
    <2>3. CallOK(h) /\ h.slot = g.slot /\ h.prior = g.prior
      BY <1>1, <1>3, <2>2 DEF CallOK, IsCall
    <2>4. items' = [items EXCEPT ![0][g.slot] = old]
      BY <1>1, <2>1 DEF SlotInv
    <2> QED
      BY <1>1, <1>3, <1>2, <2>1, <2>3, <2>4, WritesOneSlot
  <1>5. CASE ~MayUse(g, g.prior)
    <2> DEFINE e == [epoch |-> g.prior, item |-> old.item]
    <2>1. gc' = [gc EXCEPT ![t] = Elsewhere(g)]
      BY <1>1, <1>5 DEF CheckSlot, GcGoto
    <2>2. items' = [items EXCEPT ![0][g.slot] = e]
      BY <1>1, <1>5 DEF CheckSlot, SetEpoch
    <2>3. EntryOK(e)
      BY <1>3 DEF EntryOK
    <2> HIDE DEF e
    <2> QED
      BY CallFacts, <1>2, <1>3, <2>1, <2>2, <2>3, WritesOneSlot
  <1> QED
    BY <1>4, <1>5

(* The owner destroys the item and fills the slot. *)
LEMMA DestroyItemStep ==
  ASSUME SlotInv, NEW t \in Threads, kind = "list", DestroyItem(t),
         UNCHANGED <<fixed, local>>
  PROVE  SlotInv'
  <1>1. /\ items' = [items EXCEPT ![0][gc[t].slot] = Refill(gc[t])]
        /\ gc' = [gc EXCEPT ![t] = AfterRefill(gc[t])]
        /\ UNCHANGED <<current_epoch, tail>> /\ gc[t].pc = "destroy"
    BY CallFacts DEF DestroyItem, GcAt, GcGoto, epochVars
  <1>2. EntryOK(Refill(gc[t]))
    BY CallFacts DEF EntryOK, Refill, CallOK, Empty
  <1> QED
    BY CallFacts, OwnerFacts, <1>1, <1>2, WritesOneSlot

(* The steps of Push and Scavenge. *)
LEMMA CollectStep ==
  ASSUME SlotInv, NEW t \in Threads, Collect(t)
  PROVE  SlotInv'
  BY TakeSlotStep, VisitOwnSlotStep, ReadSlotStep, ClaimSlotStep, CheckSlotStep,
     DestroyItemStep
  DEF Collect

(* Every step of the pool, the lists and their users preserves SlotInv. *)
LEMMA SlotStep == SlotInv /\ [Next]_vars => SlotInv'
  <1> SUFFICES ASSUME SlotInv, [Next]_vars PROVE SlotInv'
    OBVIOUS
  <1>1. /\ item_count \in Nat \ {0} /\ current_epoch \in Nat \ {0}
        /\ kind \in {"list", "pool"} /\ CallerOK(Idle)
        /\ kind = "list" => /\ local = [t \in Threads |-> local[t]]
                            /\ \A t \in Threads : CallerOK(local[t])
    BY DEF SlotInv, CallerOK, Idle
  <1>2. ASSUME NEW t \in Threads, local' = [local EXCEPT ![t] = Idle]
        PROVE  kind = "list" => /\ local' = [u \in Threads |-> local'[u]]
                                /\ \A u \in Threads : CallerOK(local'[u])
    BY <1>1, <1>2
  <1>3. ASSUME NEW t \in Threads, EnterRegion(t) \/ LeaveRegion(t) PROVE SlotInv'
    <2>1. UNCHANGED <<fixed, listVars, gc, current_epoch>> /\ local' = [local EXCEPT ![t] = Idle]
      BY <1>3 DEF EnterRegion, LeaveRegion, Return, Protect, Unprotect
    <2> QED
      BY <1>2, <2>1, Unrelated
  <1>4. ASSUME NEW t \in Threads, AllocateDescriptor(t) PROVE SlotInv'
    <2> DEFINE h == [pc |-> "read", op |-> "scavenge", list |-> tls_part[t], item |-> <<>>,
                     stamp |-> 0, slot |-> 0, prior |-> 0]
    <2>1. UNCHANGED <<fixed, listVars>> /\ kind = "pool"
      BY <1>4 DEF AllocateDescriptor, UsesPool
    <2>2. \/ UNCHANGED <<current_epoch, gc>>
          \/ current_epoch' = current_epoch + 1 /\ gc' = [gc EXCEPT ![t] = h]
      BY <1>4 DEF AllocateDescriptor, epochVars, BumpAndScavenge, BumpCurrentEpoch,
                  Scavenge, GcGoto
    <2>3. CallOK(h) /\ h.pc = "read"
      BY <2>1 DEF CallOK, IsCall
    <2> HIDE DEF h
    <2> QED
      BY <2>1, <2>2, <2>3, Unrelated, ClaimsNothing
  <1>5. ASSUME NEW t \in Threads, AddEntry(t) \/ Install(t) \/ Finish(t) PROVE SlotInv'
    <2>1. local[t].pc \in {"fill", "run", "complete"}
      BY <1>5 DEF AddEntry, Install, Finish, At
    <2>2. kind = "pool"
      BY <1>1, <2>1 DEF CallerOK
    <2>3. UNCHANGED <<fixed, listVars, gc, epochVars>>
      <3>1. CASE AddEntry(t)
        BY <3>1 DEF AddEntry, Help, Goto
      <3>2. CASE Install(t)
        BY <3>2 DEF Install, Help, Goto
      <3>3. CASE Finish(t)
        BY <3>3 DEF Finish, Goto
      <3> QED
        BY <1>5, <3>1, <3>2, <3>3
    <2> QED
      BY <2>2, <2>3, Unrelated DEF epochVars
  <1>6. ASSUME NEW t \in Threads, Abort(t) \/ Cleanup(t) PROVE SlotInv'
    <2> DEFINE d == local[t].d
               h == [pc |-> "slot", op |-> "push", list |-> OwnerPartition(d),
                     item |-> <<"desc", d>>, stamp |-> current_epoch, slot |-> 0, prior |-> 0]
    <2>1. local[t].pc \in {"run", "cleanup"}
      BY <1>6 DEF Abort, Cleanup, At
    <2>2. kind = "pool"
      BY <1>1, <2>1 DEF CallerOK
    <2>3. gc' = [gc EXCEPT ![t] = h] /\ UNCHANGED <<fixed, current_epoch>>
      BY <1>6 DEF Abort, Cleanup, PushDescriptor, Push, GcGoto, Return, epochVars
    <2>4. CallOK(h) /\ h.pc = "slot"
      BY <1>1, <2>2 DEF CallOK, IsCall
    <2> HIDE DEF h
    <2> QED
      BY <2>2, <2>3, <2>4, ClaimsNothing
  <1>7. ASSUME NEW t \in Threads, Prepare(t) PROVE SlotInv'
    <2>1. PICK l : /\ local' = [local EXCEPT ![t] = l] /\ CallerOK(l)
                   /\ UNCHANGED <<fixed, listVars, gc, current_epoch>>
      BY <1>7 DEF Prepare, Goto, CallerOK, epochVars
    <2> QED
      BY <1>1, <2>1, Unrelated
  <1>8. ASSUME NEW t \in Threads, Swap(t) PROVE SlotInv'
    <2> DEFINE l == [local[t] EXCEPT !.pc = "push"]
    <2>1. /\ UNCHANGED <<fixed, listVars, gc, current_epoch>>
          /\ local' = [local EXCEPT ![t] = l] \/ local' = [local EXCEPT ![t] = Idle]
      BY <1>8 DEF Swap, Goto, Return, epochVars
    <2>2. kind = "list" => CallerOK(l)
      BY <1>1 DEF CallerOK
    <2> HIDE DEF l
    <2>3. kind = "list" => /\ local' = [u \in Threads |-> local'[u]]
                           /\ \A u \in Threads : CallerOK(local'[u])
      BY <1>1, <2>1, <2>2
    <2> QED
      BY <2>1, <2>3, Unrelated
  <1>9. ASSUME NEW t \in Threads, PushOld(t) PROVE SlotInv'
    <2> DEFINE h == [pc |-> "slot", op |-> "push", list |-> 0,
                     item |-> <<"block", local[t].old>>, stamp |-> current_epoch,
                     slot |-> 0, prior |-> 0]
    <2>1. /\ gc' = [gc EXCEPT ![t] = h] /\ local' = [local EXCEPT ![t] = Idle]
          /\ UNCHANGED <<fixed, listVars, current_epoch>>
      BY <1>9 DEF PushOld, Push, GcGoto, Return, epochVars
    <2>2. CallOK(h) /\ h.pc = "slot"
      BY <1>1 DEF CallOK, IsCall, Slots
    <2>3. kind = "list" => tail' = [l \in {0} |-> tail'[l]] /\ tail'[0] \in Int
      BY <2>1 DEF SlotInv, listVars
    <2> HIDE DEF h
    <2> QED
      BY <1>2, <2>1, <2>2, <2>3, ClaimsNothing DEF listVars
  <1>10. ASSUME NEW t \in Threads, ScavengeList(t) PROVE SlotInv'
    <2> DEFINE h == [pc |-> "read", op |-> "scavenge", list |-> 0, item |-> <<>>,
                     stamp |-> 0, slot |-> 0, prior |-> 0]
    <2>1. /\ gc' = [gc EXCEPT ![t] = h] /\ local' = [local EXCEPT ![t] = Idle]
          /\ UNCHANGED <<fixed, listVars>> /\ current_epoch' = current_epoch + 1
      BY <1>10 DEF ScavengeList, Scavenge, BumpCurrentEpoch, GcGoto, Return
    <2>2. CallOK(h) /\ h.pc = "read"
      BY <1>1 DEF CallOK, IsCall, Slots
    <2>3. kind = "list" => tail' = [l \in {0} |-> tail'[l]] /\ tail'[0] \in Int
      BY <2>1 DEF SlotInv, listVars
    <2> HIDE DEF h
    <2> QED
      BY <1>2, <2>1, <2>2, <2>3, ClaimsNothing DEF listVars
  <1>11. ASSUME NewThreads \/ ClosePool \/ UNCHANGED vars PROVE SlotInv'
    <2>1. UNCHANGED <<fixed, listVars, gc, current_epoch, local>>
      BY <1>11 DEF NewThreads, ClosePool, vars, clientVars, epochVars
    <2> QED
      BY <1>1, <2>1, Unrelated
  <1>12. ASSUME NEW t, Close(t) PROVE SlotInv'
    <2>1. /\ UNCHANGED <<fixed, gc, current_epoch, local>> /\ kind = "list"
          /\ items' = [items EXCEPT ![0] = [s \in Slots |-> Empty]]
          /\ tail' = [tail EXCEPT ![0] = 0]
          /\ \A u \in Threads : gc[u].pc = "idle"
      BY <1>12 DEF Close, Uninitialize, AllDone, GcAt, clientVars, epochVars
    <2>2. /\ Slots' = Slots /\ EntryOK(Empty) /\ SlotExclusive'
          /\ (\A u \in Threads : CallOK(gc[u]))' /\ (\A u \in Threads : CallerOK(local[u]))'
      BY <2>1 DEF SlotInv, CallOK, IsCall, CallerOK, EntryOK, Empty, SlotExclusive, fixed,
                  Slots
    <2>3. /\ items' = [l \in {0} |-> items'[l]] /\ items'[0] = [s \in Slots |-> items'[0][s]]
          /\ tail' = [l \in {0} |-> tail'[l]] /\ tail'[0] \in Int
          /\ \A s \in Slots : items'[0][s] = Empty
      <3>1. items' = [l \in {0} |-> [s \in Slots |-> Empty]] /\ tail' = [l \in {0} |-> 0]
        BY <2>1 DEF SlotInv
      <3> QED
        BY <3>1
    <2>4. (\A s \in Slots : EntryOK(items[0][s]))'
      BY <2>2, <2>3 DEF EntryOK, Invalid
    <2> QED
      BY <1>1, <2>1, <2>2, <2>3, <2>4 DEF SlotInv, fixed
  <1>13. ASSUME NEW t \in Threads, Step(t) PROVE SlotInv'
    BY <1>3, <1>4, <1>5, <1>6, <1>7, <1>8, <1>9, <1>10, <1>13, CollectStep DEF Step
  <1> QED
    BY <1>11, <1>12, <1>13 DEF Next

(***************************************************************************)
(* The compare-exchange of removal_epoch in GarbageList::Push and Scavenge *)
(* gives each slot of the shared list one owner at a time, which finds in  *)
(* it the item whose epoch it read, for any number of threads and slots.   *)
(***************************************************************************)
THEOREM SlotsAreExclusive == Spec => []SlotExclusive
  <1>1. SlotInv => SlotExclusive
    BY DEF SlotInv
  <1> QED
    BY <1>1, SlotInit, SlotStep, PTL DEF Spec

-----------------------------------------------------------------------------

(* A slab, cut from the memory of its node. *)
SlabOK(s) ==
  /\ s = [node |-> s.node, memory |-> s.memory, allocated |-> s.allocated]
  /\ s.node \in Nodes /\ s.memory \in Nat /\ s.allocated \in Nat
  /\ s.memory + SlabSize <= numa_allocated[s.node]

(* A block with its header. *)
BlockOK(b) ==
  /\ b[1] \in Nodes /\ b[2] \in Nat /\ size[b] \in Nat
  /\ CacheLineSize <= b[2] /\ b[2] + size[b] <= numa_allocated[b[1]]

(* Block b does not reach into what is left of slab s. *)
OutsideRest(b, s) ==
  b[1] = s.node => \/ b[2] + size[b] <= s.memory + s.allocated
                   \/ s.memory + SlabSize <= b[2] - CacheLineSize

Apart(s, r) ==
  s.node = r.node => \/ s.memory + SlabSize <= r.memory
                     \/ r.memory + SlabSize <= s.memory

SlabsInv ==
  /\ numa_allocated = [n \in Nodes |-> numa_allocated[n]]
  /\ \A n \in Nodes : numa_allocated[n] \in Nat
  /\ slab = [t \in Threads |-> slab[t]]
  /\ \A t \in Threads : slab[t] # NoSlab => SlabOK(slab[t])
  /\ \A t, u \in Threads :
       t # u /\ slab[t] # NoSlab /\ slab[u] # NoSlab => Apart(slab[t], slab[u])
  /\ \A b \in DOMAIN size : BlockOK(b)
  /\ \A b \in DOMAIN size, t \in Threads : slab[t] # NoSlab => OutsideRest(b, slab[t])
  /\ BlocksDisjoint

(* A thread that is in the middle of a call is at this call of its script. *)
CallInv ==
  /\ kind \in Kinds
  /\ local = [t \in Threads |-> local[t]]
  /\ next = [t \in Threads |-> next[t]]
  /\ \A t \in Threads :
       /\ next[t] \in Nat \ {0}
       /\ local[t].pc # "idle" => Calls(t, {"mwcas", "abort", "reserve", "swap"})

AllocInv == SlabsInv /\ CallInv

-----------------------------------------------------------------------------

(* What is cut is at least a header. *)
LEMMA RoundedOK ==
  ASSUME NEW n \in Nat
  PROVE  Rounded(n) \in Nat /\ CacheLineSize <= Rounded(n)
  <1> DEFINE c == CacheLineSize
             a == n + 2 * c - 1
             q == a \div c
  <1>1. c \in Nat \ {0} /\ a \in Nat /\ c <= a
    BY SizeAssumption
  <1> HIDE DEF c, a
  <1>2. q \in Int /\ a = c * q + (a % c) /\ a % c \in 0 .. c - 1
    BY <1>1
  <1> HIDE DEF q
  <1>3. q >= 1
    BY <1>1, <1>2
  <1>4. q * c >= c
    BY <1>1, <1>2, <1>3
  <1> QED
    BY <1>1, <1>2, <1>4 DEF Rounded, c, a, q

(* The blocks of the loader. *)
LEMMA SlabsInit == Init => SlabsInv
  <1> SUFFICES ASSUME Init PROVE SlabsInv
    OBVIOUS
  <1> DEFINE n0 == CHOOSE n \in Nodes : TRUE
             r == Rounded(1)
  <1>1. /\ n0 \in Nodes /\ r \in Nat /\ CacheLineSize <= r /\ CacheLineSize \in Nat \ {0}
        /\ SlabSize \in Nat
    BY RoundedOK, LoadedAssumption, SizeAssumption
  <1>2. /\ DOMAIN size = {<<n0, (a - 1) * r + CacheLineSize>> : a \in Addrs}
        /\ \A b \in DOMAIN size : size[b] = r - CacheLineSize
        /\ slab = [t \in Threads |-> NoSlab]
        /\ numa_allocated = [n \in Nodes |->
             IF \E b \in DOMAIN size : b[1] = n THEN SlabSize ELSE 0]
    BY DEF Init, AllocInit, InitialBlock, DataSize
  <1> HIDE DEF n0, r
  <1>3. ASSUME NEW a \in Addrs
        PROVE  a \in Nat \ {0} /\ (a - 1) * r \in Nat /\ (a - 1) * r + r <= SlabSize
    BY <1>1, LoadedAssumption DEF r
  <1>4. ASSUME NEW a \in Addrs, NEW b \in Addrs, a < b
        PROVE  (a - 1) * r + r <= (b - 1) * r
    <2>1. a \in Nat /\ b \in Nat /\ a <= b - 1
      BY <1>3, <1>4
    <2>2. a * r <= (b - 1) * r
      BY <1>1, <2>1
    <2> QED
      BY <1>1, <2>1, <2>2
  <1>5. ASSUME NEW b \in DOMAIN size PROVE BlockOK(b) /\ b[1] = n0
    <2>1. PICK a \in Addrs : b = <<n0, (a - 1) * r + CacheLineSize>>
      BY <1>2
    <2>2. numa_allocated[n0] = SlabSize
      BY <1>1, <1>2, <2>1
    <2> QED
      BY <1>1, <1>2, <1>3, <2>1, <2>2 DEF BlockOK
  <1>6. BlocksDisjoint
    <2> SUFFICES ASSUME NEW b \in DOMAIN size, NEW c \in DOMAIN size, b # c, b[1] = c[1]
                 PROVE  \/ b[2] + size[b] <= c[2] - CacheLineSize
                        \/ c[2] + size[c] <= b[2] - CacheLineSize
      BY DEF BlocksDisjoint
    <2>1. PICK x \in Addrs : b = <<n0, (x - 1) * r + CacheLineSize>>
      BY <1>2
    <2>2. PICK y \in Addrs : c = <<n0, (y - 1) * r + CacheLineSize>>
      BY <1>2
    <2>3. x < y \/ y < x
      BY <1>3, <2>1, <2>2
    <2>4. \/ (x - 1) * r + r <= (y - 1) * r
          \/ (y - 1) * r + r <= (x - 1) * r
      BY <1>4, <2>3
    <2> QED
      BY <1>1, <1>2, <1>3, <2>1, <2>2, <2>4
  <1> QED
    BY <1>1, <1>2, <1>5, <1>6 DEF SlabsInv

(***************************************************************************)
(* The next block of a slab, of which no block has yet the rest, and which *)
(* is apart from the slabs of the other threads.                           *)
(***************************************************************************)
LEMMA CutStep ==
  ASSUME SlabsInv, NEW t \in Threads, NEW n \in Nat, NEW s, Cut(t, n, s),
         s = [node |-> s.node, memory |-> s.memory, allocated |-> s.allocated],
         s.node \in Nodes, s.memory \in Nat, s.allocated \in Nat,
         s.allocated + Rounded(n) <= SlabSize,
         numa_allocated' = [m \in Nodes |-> numa_allocated'[m]],
         \A m \in Nodes : /\ numa_allocated'[m] \in Nat
                          /\ numa_allocated[m] <= numa_allocated'[m],
         s.memory + SlabSize <= numa_allocated'[s.node],
         \A u \in Threads \ {t} : slab[u] # NoSlab => Apart(s, slab[u]),
         \A b \in DOMAIN size : OutsideRest(b, s)
  PROVE  SlabsInv'
  <1> DEFINE r == Rounded(n)
             start == s.memory + s.allocated
             new == <<s.node, start + CacheLineSize>>
             rest == [node |-> s.node, memory |-> s.memory, allocated |-> s.allocated + r]
  <1>1. /\ r \in Nat /\ CacheLineSize <= r /\ CacheLineSize \in Nat \ {0} /\ SlabSize \in Nat
        /\ s.allocated + r <= SlabSize /\ \A m \in Nodes : numa_allocated[m] \in Nat
    BY RoundedOK, SizeAssumption DEF SlabsInv
  <1>2. /\ slab' = [slab EXCEPT ![t] = rest]
        /\ DOMAIN size' = DOMAIN size \union {new}
        /\ size'[new] = r - CacheLineSize
        /\ \A b \in DOMAIN size \ {new} : size'[b] = size[b]
    <2>1. rest = [s EXCEPT !.allocated = @ + r]
      OBVIOUS
    <2>2. slab' = [slab EXCEPT ![t] = rest]
      BY <2>1 DEF Cut
    <2>3. size' = [b \in DOMAIN size \union {new} |->
                     IF b = new THEN r - CacheLineSize ELSE size[b]]
      BY DEF Cut, NextData, DataSize
    <2> HIDE DEF new, r, rest
    <2> QED
      BY <2>2, <2>3
  <1> HIDE DEF r
  <1>3. new \notin DOMAIN size
    <2> SUFFICES ASSUME new \in DOMAIN size PROVE FALSE
      OBVIOUS
    <2>1. BlockOK(new) /\ OutsideRest(new, s)
      BY DEF SlabsInv
    <2>2. new[1] = s.node /\ new[2] = start + CacheLineSize /\ size[new] \in Nat
      BY <2>1 DEF BlockOK
    <2> HIDE DEF new
    <2>3. \/ new[2] + size[new] <= s.memory + s.allocated
          \/ s.memory + SlabSize <= new[2] - CacheLineSize
      BY <2>1, <2>2 DEF OutsideRest
    <2> DEFINE z == size[new]
    <2>4. z \in Nat /\ (start + CacheLineSize + z <= start \/ s.memory + SlabSize <= start)
      BY <1>1, <2>2, <2>3
    <2> HIDE DEF z
    <2> QED
      BY <1>1, <2>4
  <1>4. /\ new[1] = s.node /\ new[2] = start + CacheLineSize
        /\ \A b \in DOMAIN size : size'[b] = size[b]
    BY <1>2, <1>3
  <1>5. \A u \in Threads : slab'[u] = IF u = t THEN rest ELSE slab[u]
    BY <1>2 DEF SlabsInv
  <1> HIDE DEF new
  <1>6. (\A b \in DOMAIN size : BlockOK(b))'
    <2>1. ASSUME NEW b \in DOMAIN size PROVE BlockOK(b)'
      <3>1. BlockOK(b)
        BY DEF SlabsInv
      <3> QED
        BY <1>1, <1>4, <3>1 DEF BlockOK
    <2>2. BlockOK(new)'
      BY <1>1, <1>2, <1>4 DEF BlockOK
    <2> QED
      BY <1>2, <2>1, <2>2
  <1>7. (\A u \in Threads : slab[u] # NoSlab => SlabOK(slab[u]))'
    <2>1. SlabOK(rest)'
      BY <1>1 DEF SlabOK
    <2>2. ASSUME NEW u \in Threads, slab[u] # NoSlab PROVE SlabOK(slab[u])' \/ u = t
      <3>1. SlabOK(slab[u])
        BY <2>2 DEF SlabsInv
      <3> QED
        BY <1>1, <1>5, <3>1 DEF SlabOK
    <2> QED
      BY <1>5, <2>1, <2>2
  <1>8. \A u, v \in Threads :
          u # v /\ slab'[u] # NoSlab /\ slab'[v] # NoSlab => Apart(slab'[u], slab'[v])
    <2>1. ASSUME NEW u \in Threads \ {t}, slab[u] # NoSlab
          PROVE  Apart(rest, slab[u]) /\ Apart(slab[u], rest)
      BY <2>1 DEF Apart
    <2> HIDE DEF rest
    <2> QED
      BY <1>5, <2>1 DEF SlabsInv
  <1>9. \A b \in DOMAIN size', u \in Threads : slab'[u] # NoSlab => OutsideRest(b, slab[u])'
    <2>1. ASSUME NEW b \in DOMAIN size PROVE OutsideRest(b, rest)'
      <3>1. BlockOK(b) /\ OutsideRest(b, s)
        BY DEF SlabsInv
      <3> QED
        BY <1>1, <1>4, <3>1 DEF OutsideRest, BlockOK
    <2>2. OutsideRest(new, rest)'
      BY <1>1, <1>2, <1>4 DEF OutsideRest
    <2>3. ASSUME NEW u \in Threads \ {t}, slab[u] # NoSlab PROVE OutsideRest(new, slab[u])'
      <3>1. SlabOK(slab[u]) /\ Apart(s, slab[u]) /\ slab'[u] = slab[u]
        BY <1>5, <2>3 DEF SlabsInv
      <3> QED
        BY <1>1, <1>2, <1>4, <3>1 DEF OutsideRest, SlabOK, Apart
    <2>4. ASSUME NEW b \in DOMAIN size, NEW u \in Threads \ {t}, slab[u] # NoSlab
          PROVE  OutsideRest(b, slab[u])'
      <3>1. OutsideRest(b, slab[u]) /\ slab'[u] = slab[u]
        BY <1>5, <2>4 DEF SlabsInv
      <3> QED
        BY <1>4, <3>1 DEF OutsideRest
    <2> HIDE DEF rest
    <2>5. ASSUME NEW b \in DOMAIN size' PROVE OutsideRest(b, slab[t])'
      BY <1>2, <1>5, <2>1, <2>2 DEF OutsideRest
    <2> QED
      BY <1>2, <1>5, <2>3, <2>4, <2>5
  <1>10. BlocksDisjoint'
    <2>1. ASSUME NEW b \in DOMAIN size, b[1] = new[1]
          PROVE  \/ b[2] + size'[b] <= new[2] - CacheLineSize
                 \/ new[2] + size'[new] <= b[2] - CacheLineSize
      <3>1. BlockOK(b) /\ OutsideRest(b, s)
        BY DEF SlabsInv
      <3> QED
        BY <1>1, <1>2, <1>4, <2>1, <3>1 DEF OutsideRest, BlockOK
    <2> QED
      BY <1>2, <1>4, <2>1 DEF BlocksDisjoint, SlabsInv
  <1> QED
    BY <1>2, <1>5, <1>6, <1>7, <1>8, <1>9, <1>10 DEF SlabsInv, Apart

(* A step that neither cuts blocks nor slabs. *)
LEMMA NothingCut ==
  ASSUME SlabsInv, UNCHANGED <<numa_allocated, slab, size>>
  PROVE  SlabsInv'
  BY DEF SlabsInv, SlabOK, BlockOK, OutsideRest, BlocksDisjoint

(* An allocation, from a chain, the thread's slab or a new one. *)
LEMMA AllocateStep ==
  ASSUME SlabsInv, NEW t \in Threads, NEW n \in Nat, NEW node \in Nodes, Allocate(t, n, node)
  PROVE  SlabsInv'
  <1>1. CASE AllocateChained(t, n)
    BY <1>1, NothingCut DEF AllocateChained
  <1>2. CASE AllocateFromSlab(t, n)
    <2> DEFINE s == slab[t]
    <2>1. /\ Cut(t, n, s) /\ numa_allocated' = numa_allocated /\ s # NoSlab
          /\ s.allocated + Rounded(n) <= SlabSize
      BY <1>2 DEF AllocateFromSlab, Fits
    <2>2. /\ SlabOK(s) /\ \A b \in DOMAIN size : OutsideRest(b, s)
          /\ \A u \in Threads \ {t} : slab[u] # NoSlab => Apart(s, slab[u])
          /\ numa_allocated = [m \in Nodes |-> numa_allocated[m]]
          /\ \A m \in Nodes : numa_allocated[m] \in Nat
      BY <2>1 DEF SlabsInv
    <2> HIDE DEF s
    <2>3. /\ s = [node |-> s.node, memory |-> s.memory, allocated |-> s.allocated]
          /\ s.node \in Nodes /\ s.memory \in Nat /\ s.allocated \in Nat
          /\ s.memory + SlabSize <= numa_allocated'[s.node]
      BY <2>1, <2>2 DEF SlabOK
    <2>4. /\ numa_allocated' = [m \in Nodes |-> numa_allocated'[m]]
          /\ \A m \in Nodes : /\ numa_allocated'[m] \in Nat
                              /\ numa_allocated[m] <= numa_allocated'[m]
      BY <2>1, <2>2
    <2> QED
      BY <2>1, <2>2, <2>3, <2>4, CutStep
  <1>3. CASE AllocateNewSlab(t, n, node)
    <2> DEFINE s == NewSlab(node)
    <2>1. /\ Cut(t, n, s) /\ Rounded(n) <= SlabSize
          /\ numa_allocated' = [numa_allocated EXCEPT ![node] = @ + SlabSize]
      BY <1>3 DEF AllocateNewSlab
    <2>2. /\ SlabSize \in Nat /\ Rounded(n) \in Nat
          /\ numa_allocated = [m \in Nodes |-> numa_allocated[m]]
          /\ \A m \in Nodes : numa_allocated[m] \in Nat
      BY SizeAssumption, RoundedOK DEF SlabsInv
    <2>3. /\ s = [node |-> s.node, memory |-> s.memory, allocated |-> s.allocated]
          /\ s.node = node /\ s.memory = numa_allocated[node] /\ s.allocated = 0
      BY DEF NewSlab
    <2> HIDE DEF s
    <2>4. /\ numa_allocated' = [m \in Nodes |-> numa_allocated'[m]]
          /\ \A m \in Nodes : /\ numa_allocated'[m] \in Nat
                              /\ numa_allocated[m] <= numa_allocated'[m]
          /\ s.memory + SlabSize <= numa_allocated'[s.node]
          /\ s.memory \in Nat /\ s.allocated \in Nat /\ s.allocated + Rounded(n) <= SlabSize
      BY <2>1, <2>2, <2>3
    <2>5. ASSUME NEW u \in Threads \ {t}, slab[u] # NoSlab PROVE Apart(s, slab[u])
      BY <2>2, <2>3, <2>5 DEF SlabsInv, SlabOK, Apart
    <2>6. ASSUME NEW b \in DOMAIN size PROVE OutsideRest(b, s)
      BY <2>2, <2>3 DEF SlabsInv, BlockOK, OutsideRest
    <2> QED
      BY <2>1, <2>3, <2>4, <2>5, <2>6, CutStep
  <1> QED
    BY <1>1, <1>2, <1>3 DEF Allocate

(* New threads start without slabs. *)
LEMMA FreshStep ==
  ASSUME SlabsInv, FreshTls
  PROVE  SlabsInv'
  <1>1. /\ slab' = [t \in Threads |-> NoSlab] /\ UNCHANGED <<numa_allocated, size>>
    BY DEF FreshTls
  <1> QED
    BY <1>1 DEF SlabsInv, BlockOK, BlocksDisjoint

(* What a thread asks for in the middle of a call that allocates. *)
LEMMA RequestOK ==
  ASSUME CallInv, NEW t \in Threads, Calls(t, {"mwcas", "abort", "swap"})
  PROVE  Op(t).size \in Nat
  <1>1. /\ next[t] \in Nat \ {0} /\ kind \in Kinds /\ next[t] <= Len(Script[kind][t])
        /\ Script[kind][t][next[t]].op \in {"mwcas", "abort", "swap"}
    BY DEF CallInv, Calls, Op
  <1>2. next[t] \in 1 .. Len(Script[kind][t])
    BY <1>1 DEF CallInv
  <1> QED
    BY <1>1, <1>2, RequestAssumption DEF Op

(* Every step leaves each thread at its call. *)
LEMMA CallInvStep == CallInv /\ [Next]_vars => CallInv'
  <1> SUFFICES ASSUME CallInv, [Next]_vars PROVE CallInv'
    OBVIOUS
  <1> USE DEF CallInv
  <1>1. ASSUME UNCHANGED <<fixed, local, next>> PROVE CallInv'
    BY <1>1 DEF fixed, Calls, Op
  <1>2. ASSUME NEW t \in Threads, Return(t) PROVE CallInv'
    <2>1. /\ local' = [local EXCEPT ![t] = Idle] /\ next' = [next EXCEPT ![t] = @ + 1]
          /\ kind' = kind
      BY <1>2 DEF Return, fixed
    <2>2. local'[t].pc = "idle" /\ next'[t] \in Nat \ {0}
      BY <2>1 DEF Idle
    <2>3. \A u \in Threads \ {t} : local'[u] = local[u] /\ next'[u] = next[u]
      BY <2>1
    <2> QED
      BY <2>1, <2>2, <2>3 DEF Calls, Op
  <1>3. ASSUME NEW t \in Threads, NEW l, local' = [local EXCEPT ![t] = l],
               UNCHANGED <<fixed, next>>, Calls(t, {"mwcas", "abort", "reserve", "swap"})
        PROVE  CallInv'
    BY <1>3 DEF fixed, Calls, Op
  <1>4. ASSUME NEW t \in Threads, NEW l, Goto(t, l), local[t].pc # "idle" PROVE CallInv'
    BY <1>3, <1>4 DEF Goto
  <1>5. ASSUME NEW t \in Threads, NEW a, Help(t, a) PROVE CallInv'
    BY <1>1, <1>5 DEF Help
  <1>6. ASSUME NEW t \in Threads, Step(t) PROVE CallInv'
    <2>1. CASE EnterRegion(t) \/ LeaveRegion(t) \/ Abort(t) \/ Cleanup(t) \/ PushOld(t)
                 \/ ScavengeList(t)
      BY <1>2, <2>1 DEF EnterRegion, LeaveRegion, Abort, Cleanup, PushOld, ScavengeList
    <2>2. CASE AllocateDescriptor(t)
      <3>1. /\ UNCHANGED <<fixed, next>> /\ Calls(t, {"mwcas", "abort", "reserve", "swap"})
            /\ UNCHANGED local \/ \E l : local' = [local EXCEPT ![t] = l]
        BY <2>2 DEF AllocateDescriptor, UsesPool, Calls
      <3> QED
        BY <1>1, <1>3, <3>1
    <2>3. CASE AddEntry(t)
      BY <1>4, <1>5, <2>3 DEF AddEntry, At
    <2>4. CASE Install(t)
      BY <1>4, <1>5, <2>4 DEF Install, At
    <2>5. CASE Finish(t)
      BY <1>4, <2>5 DEF Finish, At
    <2>6. CASE Prepare(t)
      <3>1. /\ \E l : Goto(t, l)
            /\ Calls(t, {"mwcas", "abort", "reserve", "swap"})
        BY <2>6 DEF Prepare, Calls
      <3> QED
        BY <1>3, <3>1 DEF Goto
    <2>7. CASE Swap(t)
      BY <1>2, <1>4, <2>7 DEF Swap, At
    <2>8. CASE Collect(t)
      BY <1>1, <2>8 DEF Collect
    <2> QED
      BY <1>6, <2>1, <2>2, <2>3, <2>4, <2>5, <2>6, <2>7, <2>8 DEF Step
  <1>7. CASE NewThreads
    <2>1. /\ \A t \in Threads : local[t].pc = "idle"
          /\ next' = [t \in Threads |-> next[t] + 1] /\ UNCHANGED <<kind, local>>
      BY <1>7 DEF NewThreads, At, fixed
    <2> QED
      BY <2>1
  <1>8. ASSUME NEW t, ClosePool \/ Close(t) \/ UNCHANGED vars PROVE CallInv'
    BY <1>1, <1>8 DEF ClosePool, Close, vars, clientVars
  <1> QED
    BY <1>6, <1>7, <1>8 DEF Next

(* Every step keeps slabs and blocks apart. *)
LEMMA SlabsStep == SlabsInv /\ CallInv /\ [Next]_vars => SlabsInv'
  <1> SUFFICES ASSUME SlabsInv, CallInv, [Next]_vars PROVE SlabsInv'
    OBVIOUS
  <1>1. ASSUME UNCHANGED allocVars PROVE SlabsInv'
    BY <1>1, NothingCut DEF allocVars
  <1>2. ASSUME NEW t, NEW blocks, FreeAll(t, blocks) PROVE SlabsInv'
    BY <1>2, NothingCut DEF FreeAll
  <1>3. ASSUME NEW t \in Threads, Step(t) PROVE SlabsInv'
    <2>1. CASE EnterRegion(t) \/ LeaveRegion(t) \/ Abort(t) \/ Cleanup(t) \/ PushOld(t)
                 \/ ScavengeList(t) \/ AllocateDescriptor(t) \/ Finish(t)
      BY <1>1, <2>1 DEF EnterRegion, LeaveRegion, Abort, Cleanup, PushOld, ScavengeList,
                        AllocateDescriptor, Finish
    <2>2. CASE AddEntry(t)
      <3>1. \/ UNCHANGED allocVars
            \/ /\ Op(t).op # "reserve" /\ local[t].pc = "fill"
               /\ \E node \in Nodes : Allocate(t, Op(t).size, node)
        BY <2>2 DEF AddEntry, Help, At
      <3>2. CASE Op(t).op # "reserve" /\ local[t].pc = "fill"
        <4>1. Calls(t, {"mwcas", "abort", "swap"})
          BY <3>2 DEF CallInv, Calls
        <4> QED
          BY <1>1, <3>1, <4>1, RequestOK, AllocateStep
      <3> QED
        BY <1>1, <3>1, <3>2
    <2>3. CASE Install(t)
      BY <1>1, <2>3 DEF Install, Help
    <2>4. CASE Prepare(t)
      <3>1. /\ Calls(t, {"mwcas", "abort", "swap"})
            /\ \E node \in Nodes : Allocate(t, Op(t).size, node)
        BY <2>4 DEF Prepare, Calls
      <3> QED
        BY <3>1, RequestOK, AllocateStep
    <2>5. CASE Swap(t)
      BY <1>1, <1>2, <2>5 DEF Swap
    <2>6. CASE Collect(t)
      <3>1. UNCHANGED allocVars \/ \E blocks : FreeAll(t, blocks)
        BY <2>6 DEF Collect, DestroyDescriptor, DestroyBlock,
                    FreeDescriptor
      <3> QED
        BY <1>1, <1>2, <3>1
    <2> QED
      BY <1>3, <2>1, <2>2, <2>3, <2>4, <2>5, <2>6 DEF Step
  <1>4. CASE NewThreads
    BY <1>4, FreshStep DEF NewThreads
  <1>5. ASSUME NEW t, ClosePool \/ Close(t) \/ UNCHANGED vars PROVE SlabsInv'
    BY <1>1, <1>2, <1>5 DEF ClosePool, Close, vars
  <1> QED
    BY <1>3, <1>4, <1>5 DEF Next

(***************************************************************************)
(* TlsAllocator: blocks that threads have been given never share a byte,   *)
(* header included, for any number of threads and nodes and any sizes of   *)
(* cache lines, slabs and requests.                                        *)
(***************************************************************************)
THEOREM BlocksAreDisjoint == Spec => []BlocksDisjoint
  <1>1. Init => AllocInv
    BY SlabsInit DEF AllocInv, CallInv, Init, Idle
  <1>2. AllocInv /\ [Next]_vars => AllocInv'
    BY SlabsStep, CallInvStep DEF AllocInv
  <1>3. AllocInv => BlocksDisjoint
    BY DEF AllocInv, SlabsInv
  <1> QED
    BY <1>1, <1>2, <1>3, PTL DEF Spec

-----------------------------------------------------------------------------

(* Partitions *)

(* A set of positions of a sequence has a last one. *)
LEMMA LastPosition ==
  ASSUME NEW n \in Nat, NEW S \in SUBSET (1 .. n), S # {}
  PROVE  Max(S) \in S
  <1> DEFINE T == {n - k : k \in S}
  <1>1. T \subseteq Nat /\ T # {}
    <2>1. \A k \in S : n - k \in Nat
      OBVIOUS
    <2> QED
      BY <2>1
  <1>2. PICK x \in T : \A y \in T : ~(<<y, x>> \in OpToRel(<, Nat))
    <2> HIDE DEF T
    <2> QED
      BY <1>1, WFMin, NatLessThanWellFounded
  <1>3. \A y \in T : ~(y < x)
    BY <1>1, <1>2 DEF OpToRel
  <1>4. PICK k \in S : x = n - k
    OBVIOUS
  <1>5. \A m \in S : n - m \in T
    OBVIOUS
  <1> HIDE DEF T
  <1>6. \A m \in S : k >= m
    BY <1>3, <1>4, <1>5
  <1> QED
    BY <1>6 DEF Max

(* The next n numbers have different remainders. *)
LEMMA Remainders ==
  ASSUME NEW n \in Nat \ {0}, NEW a \in Nat, NEW k \in 1 .. n - 1
  PROVE  (a + k) % n # a % n
  <1>1. PICK q \in Nat, r \in 0 .. n - 1 : a = n * q + r /\ a % n = r
    OBVIOUS
  <1>2. PICK p \in Nat, s \in 0 .. n - 1 : a + k = n * p + s /\ (a + k) % n = s
    OBVIOUS
  <1>3. r = s => k = n * (p - q)
    BY <1>1, <1>2
  <1>4. \A z \in Int : z <= 0 \/ n * z >= n
    OBVIOUS
  <1>5. \A z \in Int : z > 0 \/ n * z <= 0
    OBVIOUS
  <1> QED
    BY <1>1, <1>2, <1>3, <1>4, <1>5

(* What RegisterTls notes down: the thread's own variable, and no partition. *)
RegistryInv ==
  /\ registry = [t \in Threads |-> registry[t]]
  /\ \A t \in Threads : registry[t] \in Seq([ptr : {t}, val : {NoPartition}])
  /\ tls_part = [t \in Threads |-> tls_part[t]]
  /\ TlsRegistered

(* Reset leaves a variable alone that is not in the list, and else clears it. *)
LEMMA ResetClears ==
  ASSUME NEW n \in Nat, NEW list, DOMAIN list = 1 .. n, NEW tls, NEW t \in DOMAIN tls,
         \A i \in 1 .. n : list[i].val = NoPartition
  PROVE  \/ Reset(tls, list)[t] = NoPartition
         \/ /\ Reset(tls, list)[t] = tls[t]
            /\ \A i \in 1 .. n : list[i].ptr # t
  <1>1. PICK mine : mine = {i \in DOMAIN list : list[i].ptr = t}
    OBVIOUS
  <1>2. Reset(tls, list)[t] = IF mine = {} THEN tls[t] ELSE list[Max(mine)].val
    BY <1>1 DEF Reset
  <1>3. CASE mine = {}
    BY <1>1, <1>2, <1>3
  <1>4. CASE mine # {}
    <2>1. mine \in SUBSET (1 .. n)
      BY <1>1
    <2>2. Max(mine) \in 1 .. n
      BY <1>4, <2>1, LastPosition
    <2> QED
      BY <1>2, <1>4, <2>2
  <1> QED
    BY <1>3, <1>4

LEMMA TlsListFacts ==
  ASSUME RegistryInv, NEW t \in Threads
  PROVE  /\ DOMAIN registry[t] = 1 .. Len(registry[t]) /\ Len(registry[t]) \in Nat
         /\ \A i \in 1 .. Len(registry[t]) :
              registry[t][i].val = NoPartition /\ registry[t][i].ptr = t
  <1>1. PICK list, R : list = registry[t] /\ R = [ptr : {t}, val : {NoPartition}]
    OBVIOUS
  <1>2. list \in Seq(R)
    BY <1>1 DEF RegistryInv
  <1>3. DOMAIN list = 1 .. Len(list) /\ Len(list) \in Nat
    BY <1>2
  <1>4. \A i \in 1 .. Len(list) : list[i] \in R
    BY <1>2
  <1>5. \A e \in R : e.ptr = t /\ e.val = NoPartition
    BY <1>1
  <1> QED
    BY <1>1, <1>3, <1>4, <1>5

(* A step that touches no partition and no TlsList. *)
LEMMA RegistryStutter == RegistryInv /\ UNCHANGED partVars => RegistryInv'
  BY DEF RegistryInv, partVars, TlsRegistered

LEMMA RegistryTake ==
  ASSUME RegistryInv, NEW t \in Threads, TakePartition(t)
  PROVE  RegistryInv'
  <1>1. PICK e, new : e = [ptr |-> t, val |-> NoPartition] /\ new = Append(registry[t], e)
    OBVIOUS
  <1>2. registry[t] \in Seq([ptr : {t}, val : {NoPartition}])
    BY DEF RegistryInv
  <1>3. e \in [ptr : {t}, val : {NoPartition}]
    BY <1>1
  <1>4. new \in Seq([ptr : {t}, val : {NoPartition}]) /\ e \in Range(new)
    <2>1. /\ new \in Seq([ptr : {t}, val : {NoPartition}])
          /\ Len(new) \in DOMAIN new /\ new[Len(new)] = e
      BY <1>1, <1>2, <1>3
    <2> QED
      BY <2>1 DEF Range
  <1>5. /\ registry' = [registry EXCEPT ![t] = new]
        /\ tls_part' = [tls_part EXCEPT ![t] = next_partition % partition_count]
    BY <1>1 DEF TakePartition, RegisterTls
  <1>6. \A u \in Threads : u # t => registry'[u] = registry[u] /\ tls_part'[u] = tls_part[u]
    BY <1>5 DEF RegistryInv
  <1>7. registry'[t] = new
    BY <1>5 DEF RegistryInv
  <1>8. /\ registry' = [u \in Threads |-> registry'[u]]
        /\ tls_part' = [u \in Threads |-> tls_part'[u]]
    BY <1>5 DEF RegistryInv
  <1> QED
    BY <1>1, <1>4, <1>6, <1>7, <1>8 DEF RegistryInv, TlsRegistered

(* New threads have no partition, whatever join finds. *)
LEMMA RegistryJoin ==
  ASSUME RegistryInv, join([t \in Threads |-> NoPartition], tls_part')
  PROVE  RegistryInv' /\ tls_part' = [t \in Threads |-> NoPartition]
  <1>1. PICK tls : tls = [t \in Threads |-> NoPartition]
    OBVIOUS
  <1>2. CASE NoId \in DOMAIN registry
    <2>1. /\ NoId \in Threads /\ tls_part' = Reset(tls, registry[NoId])
          /\ registry' = [registry EXCEPT ![NoId] = <<>>]
      BY <1>1, <1>2 DEF join, ClearTls, RegistryInv
    <2>2. tls_part' = [t \in Threads |-> tls_part'[t]]
      BY <1>1, <2>1 DEF Reset
    <2>3. \A t \in Threads : tls_part'[t] = NoPartition
      BY <1>1, <2>1, ResetClears, TlsListFacts
    <2>4. /\ registry' = [t \in Threads |-> registry'[t]]
          /\ \A t \in Threads : registry'[t] \in {registry[t], <<>>}
      BY <2>1 DEF RegistryInv
    <2>5. \A t \in Threads : registry'[t] \in Seq([ptr : {t}, val : {NoPartition}])
      <3>1. \A R : <<>> \in Seq(R)
        OBVIOUS
      <3> QED
        BY <2>4, <3>1 DEF RegistryInv
    <2> QED
      BY <2>2, <2>3, <2>4, <2>5 DEF RegistryInv, TlsRegistered
  <1>3. CASE NoId \notin DOMAIN registry
    BY <1>3 DEF join, ClearTls, RegistryInv, TlsRegistered
  <1> QED
    BY <1>2, <1>3

(* ClearRegistry finds every variable that is in use. *)
LEMMA RegistryClear ==
  ASSUME RegistryInv, ClearRegistry(tls_part, tls_part')
  PROVE  RegistryInv' /\ tls_part' = [t \in Threads |-> NoPartition]
  <1>1. ASSUME NEW t \in Threads
        PROVE  Reset(tls_part, registry[t])[t] = NoPartition
    <2>1. t \in DOMAIN tls_part
      BY DEF RegistryInv
    <2>2. CASE tls_part[t] = NoPartition
      BY <2>1, <2>2, ResetClears, TlsListFacts
    <2>3. CASE tls_part[t] # NoPartition
      <3>1. [ptr |-> t, val |-> NoPartition] \in Range(registry[t])
        BY <2>3 DEF RegistryInv, TlsRegistered
      <3>2. \E i \in 1 .. Len(registry[t]) : registry[t][i].ptr = t
        BY <3>1, TlsListFacts DEF Range
      <3> QED
        BY <2>1, <3>2, ResetClears, TlsListFacts
    <2> QED
      BY <2>2, <2>3
  <1>2. tls_part' = [t \in Threads |-> NoPartition] /\ registry' = [t \in Threads |-> <<>>]
    BY <1>1 DEF ClearRegistry
  <1> QED
    BY <1>2 DEF RegistryInv, TlsRegistered

(***************************************************************************)
(* As many threads may still take a partition as the counter has           *)
(* partitions ahead of it that nobody has.                                 *)
(***************************************************************************)
Taken == {t \in Threads : tls_part[t] # NoPartition}

PartitionInv ==
  /\ next_partition \in Nat
  /\ PartitionsExclusive
  /\ \A k \in Nat : k < partition_count - Cardinality(Taken) =>
       \A t \in Threads : tls_part[t] # (next_partition + k) % partition_count

LEMMA NoneTaken ==
  ASSUME next_partition' \in Nat, tls_part' = [t \in Threads |-> NoPartition]
  PROVE  PartitionInv'
  <1>1. \A n \in Nat : n % partition_count # NoPartition
    BY PartitionCountAssumption DEF NoPartition
  <1>2. \A m, k \in Nat : m + k \in Nat
    OBVIOUS
  <1> QED
    BY <1>1, <1>2 DEF PartitionInv, PartitionsExclusive

LEMMA PartitionTake ==
  ASSUME IsFiniteSet(Threads), Cardinality(Threads) <= partition_count,
         RegistryInv, PartitionInv, NEW t \in Threads, TakePartition(t)
  PROVE  PartitionInv'
  <1>1. PICK p, c : p = next_partition % partition_count /\ c = Cardinality(Taken)
    OBVIOUS
  <1>2. /\ tls_part[t] = NoPartition /\ tls_part'[t] = p /\ next_partition' = next_partition + 1
        /\ \A u \in Threads : u # t => tls_part'[u] = tls_part[u]
    BY <1>1 DEF TakePartition, RegistryInv
  <1>3. next_partition \in Nat /\ partition_count \in Nat \ {0}
    BY PartitionCountAssumption DEF PartitionInv
  <1>4. p # NoPartition
    BY <1>1, <1>3 DEF NoPartition
  <1>5. Taken' = Taken \union {t} /\ t \notin Taken
    BY <1>2, <1>4 DEF Taken
  <1>6. IsFiniteSet(Taken) /\ Cardinality(Taken) \in Nat
    BY FS_Subset, FS_CardinalityType DEF Taken
  <1>7. Cardinality(Taken') = c + 1 /\ c \in Nat
    BY <1>1, <1>5, <1>6, FS_AddElement
  <1>8. c + 1 <= partition_count
    <2>1. Taken' \in SUBSET Threads
      BY <1>5 DEF Taken
    <2>2. Cardinality(Taken') <= Cardinality(Threads) /\ Cardinality(Threads) \in Nat
      BY <2>1, FS_Subset, FS_CardinalityType
    <2> QED
      BY <1>3, <1>7, <2>2
  <1>9. \A u \in Threads : tls_part[u] # p
    <2>1. 0 < partition_count - c /\ next_partition + 0 = next_partition
      BY <1>3, <1>7, <1>8
    <2> QED
      BY <1>1, <2>1 DEF PartitionInv
  <1>10. PartitionsExclusive'
    BY <1>2, <1>9 DEF PartitionsExclusive, PartitionInv
  <1>11. ASSUME NEW k \in Nat, k < partition_count - (c + 1), NEW u \in Threads
         PROVE  tls_part'[u] # (next_partition + 1 + k) % partition_count
    <2>1. /\ k + 1 \in Nat /\ k + 1 < partition_count - c /\ k + 1 \in 1 .. partition_count - 1
          /\ next_partition + 1 + k = next_partition + (k + 1)
      BY <1>3, <1>7, <1>11
    <2>2. tls_part[u] # (next_partition + (k + 1)) % partition_count
      BY <1>1, <2>1 DEF PartitionInv
    <2>3. p # (next_partition + (k + 1)) % partition_count
      BY <1>1, <1>3, <2>1, Remainders
    <2> QED
      BY <1>2, <2>1, <2>2, <2>3
  <1> QED
    BY <1>2, <1>3, <1>7, <1>10, <1>11 DEF PartitionInv

-----------------------------------------------------------------------------

(* All that a step may do to partitions and TlsLists. *)
LEMMA PartitionCases ==
  ASSUME [Next]_vars
  PROVE  \/ UNCHANGED partVars
         \/ \E t \in Threads : TakePartition(t)
         \/ /\ UNCHANGED next_partition
            /\ join([t \in Threads |-> NoPartition], tls_part')
         \/ UNCHANGED next_partition /\ ClearRegistry(tls_part, tls_part')
  <1>1. CASE UNCHANGED vars \/ \E t \in Threads : Step(t)
    <2>1. ASSUME NEW t \in Threads, AllocateDescriptor(t)
          PROVE  UNCHANGED partVars \/ TakePartition(t)
      BY <2>1 DEF AllocateDescriptor, TakeFree, poolVars
    <2>2. ASSUME NEW t \in Threads, NEW a, Help(t, a) PROVE UNCHANGED partVars
      BY <2>2 DEF Help
    <2>3. ASSUME NEW t \in Threads, AddEntry(t) \/ Install(t) \/ Abort(t) \/ Finish(t)
          PROVE  UNCHANGED partVars
      BY <2>2, <2>3 DEF AddEntry, Install, Abort, Finish
    <2>4. ASSUME NEW t \in Threads,
                 \/ EnterRegion(t) \/ LeaveRegion(t) \/ Cleanup(t) \/ Prepare(t) \/ Swap(t)
                 \/ PushOld(t) \/ ScavengeList(t)
          PROVE  UNCHANGED partVars
      BY <2>4 DEF EnterRegion, LeaveRegion, Cleanup, Prepare, Swap, PushOld, ScavengeList, poolVars
    <2>5. ASSUME NEW t \in Threads, Collect(t) PROVE UNCHANGED partVars
      BY <2>5 DEF Collect, DestroyDescriptor, DestroyBlock, FreeDescriptor, poolVars
    <2> QED
      BY <1>1, <2>1, <2>3, <2>4, <2>5 DEF Step, vars, poolVars
  <1>2. CASE NewThreads
    BY <1>2 DEF NewThreads
  <1>3. CASE ClosePool
    BY <1>3 DEF ClosePool
  <1>4. ASSUME NEW t, Close(t) PROVE UNCHANGED partVars
    BY <1>4 DEF Close, poolVars
  <1> QED
    BY <1>1, <1>2, <1>3, <1>4 DEF Next

LEMMA RegistryStart == Init => RegistryInv /\ PartitionInv
  <1> SUFFICES ASSUME Init PROVE RegistryInv /\ PartitionInv
    OBVIOUS
  <1>1. /\ registry = [t \in Threads |-> <<>>] /\ next_partition = 0
        /\ tls_part = [t \in Threads |-> NoPartition]
    BY DEF Init, PoolInit, BasePoolInit, RegistryInit
  <1>2. RegistryInv
    BY <1>1 DEF RegistryInv, TlsRegistered
  <1>3. PartitionInv
    <2>1. \A n \in Nat : n % partition_count # NoPartition
      BY PartitionCountAssumption DEF NoPartition
    <2>2. \A k \in Nat : next_partition + k \in Nat
      BY <1>1
    <2> QED
      BY <1>1, <2>1, <2>2 DEF PartitionInv, PartitionsExclusive
  <1> QED
    BY <1>2, <1>3

LEMMA RegistryStep == RegistryInv /\ [Next]_vars => RegistryInv'
  BY PartitionCases, RegistryStutter, RegistryTake, RegistryJoin, RegistryClear

(***************************************************************************)
(* Thread: while a thread has a partition, its variable tls_part is on the *)
(* TlsList of its id, so that ClearRegistry resets it, through any number  *)
(* of generations of threads that leave their entries behind when they are *)
(* joined.                                                                 *)
(***************************************************************************)
THEOREM PartitionsAreRegistered == Spec => []TlsRegistered
  <1>1. RegistryInv => TlsRegistered
    BY DEF RegistryInv
  <1> QED
    BY <1>1, RegistryStart, RegistryStep, PTL DEF Spec

(***************************************************************************)
(* AllocateBaseDescriptor: if there are no more threads than partitions,   *)
(* what it hands out round robin is the partition of no other thread,      *)
(* however often the counter has gone round in earlier generations.        *)
(***************************************************************************)
THEOREM PartitionsAreExclusive ==
  ASSUME IsFiniteSet(Threads), Cardinality(Threads) <= partition_count
  PROVE  Spec => []PartitionsExclusive
  <1>1. RegistryInv /\ PartitionInv /\ [Next]_vars => PartitionInv'
    <2> SUFFICES ASSUME RegistryInv, PartitionInv, [Next]_vars PROVE PartitionInv'
      OBVIOUS
    <2>1. CASE UNCHANGED partVars
      BY <2>1 DEF partVars, PartitionInv, PartitionsExclusive, Taken
    <2>2. ASSUME UNCHANGED next_partition, tls_part' = [t \in Threads |-> NoPartition]
          PROVE  PartitionInv'
      BY <2>2, NoneTaken DEF PartitionInv
    <2> QED
      BY <2>1, <2>2, PartitionCases, PartitionTake, RegistryJoin, RegistryClear
  <1>2. PartitionInv => PartitionsExclusive
    BY DEF PartitionInv
  <1> QED
    BY <1>1, <1>2, RegistryStart, RegistryStep, PTL DEF Spec

=============================================================================
