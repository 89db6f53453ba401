---------------------------- MODULE EpochProofs ----------------------------
(***************************************************************************)
(* Proofs about EpochReclaim, for any set of threads, any table size and   *)
(* any set of items.                                                       *)
(*                                                                         *)
(* BaseInv holds under both memory models.  HoldInv needs the store to     *)
(* protected_epoch to be sequentially consistent; it says why a held item  *)
(* is out of reach of every bump, the finished and the running ones: the   *)
(* item's stamp (the current epoch as long as it has none) is above the    *)
(* safe epoch, and every running bump has either already computed a bound  *)
(* that is no higher than the stamp or has yet to read the entry of the    *)
(* thread that holds the item, which will lower its bound that far.        *)
(***************************************************************************)
EXTENDS EpochReclaim, SequenceTheorems, TLAPS

(* Time for the longest leaves. *)
USE SMTT(10), ZenonT(10), SMTT(60)

(* A thread's entry carries the thread's id. *)
EntryInv ==
  \A t \in Threads :
    /\ tls[t] # NoSlot => thread_id[tls[t]] = t
    /\ region[t] \in {"fence", "in"} \/ buffer[t] # <<>> => tls[t] # NoSlot

(* The bound of a running bump is an epoch before the current one. *)
BumpInv ==
  \A b \in Threads :
    scan[b] # NoSlot => 1 <= oldest_call[b] /\ oldest_call[b] < current_epoch

BaseInv == TypeOK /\ EntryInv /\ BumpInv /\ SafeBelowCurrent

(* What a thread has in its entry once its stores are visible. *)
LastStored(t) ==
  IF buffer[t] = <<>> THEN protected_epoch[tls[t]] ELSE buffer[t][Len(buffer[t])]

(***************************************************************************)
(* What a thread published last is what it loaded, an epoch so far; in the *)
(* region the store is visible.                                            *)
(***************************************************************************)
PublishedInv ==
  \A t \in Threads :
    /\ region[t] # "out" => 1 <= loaded[t] /\ loaded[t] <= current_epoch
    /\ region[t] \in {"fence", "in"} => LastStored(t) = loaded[t]
    /\ region[t] = "in" => buffer[t] = <<>>

Stamp(i) == IF item[i] = "retired" THEN removal_epoch[i] ELSE current_epoch

(* Item i is out of reach of all bumps while t is in its region. *)
Covered(t, i) ==
  /\ loaded[t] <= Stamp(i)
  /\ safe_to_reclaim_epoch < Stamp(i)
  /\ \A b \in Threads :
       scan[b] # NoSlot => oldest_call[b] <= Stamp(i) \/ scan[b] <= tls[t]

HeldInv ==
  \A t \in Threads : \A i \in holds[t] :
    region[t] = "in" /\ item[i] # "free" /\ Covered(t, i)

HoldInv == BaseInv /\ PublishedInv /\ HeldInv

-----------------------------------------------------------------------------

(* The assumptions on the constants, for use in every proof below. *)
LEMMA SlotFacts ==
  /\ NoSlot \notin Slots
  /\ NoSlot \notin 0 .. TableSize
  /\ \A s \in Slots : s \in 0 .. TableSize /\ s + 1 \in 0 .. TableSize
  BY TableSizeAssumption, NoSlotAssumption DEF Slots

(* The constructed epoch manager satisfies the invariant. *)
LEMMA BaseInit == Init => BaseInv
  BY TableSizeAssumption, NoSlotAssumption
  DEF Init, EpochInit, BaseInv, TypeOK, EntryInv, BumpInv, SafeBelowCurrent, Slots

(* Every step of the epoch manager or of its users preserves BaseInv. *)
LEMMA BaseStep == BaseInv /\ [Next]_vars => BaseInv'
  <1> SUFFICES ASSUME BaseInv, [Next]_vars PROVE BaseInv'
    OBVIOUS
  <1> USE SlotFacts DEF BaseInv
  <1>1. ASSUME NEW t \in Threads, Drain(t), UNCHANGED itemVars PROVE BaseInv'
    <2>1. tls[t] \in Slots /\ Head(buffer[t]) \in Nat /\ Tail(buffer[t]) \in Seq(Nat)
      BY <1>1 DEF Drain, TypeOK, EntryInv
    <2>2. TypeOK'
      BY <1>1, <2>1 DEF Drain, TypeOK, itemVars
    <2>3. EntryInv'
      BY <1>1, <2>1 DEF Drain, TypeOK, EntryInv
    <2>4. BumpInv' /\ SafeBelowCurrent'
      BY <1>1 DEF Drain, TypeOK, BumpInv, SafeBelowCurrent
    <2> QED BY <2>2, <2>3, <2>4
  <1>2. ASSUME NEW t \in Threads, LoadEpoch(t), UNCHANGED itemVars PROVE BaseInv'
    BY <1>2 DEF LoadEpoch, itemVars, TypeOK, EntryInv, BumpInv, SafeBelowCurrent
  <1>3. ASSUME NEW t \in Threads, ReserveEntry(t), UNCHANGED itemVars PROVE BaseInv'
    <2>1. PICK s \in Slots : /\ thread_id[s] = NoThread
                             /\ thread_id' = [thread_id EXCEPT ![s] = t]
                             /\ tls' = [tls EXCEPT ![t] = s]
      BY <1>3 DEF ReserveEntry
    <2>2. TypeOK'
      BY <1>3, <2>1 DEF ReserveEntry, itemVars, TypeOK
    <2>3. EntryInv'
      <3>1. \A u \in Threads : tls[u] # NoSlot => tls[u] # s
        BY <2>1, NoThreadAssumption DEF TypeOK, EntryInv
      <3> QED BY <1>3, <2>1, <3>1 DEF ReserveEntry, TypeOK, EntryInv
    <2>4. BumpInv' /\ SafeBelowCurrent'
      BY <1>3 DEF ReserveEntry, BumpInv, SafeBelowCurrent
    <2> QED BY <2>2, <2>3, <2>4
  <1>4. ASSUME NEW t \in Threads, NEW e \in Nat, StoreEntry(t, e)
        PROVE  /\ buffer' \in [Threads -> Seq(Nat)]
               /\ \A u \in Threads : u # t => buffer'[u] = buffer[u]
    <2>1. Append(buffer[t], e) \in Seq(Nat)
      BY DEF TypeOK
    <2> QED BY <1>4, <2>1 DEF StoreEntry, TypeOK
  <1>5. ASSUME NEW t \in Threads, Protect(t), UNCHANGED itemVars PROVE BaseInv'
    <2>1. loaded[t] \in Nat /\ tls[t] # NoSlot /\ StoreEntry(t, loaded[t])
      BY <1>5 DEF Protect, TypeOK
    <2>2. TypeOK'
      BY <1>5, <2>1, <1>4 DEF Protect, itemVars, TypeOK
    <2>3. EntryInv'
      BY <1>5, <2>1, <1>4 DEF Protect, TypeOK, EntryInv
    <2>4. BumpInv' /\ SafeBelowCurrent'
      BY <1>5 DEF Protect, BumpInv, SafeBelowCurrent
    <2> QED BY <2>2, <2>3, <2>4
  <1>6. ASSUME NEW t \in Threads, Leave(t) PROVE BaseInv'
    <2>1. tls[t] # NoSlot /\ StoreEntry(t, 0)
      BY <1>6 DEF Leave, Unprotect, EntryInv
    <2>2. TypeOK'
      BY <1>6, <2>1, <1>4 DEF Leave, Unprotect, TypeOK
    <2>3. EntryInv'
      BY <1>6, <2>1, <1>4 DEF Leave, Unprotect, TypeOK, EntryInv
    <2>4. BumpInv' /\ SafeBelowCurrent'
      BY <1>6 DEF Leave, Unprotect, BumpInv, SafeBelowCurrent
    <2> QED BY <2>2, <2>3, <2>4
  <1>7. ASSUME NEW t \in Threads, BumpCurrentEpoch(t), UNCHANGED itemVars PROVE BaseInv'
    <2>1. 0 \in 0 .. TableSize /\ current_epoch >= 1
      BY TableSizeAssumption DEF TypeOK, SafeBelowCurrent
    <2>2. TypeOK'
      BY <1>7, <2>1 DEF BumpCurrentEpoch, itemVars, TypeOK
    <2>3. EntryInv'
      BY <1>7 DEF BumpCurrentEpoch, EntryInv
    <2>4. BumpInv' /\ SafeBelowCurrent'
      BY <1>7, <2>1 DEF BumpCurrentEpoch, TypeOK, BumpInv, SafeBelowCurrent
    <2> QED BY <2>2, <2>3, <2>4
  <1>8. ASSUME NEW t \in Threads, ScanEntry(t), UNCHANGED itemVars PROVE BaseInv'
    <2>1. scan[t] \in Slots /\ protected_epoch[scan[t]] \in Nat
      BY <1>8 DEF ScanEntry, TypeOK
    <2>2. TypeOK'
      BY <1>8, <2>1 DEF ScanEntry, itemVars, TypeOK
    <2>3. EntryInv'
      BY <1>8 DEF ScanEntry, EntryInv
    <2>4. BumpInv' /\ SafeBelowCurrent'
      BY <1>8, <2>1 DEF ScanEntry, TypeOK, BumpInv, SafeBelowCurrent
    <2> QED BY <2>2, <2>3, <2>4
  <1>9. ASSUME NEW t \in Threads, StoreSafe(t), UNCHANGED itemVars PROVE BaseInv'
    <2>1. 1 <= oldest_call[t] /\ oldest_call[t] < current_epoch /\ oldest_call[t] \in Nat
      BY <1>9, TableSizeAssumption, NoSlotAssumption DEF StoreSafe, TypeOK, BumpInv
    <2>2. TypeOK'
      BY <1>9, <2>1 DEF StoreSafe, itemVars, TypeOK
    <2>3. EntryInv'
      BY <1>9 DEF StoreSafe, EntryInv
    <2>4. BumpInv' /\ SafeBelowCurrent'
      BY <1>9, <2>1 DEF StoreSafe, TypeOK, BumpInv, SafeBelowCurrent
    <2> QED BY <2>2, <2>3, <2>4
  <1>10. ASSUME NEW i \in Items, NEW t,
                \/ t \in Threads /\ (Access(t, i) \/ Unlink(t, i))
                \/ Link(i) \/ Retire(i) \/ Reclaim(i)
         PROVE  BaseInv'
    <2>1. TypeOK'
      <3>1. CASE t \in Threads /\ Access(t, i)
        BY <3>1 DEF Access, epochVars, TypeOK
      <3>2. CASE t \in Threads /\ Unlink(t, i)
        BY <3>2 DEF Unlink, epochVars, TypeOK
      <3>3. CASE Link(i)
        BY <3>3 DEF Link, epochVars, TypeOK
      <3>4. CASE Retire(i)
        BY <3>4 DEF Retire, epochVars, TypeOK
      <3>5. CASE Reclaim(i)
        BY <3>5 DEF Reclaim, epochVars, TypeOK
      <3> QED BY <1>10, <3>1, <3>2, <3>3, <3>4, <3>5
    <2>2. EntryInv' /\ BumpInv' /\ SafeBelowCurrent'
      BY <1>10 DEF Access, Unlink, Link, Retire, Reclaim, epochVars, EntryInv,
                   BumpInv, SafeBelowCurrent
    <2> QED BY <2>1, <2>2
  <1>11. ASSUME NEW t \in Threads, Fence(t), UNCHANGED itemVars PROVE BaseInv'
    BY <1>11 DEF Fence, itemVars, TypeOK, EntryInv, BumpInv, SafeBelowCurrent
  <1>12. CASE UNCHANGED vars
    BY <1>12 DEF vars, epochVars, TypeOK, EntryInv, BumpInv, SafeBelowCurrent
  <1> QED
    BY <1>1, <1>2, <1>3, <1>5, <1>6, <1>7, <1>8, <1>9, <1>10, <1>11, <1>12
    DEF Next, EpochStep

(* The types hold in every reachable state, under both memory models. *)
THEOREM TypeCorrect == Spec => []TypeOK
  <1>1. BaseInv => TypeOK
    BY DEF BaseInv
  <1> QED BY BaseInit, BaseStep, <1>1, PTL DEF Spec

(***************************************************************************)
(* The comment of ComputeNewSafeToReclaimEpoch holds, for any number of    *)
(* racing bumps and under both memory models.                              *)
(***************************************************************************)
THEOREM SafeEpochBelowCurrent == Spec => []SafeBelowCurrent
  <1>1. BaseInv => SafeBelowCurrent
    BY DEF BaseInv
  <1> QED BY BaseInit, BaseStep, <1>1, PTL DEF Spec

(***************************************************************************)
(* ReserveEntry gives every thread an entry of its own, for any table size *)
(* and any number of threads, even more threads than entries.              *)
(***************************************************************************)
THEOREM ExclusiveEntries == Spec => []EntriesExclusive
  <1>1. BaseInv => EntriesExclusive
    BY DEF BaseInv, EntryInv, EntriesExclusive
  <1> QED BY BaseInit, BaseStep, <1>1, PTL DEF Spec

-----------------------------------------------------------------------------

(* Nothing is held and nothing is published at the start. *)
LEMMA HoldInit == Init => HoldInv
  <1> SUFFICES ASSUME Init PROVE HoldInv
    OBVIOUS
  <1>1. PublishedInv /\ HeldInv
    BY DEF Init, EpochInit, PublishedInv, HeldInv
  <1> QED BY <1>1, BaseInit DEF HoldInv

(* The last element of a queue stays the last until it is taken out itself. *)
LEMMA TailKeepsLast ==
  ASSUME NEW s \in Seq(Nat), s # <<>>
  PROVE  /\ Len(s) = 1 => Tail(s) = <<>> /\ Head(s) = s[Len(s)]
         /\ Len(s) # 1 => Tail(s) # <<>> /\ Tail(s)[Len(Tail(s))] = s[Len(s)]
  <1>1. Len(s) \in Nat \ {0}
    BY EmptySeq
  <1>2. /\ Tail(s) \in Seq(Nat) /\ Len(Tail(s)) = Len(s) - 1
        /\ \A i \in 1 .. Len(Tail(s)) : Tail(s)[i] = s[i + 1]
    BY HeadTailProperties
  <1>3. ASSUME Len(s) = 1 PROVE Tail(s) = <<>> /\ Head(s) = s[Len(s)]
    <2>1. Len(Tail(s)) = 0
      BY <1>2, <1>3
    <2>2. Tail(s) = <<>>
      BY <1>2, <2>1, EmptySeq
    <2> QED BY <1>3, <2>2
  <1>4. ASSUME Len(s) # 1 PROVE Tail(s) # <<>> /\ Tail(s)[Len(Tail(s))] = s[Len(s)]
    <2>1. Len(Tail(s)) \in 1 .. Len(Tail(s)) /\ Len(Tail(s)) + 1 = Len(s)
      BY <1>1, <1>2, <1>4
    <2>2. Tail(s)[Len(Tail(s))] = s[Len(s)]
      BY <1>2, <2>1
    <2>3. Tail(s) # <<>>
      <3>1. Len(Tail(s)) # 0
        BY <1>1, <1>2, <1>4
      <3>2. Len(<<>>) = 0
        BY EmptySeq
      <3> QED BY <3>1, <3>2, Zenon
    <2> QED BY <2>2, <2>3
  <1> QED BY <1>3, <1>4

(* A store is the last one of its thread, and changes no other thread's. *)
LEMMA OwnStore ==
  ASSUME BaseInv, NEW t \in Threads, NEW e \in Nat, StoreEntry(t, e),
         UNCHANGED <<protected_epoch, tls>>
  PROVE  /\ LastStored(t)' = e
         /\ \A u \in Threads : u # t => LastStored(u)' = LastStored(u) /\ buffer'[u] = buffer[u]
  <1>1. buffer[t] \in Seq(Nat) /\ buffer'[t] = Append(buffer[t], e)
    BY DEF StoreEntry, BaseInv, TypeOK
  <1>2. buffer'[t] # <<>> /\ buffer'[t][Len(buffer'[t])] = e
    BY <1>1
  <1>3. \A u \in Threads : u # t => buffer'[u] = buffer[u]
    BY DEF StoreEntry, BaseInv, TypeOK
  <1> QED BY <1>2, <1>3 DEF LastStored

(* A thread in its region has an entry. *)
LEMMA InRegion ==
  ASSUME BaseInv, NEW t \in Threads, region[t] = "in"
  PROVE  tls[t] \in Slots
  <1>1. tls[t] \in Slots \union {NoSlot}
    BY DEF BaseInv, TypeOK
  <1>2. tls[t] # NoSlot
    BY DEF BaseInv, EntryInv
  <1> QED BY <1>1, <1>2

(***************************************************************************)
(* Under a sequentially consistent store every step preserves HoldInv.     *)
(***************************************************************************)
LEMMA HoldStep ==
  ASSUME SeqCstStore
  PROVE  HoldInv /\ [Next]_vars => HoldInv'
  <1> SUFFICES ASSUME HoldInv, [Next]_vars PROVE HoldInv'
    OBVIOUS
  <1> USE SlotFacts
  <1>1. BaseInv /\ BaseInv' /\ TypeOK /\ TypeOK' /\ PublishedInv /\ HeldInv
    BY BaseStep DEF HoldInv, BaseInv
  <1> SUFFICES PublishedInv' /\ HeldInv'
    BY <1>1 DEF HoldInv
  <1>2. ASSUME NEW t \in Threads, Drain(t), UNCHANGED itemVars
        PROVE  PublishedInv' /\ HeldInv'
    <2>1. tls[t] \in Slots /\ buffer[t] \in Seq(Nat) /\ buffer[t] # <<>> /\ region[t] # "in"
      BY <1>1, <1>2 DEF Drain, TypeOK, BaseInv, EntryInv, PublishedInv
    <2>2. LastStored(t)' = LastStored(t)
      <3>1. CASE Len(buffer[t]) = 1
        <4>1. Tail(buffer[t]) = <<>> /\ Head(buffer[t]) = buffer[t][Len(buffer[t])]
          BY <2>1, <3>1, TailKeepsLast
        <4> QED BY <1>1, <1>2, <2>1, <4>1 DEF Drain, TypeOK, LastStored
      <3>2. CASE Len(buffer[t]) # 1
        <4>1. /\ Tail(buffer[t]) # <<>>
              /\ Tail(buffer[t])[Len(Tail(buffer[t]))] = buffer[t][Len(buffer[t])]
          BY <2>1, <3>2, TailKeepsLast
        <4> QED BY <1>1, <1>2, <2>1, <4>1 DEF Drain, TypeOK, LastStored
      <3> QED BY <3>1, <3>2
    <2>3. \A u \in Threads : u # t /\ tls[u] # NoSlot =>
            LastStored(u)' = LastStored(u) /\ buffer'[u] = buffer[u]
      <3>1. \A u \in Threads : u # t /\ tls[u] # NoSlot => tls[u] \in Slots /\ tls[u] # tls[t]
        BY <1>1, <2>1 DEF BaseInv, TypeOK, EntryInv
      <3> QED BY <1>1, <1>2, <2>1, <3>1 DEF Drain, TypeOK, LastStored
    <2>4. \A u \in Threads : region[u] \in {"fence", "in"} => tls[u] # NoSlot
      BY <1>1 DEF BaseInv, EntryInv
    <2>5. PublishedInv'
      BY <1>1, <1>2, <2>1, <2>2, <2>3, <2>4 DEF Drain, PublishedInv
    <2>6. HeldInv'
      BY <1>1, <1>2 DEF Drain, itemVars, HeldInv, Covered, Stamp
    <2> QED BY <2>5, <2>6
  <1>3. ASSUME NEW t \in Threads, LoadEpoch(t), UNCHANGED itemVars
        PROVE  PublishedInv' /\ HeldInv'
    <2>1. holds[t] = {}
      BY <1>1, <1>3 DEF LoadEpoch, HeldInv
    <2>2. PublishedInv'
      BY <1>1, <1>3 DEF LoadEpoch, PublishedInv, LastStored, TypeOK, BaseInv, SafeBelowCurrent
    <2>3. HeldInv'
      BY <1>1, <1>3, <2>1 DEF LoadEpoch, itemVars, HeldInv, Covered, Stamp, TypeOK
    <2> QED BY <2>2, <2>3
  <1>4. ASSUME NEW t \in Threads, ReserveEntry(t), UNCHANGED itemVars
        PROVE  PublishedInv' /\ HeldInv'
    <2>1. holds[t] = {}
      BY <1>1, <1>4 DEF ReserveEntry, HeldInv
    <2>2. \A u \in Threads : u # t => tls'[u] = tls[u]
      BY <1>1, <1>4 DEF ReserveEntry, TypeOK
    <2>3. PublishedInv'
      BY <1>1, <1>4, <2>2 DEF ReserveEntry, PublishedInv, LastStored
    <2>4. HeldInv'
      BY <1>1, <1>4, <2>1, <2>2 DEF ReserveEntry, itemVars, HeldInv, Covered, Stamp
    <2> QED BY <2>3, <2>4
  <1>5. ASSUME NEW t \in Threads, Protect(t), UNCHANGED itemVars
        PROVE  PublishedInv' /\ HeldInv'
    <2>1. holds[t] = {}
      BY <1>1, <1>5 DEF Protect, HeldInv
    <2>2. loaded[t] \in Nat /\ StoreEntry(t, loaded[t])
      BY <1>1, <1>5 DEF Protect, TypeOK
    <2>4. PublishedInv'
      BY <1>1, <1>5, <2>2, OwnStore DEF Protect, PublishedInv, TypeOK
    <2>5. HeldInv'
      BY <1>1, <1>5, <2>1 DEF Protect, itemVars, HeldInv, Covered, Stamp, TypeOK
    <2> QED BY <2>4, <2>5
  <1>6. ASSUME NEW t \in Threads, Leave(t) PROVE PublishedInv' /\ HeldInv'
    <2>3. PublishedInv'
      BY <1>1, <1>6, OwnStore DEF Leave, Unprotect, PublishedInv, TypeOK
    <2>4. HeldInv'
      BY <1>1, <1>6 DEF Leave, Unprotect, HeldInv, Covered, Stamp, TypeOK
    <2> QED BY <2>3, <2>4
  <1>7. ASSUME NEW t \in Threads, BumpCurrentEpoch(t), UNCHANGED itemVars
        PROVE  PublishedInv' /\ HeldInv'
    <2>1. PublishedInv'
      BY <1>1, <1>7 DEF BumpCurrentEpoch, PublishedInv, LastStored, TypeOK
    <2>2. ASSUME NEW u \in Threads, NEW i \in holds'[u]
          PROVE  region'[u] = "in" /\ item'[i] # "free" /\ Covered(u, i)'
      <3>1. /\ i \in holds[u] /\ region[u] = "in" /\ item[i] # "free"
            /\ Covered(u, i) /\ i \in Items
        BY <1>1, <1>7, <2>2 DEF BumpCurrentEpoch, itemVars, HeldInv, TypeOK
      <3>2. tls[u] \in Slots
        BY <1>1, <3>1, InRegion
      <3>3. Stamp(i) \in Nat /\ Stamp(i)' \in Nat /\ Stamp(i)' >= Stamp(i)
        BY <1>1, <1>7, <3>1 DEF BumpCurrentEpoch, itemVars, Stamp, TypeOK
      <3>4. \A b \in Threads : scan'[b] # NoSlot =>
              oldest_call'[b] <= Stamp(i)' \/ scan'[b] <= tls'[u]
        <4>1. 0 <= tls[u]
          BY <3>2 DEF Slots
        <4>2. /\ scan' = [scan EXCEPT ![t] = 0] /\ tls' = tls
              /\ oldest_call' = [oldest_call EXCEPT ![t] = current_epoch]
          BY <1>7 DEF BumpCurrentEpoch
        <4>3. scan'[t] <= tls'[u]
          BY <1>1, <4>1, <4>2 DEF TypeOK
        <4>4. ASSUME NEW b \in Threads, b # t, scan'[b] # NoSlot
              PROVE  oldest_call'[b] <= Stamp(i)' \/ scan'[b] <= tls'[u]
          <5>1. /\ scan'[b] = scan[b] /\ oldest_call'[b] = oldest_call[b]
                /\ oldest_call[b] \in Nat
            BY <1>1, <4>2, <4>4 DEF TypeOK
          <5>2. oldest_call[b] <= Stamp(i) \/ scan[b] <= tls[u]
            BY <3>1, <4>4, <5>1 DEF Covered
          <5>3. oldest_call[b] <= Stamp(i) => oldest_call[b] <= Stamp(i)'
            BY <3>3, <5>1
          <5> QED BY <4>2, <5>1, <5>2, <5>3
        <4> QED BY <4>3, <4>4
      <3>5. loaded'[u] <= Stamp(i)' /\ safe_to_reclaim_epoch' < Stamp(i)'
        BY <1>1, <1>7, <3>1, <3>3 DEF BumpCurrentEpoch, Covered, TypeOK
      <3> QED BY <1>7, <3>1, <3>4, <3>5 DEF BumpCurrentEpoch, itemVars, Covered
    <2> QED BY <2>1, <2>2 DEF HeldInv
  <1>8. ASSUME NEW t \in Threads, ScanEntry(t), UNCHANGED itemVars
        PROVE  PublishedInv' /\ HeldInv'
    <2>1. PublishedInv'
      BY <1>1, <1>8 DEF ScanEntry, PublishedInv, LastStored
    <2>2. ASSUME NEW u \in Threads, NEW i \in holds'[u]
          PROVE  region'[u] = "in" /\ item'[i] # "free" /\ Covered(u, i)'
      <3>1. /\ i \in holds[u] /\ region[u] = "in" /\ item[i] # "free"
            /\ Covered(u, i) /\ i \in Items
        BY <1>1, <1>8, <2>2 DEF ScanEntry, itemVars, HeldInv, TypeOK
      <3>2. tls[u] \in Slots /\ tls[u] \in Nat
        BY <1>1, <3>1, InRegion DEF Slots
      <3>3. Stamp(i) \in Nat /\ Stamp(i)' = Stamp(i)
        BY <1>1, <1>8, <3>1 DEF ScanEntry, itemVars, Stamp, TypeOK
      <3>4. protected_epoch[tls[u]] = loaded[u] /\ 1 <= loaded[u] /\ loaded[u] <= Stamp(i)
        BY <1>1, <3>1 DEF PublishedInv, LastStored, Covered
      <3>5. oldest_call'[t] <= Stamp(i) \/ scan'[t] <= tls[u]
        <4>1. scan[t] \in Slots /\ scan[t] \in Nat /\ scan'[t] = scan[t] + 1
          BY <1>1, <1>8 DEF ScanEntry, TypeOK, Slots
        <4>2. oldest_call'[t] <= oldest_call[t]
          BY <1>1, <1>8, <4>1 DEF ScanEntry, TypeOK
        <4>3. oldest_call[t] <= Stamp(i) \/ scan[t] <= tls[u]
          BY <3>1, <4>1 DEF Covered
        <4>4. CASE scan[t] = tls[u]
          <5>1. protected_epoch[scan[t]] = loaded[u] /\ loaded[u] \in Nat /\ loaded[u] # 0
            BY <1>1, <3>4, <4>4 DEF TypeOK
          <5>2. oldest_call'[t] <= loaded[u]
            <6>1. oldest_call[t] \in Nat /\ oldest_call \in [Threads -> Nat]
              BY <1>1 DEF TypeOK
            <6>2. oldest_call'[t] = IF loaded[u] # 0 /\ loaded[u] < oldest_call[t]
                                      THEN loaded[u] ELSE oldest_call[t]
              BY <1>8, <5>1, <6>1 DEF ScanEntry
            <6> QED BY <5>1, <6>1, <6>2
          <5>3. oldest_call'[t] \in Nat
            BY <1>1 DEF TypeOK
          <5> QED BY <3>3, <3>4, <5>1, <5>2, <5>3
        <4>5. CASE scan[t] # tls[u]
          <5>1. oldest_call[t] \in Nat /\ oldest_call'[t] \in Nat
            BY <1>1 DEF TypeOK
          <5>2. scan[t] <= tls[u] => scan'[t] <= tls[u]
            BY <3>2, <4>1, <4>5
          <5>3. oldest_call[t] <= Stamp(i) => oldest_call'[t] <= Stamp(i)
            BY <3>3, <4>2, <5>1
          <5> QED BY <4>3, <5>2, <5>3
        <4> QED BY <4>4, <4>5
      <3>6. \A b \in Threads : scan'[b] # NoSlot =>
              oldest_call'[b] <= Stamp(i)' \/ scan'[b] <= tls'[u]
        <4>1. tls' = tls
          BY <1>8 DEF ScanEntry
        <4>2. ASSUME NEW b \in Threads, b # t, scan'[b] # NoSlot
              PROVE  oldest_call'[b] <= Stamp(i) \/ scan'[b] <= tls[u]
          <5>1. scan'[b] = scan[b] /\ oldest_call'[b] = oldest_call[b]
            BY <1>1, <1>8, <4>2 DEF ScanEntry, TypeOK
          <5> QED BY <3>1, <4>2, <5>1 DEF Covered
        <4> QED BY <3>3, <3>5, <4>1, <4>2
      <3> QED BY <1>8, <3>1, <3>3, <3>6 DEF ScanEntry, itemVars, Covered
    <2> QED BY <2>1, <2>2 DEF HeldInv
  <1>9. ASSUME NEW t \in Threads, StoreSafe(t), UNCHANGED itemVars
        PROVE  PublishedInv' /\ HeldInv'
    <2>1. PublishedInv'
      BY <1>1, <1>9 DEF StoreSafe, PublishedInv, LastStored
    <2>2. ASSUME NEW u \in Threads, NEW i \in holds'[u]
          PROVE  region'[u] = "in" /\ item'[i] # "free" /\ Covered(u, i)'
      <3>1. /\ i \in holds[u] /\ region[u] = "in" /\ item[i] # "free"
            /\ Covered(u, i) /\ i \in Items
        BY <1>1, <1>9, <2>2 DEF StoreSafe, itemVars, HeldInv, TypeOK
      <3>2. tls[u] \in Slots
        BY <1>1, <3>1, InRegion
      <3>3. Stamp(i) \in Nat /\ Stamp(i)' = Stamp(i)
        BY <1>1, <1>9, <3>1 DEF StoreSafe, itemVars, Stamp, TypeOK
      <3>4. scan[t] # NoSlot /\ ~(scan[t] <= tls[u])
        <4>1. scan[t] = TableSize /\ TableSize \in 0 .. TableSize
          BY <1>9, TableSizeAssumption DEF StoreSafe
        <4>2. tls[u] \in Nat /\ tls[u] < TableSize
          BY <3>2, TableSizeAssumption DEF Slots
        <4> QED BY <4>1, <4>2, TableSizeAssumption
      <3>5. oldest_call[t] <= Stamp(i)
        BY <3>1, <3>4 DEF Covered
      <3>6. safe_to_reclaim_epoch' < Stamp(i)'
        BY <1>1, <1>9, <3>3, <3>5 DEF StoreSafe, TypeOK
      <3>7. \A b \in Threads : scan'[b] # NoSlot =>
              oldest_call'[b] <= Stamp(i)' \/ scan'[b] <= tls'[u]
        BY <1>1, <1>9, <3>1, <3>3 DEF StoreSafe, Covered, TypeOK
      <3> QED BY <1>9, <3>1, <3>3, <3>6, <3>7 DEF StoreSafe, itemVars, Covered
    <2> QED BY <2>1, <2>2 DEF HeldInv
  <1>10. ASSUME NEW t \in Threads, NEW i \in Items, Access(t, i)
         PROVE  PublishedInv' /\ HeldInv'
    <2>1. PublishedInv'
      BY <1>1, <1>10 DEF Access, epochVars, PublishedInv, LastStored
    <2>2. Covered(t, i)
      <3>1. Stamp(i) = current_epoch
        BY <1>10 DEF Access, Stamp
      <3>2. loaded[t] <= current_epoch /\ safe_to_reclaim_epoch < current_epoch
        BY <1>1, <1>10 DEF Access, PublishedInv, BaseInv, SafeBelowCurrent
      <3>3. ASSUME NEW b \in Threads, scan[b] # NoSlot
            PROVE  oldest_call[b] <= current_epoch
        <4>1. oldest_call[b] \in Nat /\ current_epoch \in Nat
          BY <1>1 DEF TypeOK
        <4>2. oldest_call[b] < current_epoch
          BY <1>1, <3>3 DEF BaseInv, BumpInv
        <4> QED BY <4>1, <4>2
      <3> QED BY <3>1, <3>2, <3>3 DEF Covered
    <2>3. \A u \in Threads : \A j \in holds'[u] :
            region[u] = "in" /\ item[j] # "free" /\ Covered(u, j)
      BY <1>1, <1>10, <2>2 DEF Access, HeldInv, TypeOK
    <2> QED BY <1>10, <2>1, <2>3 DEF Access, epochVars, HeldInv, Covered, Stamp
  <1>11. ASSUME NEW i \in Items, Link(i) \/ Retire(i) \/ Reclaim(i) \/ \E t \in Threads : Unlink(t, i)
         PROVE  PublishedInv' /\ HeldInv'
    <2>1. UNCHANGED <<epochVars, holds>>
      BY <1>11 DEF Link, Retire, Reclaim, Unlink
    <2>2. PublishedInv'
      BY <1>1, <2>1 DEF epochVars, PublishedInv, LastStored
    <2>3. ASSUME NEW u \in Threads, i \in holds[u]
          PROVE  item'[i] # "free" /\ Stamp(i)' = Stamp(i)
      <3>1. item[i] # "free" /\ Covered(u, i)
        BY <1>1, <2>3 DEF HeldInv
      <3>2. CASE Retire(i)
        BY <1>1, <2>1, <3>2 DEF Retire, Stamp, TypeOK, epochVars
      <3>3. CASE Reclaim(i)
        BY <1>1, <3>1, <3>3 DEF Reclaim, IsSafeToReclaim, Covered, Stamp, TypeOK
      <3>4. CASE \E t \in Threads : Unlink(t, i)
        BY <1>1, <2>1, <3>4 DEF Unlink, Stamp, TypeOK, epochVars
      <3> QED BY <1>11, <3>1, <3>2, <3>3, <3>4 DEF Link
    <2>4. \A j \in Items : j # i => item'[j] = item[j] /\ removal_epoch'[j] = removal_epoch[j]
      BY <1>1, <1>11 DEF Link, Retire, Reclaim, Unlink, TypeOK
    <2>5. ASSUME NEW u \in Threads, NEW j \in holds[u]
          PROVE  region[u] = "in" /\ Covered(u, j) /\ item'[j] # "free" /\ Stamp(j)' = Stamp(j)
      <3>1. j \in Items /\ region[u] = "in" /\ Covered(u, j) /\ item[j] # "free"
        BY <1>1, <2>5 DEF HeldInv, TypeOK
      <3> QED BY <2>1, <2>3, <2>4, <3>1 DEF Stamp, epochVars
    <2> QED BY <2>1, <2>2, <2>5 DEF epochVars, HeldInv, Covered
  <1>12. ASSUME NEW t \in Threads, Fence(t), UNCHANGED itemVars
         PROVE  PublishedInv' /\ HeldInv'
    <2>1. PublishedInv'
      BY <1>1, <1>12 DEF Fence, Drained, PublishedInv, LastStored, TypeOK
    <2>2. HeldInv'
      BY <1>1, <1>12 DEF Fence, itemVars, HeldInv, Covered, Stamp, TypeOK
    <2> QED BY <2>1, <2>2
  <1>13. CASE UNCHANGED vars
    BY <1>1, <1>13 DEF vars, epochVars, PublishedInv, LastStored, HeldInv, Covered, Stamp
  <1> QED
    BY <1>2, <1>3, <1>4, <1>5, <1>6, <1>7, <1>8, <1>9, <1>10, <1>11, <1>12, <1>13
    DEF Next, EpochStep

(***************************************************************************)
(* The guarantee Protect() documents: with a sequentially consistent store *)
(* to protected_epoch, no item is reclaimed while a thread that reached it *)
(* is still in its protected region, whatever the interleaving of Protect, *)
(* Unprotect, Push and any number of bumps that overwrite each other.      *)
(***************************************************************************)
THEOREM ProtectedAccessIsSafe ==
  ASSUME SeqCstStore
  PROVE  Spec => []NoReclaimWhileHeld
  <1>1. HoldInv => NoReclaimWhileHeld
    BY DEF HoldInv, HeldInv, NoReclaimWhileHeld
  <1> QED BY HoldInit, HoldStep, <1>1, PTL DEF Spec

=============================================================================
