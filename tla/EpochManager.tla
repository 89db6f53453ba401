---------------------------- MODULE EpochManager ----------------------------
(***************************************************************************)
(* src/common/epoch.h and epoch.cc: the global epoch, the table of         *)
(* protected epochs (MinEpochTable), and the computation of the epoch up   *)
(* to which removed items may be reclaimed.                                *)
(*                                                                         *)
(* One action is one shared-memory access of the code.  Protect() loads    *)
(* current_epoch_, reserves a table entry on the thread's first call, and  *)
(* stores the loaded value into the entry; BumpCurrentEpoch() is a         *)
(* fetch_add, one load per table entry, and one store.                     *)
(*                                                                         *)
(* A store waits in the thread's store buffer, as on the x86 targets of    *)
(* the build, while later loads of the thread execute.  Protect() follows  *)
(* its store with an acquire fence, which on x86 does not wait for the     *)
(* buffer: SeqCstStore = FALSE.  SeqCstStore = TRUE models the store that  *)
(* the comment in epoch.h speaks of, a sequentially consistent one, after  *)
(* which the thread goes on only when the store is visible.                *)
(***************************************************************************)
EXTENDS Integers, Sequences, FiniteSets

CONSTANTS
  Threads,      \* thread ids (Environment::GetThreadId(), never 0)
  TableSize,    \* size_ of the MinEpochTable
  SeqCstStore,  \* is the store to protected_epoch sequentially consistent?
  BufferSize,   \* bound: stores a thread's store buffer can hold
  MaxEpoch,     \* bound: the epoch beyond which nobody bumps
  NoThread,     \* thread_id 0: the entry is free
  NoSlot        \* tls is nullptr: the thread has no entry yet

ASSUME TableSizeAssumption == TableSize \in Nat
ASSUME SeqCstAssumption == SeqCstStore \in BOOLEAN
ASSUME BoundsAssumption == BufferSize \in Nat /\ MaxEpoch \in Nat
ASSUME NoThreadAssumption == NoThread \notin Threads
ASSUME NoSlotAssumption == NoSlot \notin Nat

Slots == 0 .. TableSize - 1

VARIABLES
  current_epoch,          \* current_epoch_
  safe_to_reclaim_epoch,  \* safe_to_reclaim_epoch_
  protected_epoch,        \* per entry: protected_epoch, 0 when unprotected
  thread_id,              \* per entry: the thread that reserved it
  tls,                    \* per thread: its entry
  buffer,                 \* per thread: stores to its entry not yet visible
  region,                 \* per thread: "out", "entering", "fence" or "in"
  loaded,                 \* per thread: the epoch Protect() loaded
  scan,                   \* per thread: next entry its bump reads, or NoSlot
  oldest_call             \* per thread: oldest_call of its running bump

epochVars == <<current_epoch, safe_to_reclaim_epoch, protected_epoch,
               thread_id, tls, buffer, region, loaded, scan, oldest_call>>

(***************************************************************************)
(* Initialize()                                                            *)
(***************************************************************************)
EpochInit ==
  /\ current_epoch = 1
  /\ safe_to_reclaim_epoch = 0
  /\ protected_epoch = [s \in Slots |-> 0]
  /\ thread_id = [s \in Slots |-> NoThread]
  /\ tls = [t \in Threads |-> NoSlot]
  /\ buffer = [t \in Threads |-> <<>>]
  /\ region = [t \in Threads |-> "out"]
  /\ loaded = [t \in Threads |-> 0]
  /\ scan = [t \in Threads |-> NoSlot]
  /\ oldest_call = [t \in Threads |-> 0]

NotBumping(t) == scan[t] = NoSlot

(***************************************************************************)
(* A locked instruction (compare-exchange, fetch_add) first waits for the  *)
(* stores of its own thread to become visible.                             *)
(***************************************************************************)
Drained(t) == buffer[t] = <<>>

(* A store of epoch e to the thread's own table entry. *)
StoreEntry(t, e) ==
  /\ Len(buffer[t]) < BufferSize
  /\ buffer' = [buffer EXCEPT ![t] = Append(@, e)]

(* The oldest buffered store of t reaches the cache. *)
Drain(t) ==
  /\ buffer[t] # <<>>
  /\ protected_epoch' = [protected_epoch EXCEPT ![tls[t]] = Head(buffer[t])]
  /\ buffer' = [buffer EXCEPT ![t] = Tail(@)]
  /\ UNCHANGED <<current_epoch, safe_to_reclaim_epoch, thread_id, tls,
                 region, loaded, scan, oldest_call>>

(* EpochManager::Protect() loads the current epoch for the table to store. *)
LoadEpoch(t) ==
  /\ region[t] = "out" /\ NotBumping(t)
  /\ region' = [region EXCEPT ![t] = "entering"]
  /\ loaded' = [loaded EXCEPT ![t] = current_epoch]
  /\ UNCHANGED <<current_epoch, safe_to_reclaim_epoch, protected_epoch,
                 thread_id, tls, buffer, scan, oldest_call>>

(* Mutant: the entry is taken without looking whether it is free. *)
ReserveEntryBlindly(t) ==
  /\ region[t] = "entering" /\ tls[t] = NoSlot
  /\ \E s \in Slots :
       /\ thread_id' = [thread_id EXCEPT ![s] = t]
       /\ tls' = [tls EXCEPT ![t] = s]
  /\ UNCHANGED <<current_epoch, safe_to_reclaim_epoch, protected_epoch,
                 buffer, region, loaded, scan, oldest_call>>

(***************************************************************************)
(* ReserveEntry: the thread's first Protect() takes a free entry with a    *)
(* compare-exchange; probing starts at a hash of the thread id, so any     *)
(* free entry may be the one.  With no free entry the loop never ends      *)
(* (ReclaimOldEntries does nothing): the action is not enabled.            *)
(***************************************************************************)
ReserveEntry(t) ==
  /\ region[t] = "entering" /\ tls[t] = NoSlot
  /\ \E s \in Slots :
       /\ thread_id[s] = NoThread
       /\ thread_id' = [thread_id EXCEPT ![s] = t]
       /\ tls' = [tls EXCEPT ![t] = s]
  /\ UNCHANGED <<current_epoch, safe_to_reclaim_epoch, protected_epoch,
                 buffer, region, loaded, scan, oldest_call>>

(* MinEpochTable::Protect() publishes the epoch loaded before. *)
Protect(t) ==
  /\ region[t] = "entering" /\ tls[t] # NoSlot
  /\ StoreEntry(t, loaded[t])
  /\ region' = [region EXCEPT ![t] = "fence"]
  /\ UNCHANGED <<current_epoch, safe_to_reclaim_epoch, protected_epoch,
                 thread_id, tls, loaded, scan, oldest_call>>

(* The fence after the store; then Protect() returns. *)
Fence(t) ==
  /\ region[t] = "fence"
  /\ SeqCstStore => Drained(t)
  /\ region' = [region EXCEPT ![t] = "in"]
  /\ UNCHANGED <<current_epoch, safe_to_reclaim_epoch, protected_epoch,
                 thread_id, tls, buffer, loaded, scan, oldest_call>>

(* Unprotect() stores 0 with a relaxed store, which nothing waits for. *)
Unprotect(t) ==
  /\ region[t] = "in" /\ NotBumping(t)
  /\ StoreEntry(t, 0)
  /\ region' = [region EXCEPT ![t] = "out"]
  /\ UNCHANGED <<current_epoch, safe_to_reclaim_epoch, protected_epoch,
                 thread_id, tls, loaded, scan, oldest_call>>

(* Mutant: the scan starts from one epoch too early. *)
BumpFromEarlier(t) ==
  /\ region[t] \in {"out", "in"} /\ NotBumping(t) /\ Drained(t)
  /\ current_epoch < MaxEpoch
  /\ current_epoch' = current_epoch + 1
  /\ oldest_call' = [oldest_call EXCEPT ![t] = current_epoch - 1]
  /\ scan' = [scan EXCEPT ![t] = 0]
  /\ UNCHANGED <<safe_to_reclaim_epoch, protected_epoch, thread_id, tls,
                 buffer, region, loaded>>

(***************************************************************************)
(* BumpCurrentEpoch: fetch_add returns the epoch before the increment, and *)
(* that older epoch is what ComputeNewSafeToReclaimEpoch starts from.      *)
(***************************************************************************)
BumpCurrentEpoch(t) ==
  /\ region[t] \in {"out", "in"} /\ NotBumping(t) /\ Drained(t)
  /\ current_epoch < MaxEpoch
  /\ current_epoch' = current_epoch + 1
  /\ oldest_call' = [oldest_call EXCEPT ![t] = current_epoch]
  /\ scan' = [scan EXCEPT ![t] = 0]
  /\ UNCHANGED <<safe_to_reclaim_epoch, protected_epoch, thread_id, tls,
                 buffer, region, loaded>>

(* One iteration of the loop of ComputeNewSafeToReclaimEpoch. *)
ScanEntry(t) ==
  /\ scan[t] \in Slots
  /\ LET entryEpoch == protected_epoch[scan[t]] IN
       oldest_call' = [oldest_call EXCEPT ![t] =
         IF entryEpoch # 0 /\ entryEpoch < @ THEN entryEpoch ELSE @]
  /\ scan' = [scan EXCEPT ![t] = @ + 1]
  /\ UNCHANGED <<current_epoch, safe_to_reclaim_epoch, protected_epoch,
                 thread_id, tls, buffer, region, loaded>>

(* Mutants: the oldest protected epoch counts as safe, or the one after it. *)
StoreSafeInclusive(t) ==
  /\ scan[t] = TableSize
  /\ safe_to_reclaim_epoch' = oldest_call[t]
  /\ scan' = [scan EXCEPT ![t] = NoSlot]
  /\ UNCHANGED <<current_epoch, protected_epoch, thread_id, tls, buffer,
                 region, loaded, oldest_call>>

StoreSafePlusOne(t) ==
  /\ scan[t] = TableSize
  /\ safe_to_reclaim_epoch' = oldest_call[t] + 1
  /\ scan' = [scan EXCEPT ![t] = NoSlot]
  /\ UNCHANGED <<current_epoch, protected_epoch, thread_id, tls, buffer,
                 region, loaded, oldest_call>>

(* The result of the scan is stored, whatever a concurrent bump stored. *)
StoreSafe(t) ==
  /\ scan[t] = TableSize
  /\ safe_to_reclaim_epoch' = oldest_call[t] - 1
  /\ scan' = [scan EXCEPT ![t] = NoSlot]
  /\ UNCHANGED <<current_epoch, protected_epoch, thread_id, tls, buffer,
                 region, loaded, oldest_call>>

IsSafeToReclaim(epoch) == epoch <= safe_to_reclaim_epoch

EpochStep(t) ==
  \/ Drain(t) \/ LoadEpoch(t) \/ ReserveEntry(t) \/ Protect(t) \/ Fence(t)
  \/ BumpCurrentEpoch(t) \/ ScanEntry(t) \/ StoreSafe(t)

=============================================================================
