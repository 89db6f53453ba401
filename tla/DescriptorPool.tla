--------------------------- MODULE DescriptorPool ---------------------------
(***************************************************************************)
(* src/mwcas/mwcas.cc and mwcas.h, the life of a Descriptor outside of     *)
(* MwCAS(): a thread takes it from the free list of its partition, fills   *)
(* its words in, runs or aborts it, and pushes it to the partition's       *)
(* GarbageListUnsafe.  When its epoch has passed, FreeDescriptor frees the *)
(* memory its words leave over and returns it to the free list.            *)
(***************************************************************************)
EXTENDS GarbageList

CONSTANTS
  PoolSize,         \* pool_size of the constructor
  PartitionCount    \* partition_count of the constructor

(* initVariable() rounds both up to a power of two, partitions up to 2^9. *)
RoundUp(n, limit) ==
  LET powers == {2 ^ k : k \in 0 .. limit}
      enough == {p \in powers : n <= p}
  IN IF enough = {} THEN Max(powers) ELSE Min(enough)

pool_size == RoundUp(PoolSize, 30)
partition_count == RoundUp(PartitionCount, 9)
DescPerPartition == pool_size \div partition_count

ASSUME PartitionCountAssumption == partition_count \in Nat \ {0}

(* The constructor's check. *)
ASSUME PoolSizeAssumption == pool_size > partition_count

Partitions == 0 .. partition_count - 1
Descriptors == 0 .. pool_size - 1
OwnerPartition(d) == d \div DescPerPartition

VARIABLES
  next_partition,   \* next_partition_
  tls_part,         \* per thread: the index of its partition, or -1
  free_list,        \* per partition: free_list
  desc              \* per descriptor: status_ and words_

partVars == <<next_partition, tls_part, registry>>
poolVars == <<partVars, free_list, desc>>

NoPartition == -1

(* Initialize(): status_ is Finished, count_ is 0. *)
Initialized == [status |-> "Finished", words |-> <<>>]

(* Each DescriptorPartition is constructed with a garbage list of its own. *)
PartitionsInit(n) == GarbageInit(Partitions, n)

(* The BaseDescriptorPool; no thread has a partition. *)
BasePoolInit ==
  /\ next_partition = 0
  /\ tls_part = [t \in Threads |-> NoPartition]

(* Every descriptor is put at the head of its partition's free list. *)
PoolInit ==
  /\ BasePoolInit /\ RegistryInit
  /\ free_list = [p \in Partitions |->
       [i \in 1 .. DescPerPartition |-> (p + 1) * DescPerPartition - i]]
  /\ desc = [d \in Descriptors |-> Initialized]

-----------------------------------------------------------------------------
(* AllocateDescriptor *)

(* Mutant: the counter is read and never advanced. *)
TakePartitionAgain(t) ==
  /\ tls_part[t] = NoPartition
  /\ tls_part' = [tls_part EXCEPT ![t] = next_partition % partition_count]
  /\ RegisterTls(t, NoPartition)
  /\ UNCHANGED <<next_partition, free_list, desc>>

(* The first call of a thread: round robin. *)
TakePartition(t) ==
  /\ tls_part[t] = NoPartition
  /\ tls_part' = [tls_part EXCEPT ![t] = next_partition % partition_count]
  /\ next_partition' = next_partition + 1
  /\ RegisterTls(t, NoPartition)
  /\ UNCHANGED <<free_list, desc>>

HasFree(t) == tls_part[t] # NoPartition /\ free_list[tls_part[t]] # <<>>
FirstFree(t) == Head(free_list[tls_part[t]])

TakeFree(t) ==
  /\ HasFree(t)
  /\ free_list' = [free_list EXCEPT ![tls_part[t]] = Tail(@)]
  /\ UNCHANGED <<partVars, desc>>

(* Mutant: the epoch is left as it is. *)
ScavengeOnly(t) ==
  /\ tls_part[t] # NoPartition /\ ~HasFree(t)
  /\ Scavenge(t, tls_part[t])
  /\ UNCHANGED <<epochVars, listVars>>

(* With no free descriptor: bump the epoch and scavenge, again and again. *)
BumpAndScavenge(t) ==
  /\ tls_part[t] # NoPartition /\ ~HasFree(t)
  /\ RoundMatters(\E s \in Slots :
       items[tls_part[t]][s].epoch \in 1 .. safe_to_reclaim_epoch)
  /\ BumpCurrentEpoch
  /\ Scavenge(t, tls_part[t])
  /\ UNCHANGED listVars

-----------------------------------------------------------------------------
(* The words, and what becomes of their memory *)

(* AddEntry, AllocateAndAddEntry or ReserveAndAddEntry. *)
Entry(addr, old, new, policy) ==
  [addr |-> addr, old |-> old, new |-> new, policy |-> policy]

Reserved == <<>>   \* kNewValueReserved

(* Mutant: a failed operation frees the old value too. *)
LeftOverBoth(status, w) ==
  CASE w.policy = "Always" -> IF status = "Succeeded" THEN <<w.old>> ELSE <<w.new, w.old>>
    [] w.policy = "OldOnSuccess" -> IF status = "Succeeded" THEN <<w.old>> ELSE <<>>
    [] w.policy = "NewOnFailure" -> IF status # "Succeeded" THEN <<w.new>> ELSE <<>>
    [] OTHER -> <<>>

(* DeallocateMemory, one word: what its recycle policy frees. *)
LeftOver(status, w) ==
  CASE w.policy = "Always" -> IF status = "Succeeded" THEN <<w.old>> ELSE <<w.new>>
    [] w.policy = "OldOnSuccess" -> IF status = "Succeeded" THEN <<w.old>> ELSE <<>>
    [] w.policy = "NewOnFailure" -> IF status # "Succeeded" THEN <<w.new>> ELSE <<>>
    [] OTHER -> <<>>   \* Never, OnRecovery

(* DeallocateMemory: the memory the descriptor's words leave over. *)
Freed(d) ==
  LET all == FlattenSeq([i \in 1 .. Len(desc[d].words) |->
                           LeftOver(desc[d].status, desc[d].words[i])])
  IN SelectSeq(all, LAMBDA b : b # Reserved)

(* FreeDescriptor, by thread t. *)
FreeDescriptor(t, d) ==
  /\ FreeAll(t, Freed(d))
  /\ desc' = [desc EXCEPT ![d] = Initialized]
  /\ free_list' = [free_list EXCEPT ![OwnerPartition(d)] = <<d>> \o @]
  /\ UNCHANGED partVars

(* doCleanup and Abort: the descriptor goes to its partition's garbage list. *)
PushDescriptor(t, d) == Push(t, OwnerPartition(d), <<"desc", d>>)

=============================================================================
