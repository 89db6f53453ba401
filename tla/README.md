# A TLA+ verification of pmwcas

pmwcas is a C++ library for atomically changing several 8-byte words in
non-volatile memory (NVRAM). This directory holds TLA+ modules of the library,
TLC configurations that check them on small instances, and proofs checked by
TLAPS. All paths below are relative to the root of the repository
(`src/` here is the repository root, `src/src/` its source directory).

## 1. The system

| Part | Source | State | Operations |
|---|---|---|---|
| Epoch manager | `common/epoch.{h,cc}` | current epoch, safe epoch, table of protected epochs | Protect, Unprotect, BumpCurrentEpoch, IsSafeToReclaim |
| Garbage lists | `common/garbage_list*.h` | ring of items stamped with a removal epoch | Push, Scavenge |
| Multi-word CAS | `mwcas/mwcas.{h,cc}` | target words, descriptors (`status_`, `words_`) | AddEntry, MwCAS, GetValueProtected |
| Descriptor pool | `mwcas/mwcas.{h,cc}` | partitions with free list and garbage list | AllocateDescriptor, AllocateAndAddEntry, Abort, FreeDescriptor, recovery in the constructor |
| Allocator, threads | `environment/environment_linux.h`, `common/environment_internal.*` | slabs and chains of free blocks per thread; registry of thread-local variables | Allocate, Free, RegisterTls, ClearTls, ClearRegistry, join |
| FASAS | `mwcas/FASASDescriptor.*`, `mwcas/OptmizedFASASDescriptor.*` | descriptor with shared word and private address | fetch-and-store-and-store, double CAS, recoverable CAS |
| Recoverable CAS, mutex (not modelled) | `benchmarks/RecoverCAS.*`, `RecoverMutex.*`, `fetchStoreStore.*` | target word, notifications, queue of waiting nodes | Cas, lock, unlock |
| Queues (not modelled) | `benchmarks/MSQueue*` | linked nodes, head, tail, per-thread private words | enq, deq, recover |
| Node pool of the queues (not modelled) | `benchmarks/NodePool.*`, `NodeGarbageList.h` | free lists of nodes | Allocate, Release, Free |
| Lists | `double-linked-list/` | nodes with next and prev | InsertBefore, InsertAfter, Delete, cursor |

How they interact. A thread enters a protected region, takes a descriptor from
its partition, adds entries, and calls `MwCAS()`. The descriptor is persisted,
then a pointer to it is installed in every target word, in address order, by
the conditional CAS of `CondCAS`. A thread that runs into the pointer of
another operation completes that operation first (helping). One
compare-exchange of `status_` decides the operation; afterwards all words get
their final values. Everything that is stored carries a dirty flag until it has
been flushed. The owner then pushes the descriptor to the garbage list, which
frees it once the epoch manager says that nobody can still reach it. After a
crash the constructor of the pool rolls every unfinished operation forward or
back. A FASAS operation exchanges one shared word and stores into a private word
of its thread as one step; it has descriptors and a recovery of its own. The
lists are clients of the multi-word CAS, or of plain CAS, and the queues and the
mutex of the benchmark programs are clients of all of these.

What makes it hard: several threads execute the same operation at different
places; the status is read and used in two steps; a cache line may reach NVRAM
at any moment or not at all; a thread may be asleep with an old pointer while
its descriptor is retired; on x86 a store may become visible after later loads.
`PROJECT.json` lists these hazards with the lines where they bite.

What must hold: no item is reclaimed while a protected thread holds it; an
operation takes effect on all of its words at once or on none; all operations
return; after a crash and recovery the words hold the result of the operations
in the order of their decision, without losing one whose success was reported;
descriptors and blocks are neither lost nor freed twice; a list changes by one
insertion or deletion at a time.

## 2. The modules

| Module | Models |
|---|---|
| `EpochManager` | the epoch manager, one action per shared-memory access |
| `EpochReclaim` | its users: items that are linked, reached, unlinked, retired and reclaimed; the properties |
| `EpochProofs` | theorems about `EpochReclaim` |
| `AtomicMwCAS` | what the multi-word CAS promises: an operation succeeds in one step or fails without a trace |
| `PMwCAS` | AddEntry, CondCAS, MwCAS and MwCASWithFailure with helping, and the reads, in the persistent and the volatile build |
| `PMwCASSystem` | `PMwCAS` with retirement, recycling, power failure and recovery |
| `Invariants`, `Durability` | the inductive invariants of `PMwCAS` and of `PMwCASSystem` (definitions only) |
| `StepProofs` | lemmas about the data of `PMwCAS`, what each of its actions does to a call, what a history replays to, and what a crash and recovery make of the words |
| `InvariantProofs`, `PMwCASProofs` | every step of `PMwCAS` keeps the invariant, and the theorems about it |
| `NvramProofs`, `SystemProofs` | what NVRAM may hold while threads run, and the theorems about `PMwCASSystem` |
| `AtomicFASAS` | what a FASAS operation promises: shared word, private word and result change together |
| `FASASMemory` | state and helpers of both implementations: volatile and non-volatile contents, operation codes |
| `FASAS`, `OptFASAS` | `FASASDescriptor` and `OptmizedFASASDescriptor`: operation, helping, read, recovery |
| `FASASSystem` | either of them with its callers and power failures; the properties |
| `FASASProofs` | a theorem about `FASASSystem` with the plain descriptors |
| `ThreadRegistry` | `Thread` and its registry of thread-local variables |
| `TlsAllocator` | the thread-local allocator: slabs, chains |
| `GarbageList` | `GarbageList` and `GarbageListUnsafe` |
| `DescriptorPool` | partitions, allocation, recycle policies, FreeDescriptor |
| `PoolSystem` | the four above under threads that replace blocks; the properties |
| `PoolProofs` | theorems about `PoolSystem` |
| `AtomicDList` | what a list promises: a sequence that one insertion or deletion changes at a time |
| `DList` | nodes, callers and cursors of both lists |
| `MwCASDList`, `CASDList` | the two lists |
| `DListSystem` | either of them with its properties |
| `MCEpoch`, `MCPMwCAS`, `MCSystem`, `MCScripts`, `MCFASAS`, `MCPool`, `MCDList` | instances for TLC |

### EpochManager and EpochReclaim

`current_epoch`, `safe_to_reclaim_epoch`, `protected_epoch`, `thread_id` and
`tls` are the fields of the same names; `loaded` and `oldest_call` are the local
variables of Protect() and of a bump, `scan` the table entry a bump reads next.
Protect() is LoadEpoch, ReserveEntry (on the first call), Protect and Fence;
BumpCurrentEpoch() is a fetch_add, one ScanEntry per entry and StoreSafe. Bumps
of several threads overlap.

A store to the own table entry goes to a store buffer (x86-TSO) and becomes
visible by Drain. A locked instruction waits for an empty buffer. `SeqCstStore`
chooses between the two readings of Protect(): FALSE is the code, a release
store followed by an acquire fence, for which x86 compilers emit a plain store;
TRUE is what the comment in `epoch.h` says, a sequentially consistent store.
The store of the safe epoch is not buffered, a simplification: to all other
threads a delayed store looks like that of a slower bump, and bumps of any speed
are in the model.

A thread retires and reclaims at any time; what holds for the model therefore
holds for every garbage list that stamps after unlinking and asks
IsSafeToReclaim before freeing.

### PMwCAS

A thread is a stack of frames. The bottom frame is its own MwCAS or read, the
frames above are the recursive calls of PersistentMwCAS by which it helps. A
frame holds the operation, the index of the loop over its words, a program
counter named after the code's next access, and the locals of CondCAS (`ret`,
`desired`, and `new`, the value whose choice read `status_` just before the
compare-exchange). Word contents are records: a value, an MwCAS pointer or a
CondCAS pointer, and the dirty flag. `words` is computed by `AddEntry` from the
calls in program order, so that sorting is part of the model.

`nvram[a]` is the set of values NVRAM may hold for a word, `nvstatus[d]` that of
a status. A store adds to the set and a flush leaves only the present value, so
a crash at any moment, with any choice of evicted lines, is a choice from these
sets.

`build` is "pmem" or "volatile" and never changes; the volatile build skips
the flushes and dirty flags, returns at once when it helps a decided operation,
and has no other difference. `stops[t]` says where a MwCASWithFailure of t gives
up; the operation is then left to whoever meets it.

`hist` and `acked` are history variables: the successful operations in the order
in which they were decided, and those whose success a caller was told of or
whose value a reader returned.

### PMwCASSystem

A thread is protected from the start of an operation to its return. `grace[d]`
is the set of threads that were protected when `d` was retired and still are;
FreeDescriptor waits until it is empty, which is what the epoch manager promises
(theorem `ProtectedAccessIsSafe`). Crash loses threads and caches. Recovery
works word by word, so that another crash may interrupt it; the two RAW_CHECKs
that can fail are phases of their own. After recovery, Reinitialize clears and
constructs the pool without flushing it, as the code does, and a crash may hit
that pool, too.

### FASASMemory, FASAS, OptFASAS and FASASSystem

One shared word, one private word per thread, and descriptors: `FASAS` has one
per operation, `OptFASAS` one per thread that is used again and again. `nv` gives
the set of contents NVRAM may hold for each word and each descriptor line, as in
`PMwCAS`; a descriptor fits into one cache line, so its fields are one record that
reaches NVRAM as a whole. `opType_` packs the operation, and for a double CAS the
value of the private word, into one number: `setOpTypeFlg`, `isDoubleCAS` and
`getDCASValue` are modelled by their bits, scaled down to 8, 16 and 32.
`kind` chooses the implementation. A local has a program counter named after the
next access; a helper runs on the helped operation's descriptor with its own
locals.

The sequence number of `OptFASAS` has its four bits; `FirstSeq` lets a run start
just before they wrap. The refinement mapping to `AtomicFASAS` (`Atomic` in
`FASASSystem`) takes an operation as done from the compare-exchange of the shared
word on, and until its private word is written shows there what will be stored.

### ThreadRegistry, TlsAllocator, GarbageList, DescriptorPool and PoolSystem

A block is a pair of a node and an offset, so that overlap is arithmetic. A list
is a ring of slots with `removal_epoch` and `removed_item`; Push and Scavenge of
the shared list are one action per access to a slot, those of the thread-owned
one are one per slot. The epoch manager is used through its interface (four
atomic operations); `EpochManager` has its steps.

`PoolSystem` has two kinds of users. "pool": MwCAS operations whose descriptors
are allocated, filled, run or aborted, pushed, scavenged and freed with the memory
that their recycle policies leave over; MwCAS() itself is an installation and a
completion, which a helper may take. "list": a compare-exchange of one word
whose old block goes to the shared list. `ver` counts the changes of a word, for
NoABA only.

After their last call before `End` all threads end, are joined, and new ones with
the same ids take over (NewThreads), the only change of threads that a comment in
AllocateBaseDescriptor allows. join() calls ClearTls() when get_id() has become
the empty id, so the entries of the old threads stay in the registry, and what
was in their chains is not available again. ClosePool is the ClearRegistry() of
the test fixtures.

A round of AllocateDescriptor's or Push's search that would change nothing but
the number of the current epoch is left out (`RoundMatters`). This keeps the
states finite while a thread spins.

### AtomicDList, DList, MwCASDList, CASDList and DListSystem

`nx` and `pv` are the links of a node, a pointer and its deleted mark. A thread
is in one call; `local` has the locals of the call and of the procedures it may
be in (GetNext, CorrectPrev, Delete), with return addresses. In `MwCASDList` an
MwCAS is one step, as `PMwCAS` shows it to be. `CASDList` has one action per
access. `seen` and `present` are history variables of a cursor: the nodes it
visited, and those that have been in the list all the time.

## 3. What is checked

Passing runs:

* `epoch_protect` (`MCEpoch.cfg`): two threads, one item, two table entries,
  epochs up to 4, sequentially consistent store; 376,569 states. Two threads are
  enough for a bump that overlaps a Protect, for two overlapping bumps and for
  two threads that want the same entry. Four epochs let an item be stamped,
  become safe and be linked again while a slow bump still holds an old bound;
  a store buffer of two holds the 0 of an Unprotect and the next epoch. The
  theorems remove all these bounds. Symmetric in the threads.
* `mwcas` (`MCPMwCASThen.cfg`): two operations on the same two words, added in
  opposite orders, then reads and an operation that only one outcome makes
  possible; both builds; one operation may stop at any place of
  MwCASWithFailure; 30,819 states. It implements `AtomicMwCAS` (refinement mapping
  in `PMwCAS`, `Atomic`), nobody helps in a circle, words are persistent before
  the decision, and everybody returns. A stack of 4 frames is never exceeded
  here: a thread at the bound would be stuck, which AllReturn and the deadlock
  check would report. AllReturn has one exception, which is the code's: in the
  volatile build a decided operation whose owner stops before its last phase is
  finished by nobody.
* `crash` (`MCSystemCrash.cfg`): the two conflicting operations and a reader,
  with recycling and up to two crashes at any step of an operation, of recovery
  or after it; both builds; 305,197 states. Two crashes are what it
  takes to interrupt recovery or to hit the pool that recovery has made.
* `fasas` (`MCFASAS.cfg`): two threads, one with a fetch-and-store and a double
  CAS that depends on it, the other with a read, a fetch-and-store and a
  recoverable CAS; 170,372 states. Each kind of operation meets each other kind.
  One power failure for `FASAS`, which stops after recovery; two for `OptFASAS`,
  which goes on, so that its recovery is interrupted, too. 4 descriptors
  per thread of `FASAS`: one that needs a fifth would wait for ever, which
  AllReturn and the deadlock check would report. As long as the power is on both implement `AtomicFASAS`;
  what NVRAM holds always suffices to finish or to undo an operation; recovery of
  `OptFASAS` is durably linearizable, and so is that of `FASAS` unless an operation
  is persistent as successful and unfinished (see `fasas_recovery`).
* `pool` (`MCPool.cfg`): two threads, two words, a pool of 3 rounded up to 4
  descriptors in 2 partitions, rings of 8 and 4 slots, slabs of 8 bytes in a node
  of 40, requests of one and two cache lines, all recycle policies but the one
  for recovery, two generations of threads; 153,671 states. A partition has two
  descriptors, so that the third operation must scavenge; a ring of 4 goes round
  and is searched while slots are claimed. Nothing is freed while held, slots and
  partitions have one owner, every descriptor and every block is in one place,
  blocks are disjoint, no operation suffers from ABA, registered variables are
  those of running threads, and all calls return.
* `dlist` (`MCDList.cfg`): five programs of two or three threads on a list of two
  nodes: inserts next to nodes that are being deleted, a delete of a node that is
  being inserted, an insert between two adjacent deletes, two deletes of one node under cursors in both
  directions, and deletes and inserts at the head and tail; both lists; 164,270
  states. Each call is one change of the abstract sequence (`ChangesAtomically`),
  the condition of SingleThreadSanityCheck holds at every moment for the list over
  MwCAS and whenever no call is running for the other (`SanityCheck`), a cursor visits every node that was in the list all
  the time (`WalkComplete`), no thread follows a null or marked pointer
  (`DListTypeOK`), and all calls return.

Runs that show a disagreement between the code and what it says of itself (the
findings in `PROJECT.json`):

* `epoch_plain_store`: with the store the code really makes, a bump can scan the
  table while the epoch of a protected thread is still in its store buffer; an
  item the thread holds is then reclaimed.
* `mwcas_aba`: CondCAS reads the status and installs the pointer in two steps.
  When a later operation restores the old value, a late helper puts back the
  CondCAS pointer of the decided operation and its owner, which had seen the
  status Undecided, replaces it by the MwCAS pointer: the operation takes effect
  a second time.
* `mwcas_help_cycle`: the early return for decided operations is commented out.
  A helper of a decided operation enters its install loop again, there meets the
  operation it was called from and helps that one, and so on.
* `crash_new_pool`: the statuses of a new pool are never flushed. After a crash
  descriptor 0 may read as zero; recovery takes the pool for a new one and
  leaves descriptor pointers in the words.
* `recycle_late_helper`: a late helper of a failed operation puts a CondCAS
  pointer back after the owner retired the descriptor; a reader that starts now
  uses the descriptor after it was freed.
* `fasas_recovery`: getStatus() is 0 or bit 62, and recovery compares it with
  SuccStatus, which is 1. It never completes an operation that is persistent as
  successful: the private word keeps its old value, or the shared word a pointer
  to a descriptor.

The passing runs of `PMwCAS` use scripts on which the findings do not occur: no
operation restores an old value, and the pool has reached NVRAM. What they show
holds under these two conditions. The cyclic help needs an operation whose old
values are the new values of another on two or more words (`ChainEntries`).

Fairness. `OpSpec` and the `Spec`s of `FASASSystem`, `PoolSystem` and `DListSystem`
assume weak fairness of each thread's steps: every thread is scheduled. In
`FASASSystem` a restarted program also runs its recovery, and in `PoolSystem` the
program starts its next threads when all have ended. Only the properties that all
calls return need it. Retries end because the scripts are finite; nothing is
assumed about who wins a compare-exchange. `EpochReclaim` and `PMwCASSystem` are
checked for safety only. `Done`, `Halt` and `Finished` are the stuttering of a
finished program, so that deadlock is checked everywhere.

## 4. What is proved

`EpochProofs` proves four theorems about `EpochReclaim` for every set of
threads, table size, set of items and epoch bound. The assumptions are the named
ASSUMEs of `EpochManager`: the table size and the bounds are natural numbers,
`SeqCstStore` is a Boolean, and the two null values differ from the things they
stand beside.

* `TypeCorrect`, `SafeEpochBelowCurrent`, `ExclusiveEntries`: for both values of
  `SeqCstStore`. The inductive invariant `BaseInv` adds that an entry carries
  the id of the thread that uses it (`EntryInv`; without it two threads could
  own one entry after a step) and that a running bump's bound is at least 1 and
  below the current epoch (`BumpInv`; without it StoreSafe could reach the
  current epoch, or wrap below zero).
* `ProtectedAccessIsSafe`: if the store is sequentially consistent, no item is
  reclaimed while a protected thread that reached it is in its region. That the
  safe epoch is below the item's stamp is not inductive: a bump that is under
  way may be about to store a larger one. The invariant `HoldInv` speaks about
  running bumps, too. For each held item (`Covered`), every running bump either
  has a bound no higher than the item's stamp or has yet to read the entry of
  the holder, and that entry shows an epoch no higher than the stamp
  (`PublishedInv`). The latter is exactly what fails for the plain store.

`PoolProofs` proves four theorems about `PoolSystem` for all
scripts, threads, nodes and sizes. The assumptions are the named ASSUMEs of
`TlsAllocator`, `DescriptorPool` and `PoolSystem`: sizes are natural numbers, there
is a partition, a ring is not empty, a call that allocates asks for a number of
bytes, and the first slab has room for the blocks the words start with.

* `SlotsAreExclusive`: a slot of the shared list has one owner, which finds in it
  the item whose epoch it read. The inductive invariant `SlotInv` adds what makes
  the compare-exchange enough: a claimed slot shows Invalid, an expected epoch
  never is Invalid, and an unclaimed slot has an epoch if and only if it has an
  item (`EntryOK`), because what Push stores is stamped with an epoch above zero
  (`CallOK`).
* `BlocksAreDisjoint`: blocks handed out never share a byte. The invariant
  `SlabsInv` adds that slabs are apart and below the counter of their node, and
  that no block reaches into the unused rest of any slab (`OutsideRest`), of its
  own or another thread's; without the last, a block could be cut over one that
  an earlier generation of threads still uses. `CallInv` ties a thread in the
  middle of a call to its script, which bounds the size it asks for.
* `PartitionsAreRegistered`: a thread with a partition has its variable on the
  TlsList of its id, so ClearRegistry resets it. `RegistryInv` adds that a list
  holds nothing but the variable of its thread and the value it is reset to, also
  what earlier threads with that id left behind (`ResetClears`).
* `PartitionsAreExclusive`: if there are no more threads than partitions, no two
  threads share one, although they are dealt out round robin by a counter that is
  never reset. `PartitionInv` says that the partitions ahead of the counter, as many
  as threads may still take, are nobody's; `Remainders` is the arithmetic behind it.
  With more threads than partitions two of them share a list without concurrency
  control, which the TODO in the code warns of.

`FASASProofs` proves one theorem about `FASASSystem`, for any number of threads and
any scripts. The assumption is `ScriptAssumption` of `FASASMemory`: the scripts are
sequences of the four operations.

* `PlainRunsAtomically`: while the power is on, `FASAS` implements `AtomicFASAS`.
  The compare-exchange of the shared word maps to the abstract step; the private
  word is then shown as what its owner will store. `RunInv` says that a pointer in
  the shared word is that of a descriptor that has been filled in (`SharedInv`), and
  for each place of an owner or a helper what its descriptor says (`OperationInv`).
  Every step `Keeps` what the descriptors that are filled in say of their operations;
  a helper that comes late, or is asleep while the owner finishes, therefore puts the
  right value in place or finds the pointer gone.

`PMwCASProofs` proves three theorems about `PMwCAS`, for any number of threads,
descriptors and words, any scripts, both builds and any depth of helping.
`WordsSorted` (in `StepProofs`) is the fact about AddEntry they rest on: a
descriptor has exactly the entries it was given, in address order. The assumptions
are the named ASSUMEs of `PMwCAS`: addresses and values are integers, a descriptor
has one to four entries for different addresses (AddEntry refuses a fifth one and
a second one for an address; an operation without words is not modelled), and no
two calls in the scripts are of the same descriptor.

* `TypeCorrect`: no loop leaves the words of its descriptor, and a word never
  holds anything but a value or a pointer into the pool. `TypeInv` adds, for each
  place in a call, the kind of word it has in hand there (`FrameOK`), that a read
  is at the bottom of its stack (`StackOK`), and that what a read returns was
  written by a successful operation (`SawOK`).
* `PersistedBeforeDecided`: whoever decides an operation as successful, NVRAM then
  holds its pointer in all its words. The invariant `OpInv` says for each call, by
  the place it has reached, what it may rely on (`CallInv`): while its operation
  is undecided the words before its index hold the pointer, later that they are
  persistent, later that the operation is decided. That a word without the dirty
  flag is persistent (`MemInv`) is needed because a helper skips the flush of such
  a word; what a call knows of another operation's pointer (`PointerInv`) because
  it may be asleep with it while that operation finishes.
* `Atomicity`: `PMwCAS` implements `AtomicMwCAS` if no word takes back a value that
  an operation has replaced (`NeverRestored`: values can be ranked so that every
  operation keeps a word or raises it). The compare-exchange of `status_` maps
  to the abstract step. That every other step leaves the logical value of all words
  alone needs `RaisedInv`: the words of a successful operation are at its new
  values or later ones, so that a late CondCAS finds no old value to replace.
  Without the hypothesis this is false; `mwcas_aba` shows the run.

`SystemProofs` proves four theorems about `PMwCASSystem`.

* `SystemTypeCorrect`: with recycling, crashes and crashes during recovery.
* `Linearized`: up to the first crash the words stand for what the successful
  operations produce in the order of their decision, and each found its old
  values. Hypotheses: `NeverRestored`, and no recycling (`Recycle` is FALSE).
* `Durable`: after any number of crashes, during operation or during recovery, the
  words hold what some of the successful operations produce, in the order of their
  decision, each on all its words; every operation that a caller or reader was told
  of is among them. `RecoveryFindsValidFields`: recovery never trips RAW_CHECK
  "invalid field value". Hypotheses: every operation raises each of its words
  (`AlwaysIncreasing`), no recycling, and a pool that had reached NVRAM before the
  first call (`PoolPersisted`).

  While threads run, `NvInv` says what NVRAM may hold: in each word the present
  value, or a pointer of the operation that wrote it, or one of an unsuccessful
  operation that expects this value, and descriptors whose pointers it may hold
  are persistent (`NvMemInv`). The heart is `UnsettledInv`: as long as NVRAM may
  not know of a success, it holds the operation's pointer, and nothing else, in all
  its words, and no later operation has succeeded on any of them. The success can
  therefore still be taken back without undoing another. A caller is only told of
  what NVRAM knows (`AckedInv`), which for a reader needs that the helper it called
  has persisted the status (`NvFrameInv`). A crash then picks the survivors, and
  `RecInv` holds from there on: a word is as the survivors leave it, or recovery
  has still to visit the descriptor whose pointer is in it and will make it so.
  Another crash finds each word persistent and each status unchanged and starts
  again from the first descriptor.

  The hypotheses are needed. `crash_new_pool` shows the run without the third,
  `recycle_late_helper` one with recycling. Where old and new value of a word
  are the same, a late helper can install its CondCAS pointer after the operation
  has succeeded; a crash at that moment trips the RAW_CHECK.

Only model-checked: the lists, the optimized FASAS descriptors (their four-bit
sequence numbers wrap, so what holds is a matter of how many operations a helper can
sleep through), the recovery of both kinds of FASAS, the other properties of
`PoolSystem`,
`NoHelpCycle` and `NoUseAfterFree`, which hold for the scripts of their passing runs
and fail for others (`mwcas_help_cycle`, `recycle_late_helper`), `Linearizable` and
`DurablyLinearizable` with recycling, and all liveness. Liveness under fairness and
ENABLED are outside the prover; what FreeAll does with a sequence of blocks is an
induction over data, which is outside it as well. (`WordsSorted` needs no induction: a
descriptor has at most four entries. `Reset` is defined by the last entry of a
variable, whose existence follows from the well-founded order of the numbers.)

## 5. What is not modelled

* In `PMwCAS` one operation uses one descriptor; a descriptor is freed, and its
  status becomes Finished, but it is not used again for other words.
  `DescriptorPool` has the reuse, with MwCAS() as two steps.
* A descriptor of the multi-word CAS is persisted as a whole. A crash in the
  middle of its flush, or of the clearing of the pool, can leave a mixture of
  lines; only the status has this freedom in the model. The contents of every
  line of every descriptor would take the crash run far beyond what TLC finishes.
* RTM: the first phase as one hardware transaction, whose aborts are up to the
  processor.
* The dirty flags and flushes of the lists, and so what a crash leaves of them.
* The end of a thread in the epoch manager: its table entry stays taken.
* The benchmark programs (`benchmarks/`): `RecoverCAS`, a recoverable CAS without
  descriptors; `RecoverMutex`, a client of FASAS; four queues with recovery
  protocols of their own; the node pool, whose epochs and lists are variants of
  the modelled ones; the drivers. They measure the library, and each would be a
  project of its own size; `PROJECT.json` lists what is at stake in their recovery.
* Files, shared-memory segments, NUMA binding, affinity, the Windows environment,
  metrics, logging and command lines: system calls and bookkeeping without a
  protocol. Mapped memory stays mapped, and an allocation that runs out of memory
  ends the program.

Known beyond the runs: after a recovery the pool is cleared and constructed
without a flush, so a second crash may find a zeroed descriptor behind one that
is not and stop at RAW_CHECK "corrupted descriptor pool/data area"; the phase
`corrupted_pool` is reachable in `crash`.
