----------------------------- MODULE PoolSystem -----------------------------
(***************************************************************************)
(* The descriptor pool, the garbage lists and the allocator under their    *)
(* users: threads that replace the memory blocks a few words point to,     *)
(* inside regions of epoch protection that their scripts open and close.   *)
(* kind is the way they do it:                                             *)
(*   "pool"  with an MwCAS, whose descriptor holds the old and new blocks; *)
(*   "list"  with a plain compare-exchange, pushing the old block to one   *)
(*           GarbageList that all of them share.                           *)
(* MwCAS() itself is two steps, its installation and its completion, which *)
(* another thread that meets the descriptor may take; PMwCAS has the rest. *)
(***************************************************************************)
EXTENDS DescriptorPool

CONSTANTS
  Kinds,    \* the kinds to explore
  Script,   \* per kind and thread: its calls
  ItemCount, \* per kind: the size of its garbage lists
  Addrs     \* the words, 1 .. n

ASSUME KindsAssumption == Kinds \subseteq {"pool", "list"}

(* Initialize() of a list refuses an item_count of zero. *)
ASSUME ItemCountAssumption == \A k \in Kinds : ItemCount[k] \in Nat \ {0}

(* A call that allocates asks for a number of bytes. *)
ASSUME RequestAssumption ==
  \A k \in Kinds, t \in Threads : \A i \in 1 .. Len(Script[k][t]) :
    Script[k][t][i].op \in {"mwcas", "abort", "swap"} => Script[k][t][i].size \in Nat

(* The first slab has room for the blocks that the words start with. *)
ASSUME LoadedAssumption ==
  /\ Nodes # {}
  /\ \A a \in Addrs : a \in Nat \ {0} /\ a * Rounded(1) <= SlabSize

VARIABLES
  kind,     \* never changes
  word,     \* per address: its block, the descriptor in it (or NoDesc)
            \* and how often the block has changed
  local,    \* per thread: its running operation
  next,     \* per thread: its next call
  holds,    \* per thread: what it has reached in its region
  left      \* blocks that a recycle policy left to the caller, or that
            \* were in the chains of a thread that has ended

fixed == <<kind, item_count>>
clientVars == <<word, local, next, holds, left>>
vars == <<fixed, clientVars, poolVars, allocVars, epochVars, listVars, gc>>

NoDesc == -1
Lists == IF kind = "pool" THEN Partitions ELSE {0}
Idle == [pc |-> "idle", d |-> NoDesc, old |-> <<>>, new |-> <<>>, seen |-> <<>>]

(* The loader has taken one small block for each word from the first slab. *)
InitialBlock(a) == <<CHOOSE n \in Nodes : TRUE,
                     (a - 1) * Rounded(1) + CacheLineSize>>

Init ==
  /\ kind \in Kinds
  /\ IF kind = "pool" THEN PartitionsInit(ItemCount[kind]) ELSE GarbageInit({0}, ItemCount[kind])
  /\ PoolInit
  /\ AllocInit([b \in {InitialBlock(a) : a \in Addrs} |-> DataSize(1)])
  /\ word = [a \in Addrs |-> [block |-> InitialBlock(a), d |-> NoDesc, ver |-> 0]]
  /\ local = [t \in Threads |-> Idle]
  /\ next = [t \in Threads |-> 1]
  /\ holds = [t \in Threads |-> {}]
  /\ left = {}

Op(t) == Script[kind][t][next[t]]
Calls(t, op) == next[t] <= Len(Script[kind][t]) /\ Op(t).op \in op
(* A call waits until the Push that ended the one before it is done. *)
At(t, pc) == local[t].pc = pc /\ GcAt(t, "idle")
Goto(t, l) == local' = [local EXCEPT ![t] = l] /\ UNCHANGED <<fixed, next>>
Return(t) ==
  /\ local' = [local EXCEPT ![t] = Idle]
  /\ next' = [next EXCEPT ![t] = @ + 1]
  /\ UNCHANGED fixed
Hold(t, x) == holds' = [holds EXCEPT ![t] = @ \union {x}]

-----------------------------------------------------------------------------
(* Regions *)

EnterRegion(t) ==
  /\ At(t, "idle") /\ Calls(t, {"protect"})
  /\ Protect(t) /\ Return(t)
  /\ UNCHANGED <<word, holds, left, poolVars, allocVars, listVars, gc>>

LeaveRegion(t) ==
  /\ At(t, "idle") /\ Calls(t, {"unprotect"})
  /\ Unprotect(t) /\ Return(t)
  /\ holds' = [holds EXCEPT ![t] = {}]
  /\ UNCHANGED <<word, left, poolVars, allocVars, listVars, gc>>

-----------------------------------------------------------------------------
(* kind = "pool": one MwCAS, or one that is aborted before it runs *)

UsesPool(t) == kind = "pool" /\ Calls(t, {"mwcas", "abort", "reserve"})

AllocateDescriptor(t) ==
  /\ At(t, "idle") /\ UsesPool(t)
  /\ \/ TakePartition(t) /\ UNCHANGED <<local, epochVars, gc>>
     \/ /\ TakeFree(t) /\ UNCHANGED <<epochVars, gc>>
        /\ local' = [local EXCEPT ![t] = [Idle EXCEPT !.pc = "fill", !.d = FirstFree(t)]]
     \/ BumpAndScavenge(t) /\ UNCHANGED <<local, poolVars>>
  /\ UNCHANGED <<fixed, word, next, holds, left, allocVars, listVars>>

(* Words that hold d get their final blocks, and d its status. *)
Complete(d) ==
  LET final(a) == CHOOSE w \in Range(desc[d].words) : w.addr = a IN
  /\ desc' = [desc EXCEPT ![d].status = "Succeeded"]
  /\ word' = [a \in Addrs |-> IF word[a].d # d THEN word[a]
                ELSE [block |-> final(a).new, d |-> NoDesc, ver |-> word[a].ver + 1]]

(* A descriptor in a word is completed first, by who meets it. *)
Help(t, a) ==
  /\ word[a].d # NoDesc
  /\ Complete(word[a].d)
  /\ Hold(t, <<"desc", word[a].d>>)
  /\ UNCHANGED <<fixed, local, next, left, partVars, free_list,
                 allocVars, epochVars, listVars, gc>>

(***************************************************************************)
(* The caller reads the next word and adds an entry for it: with the block *)
(* that AllocateAndAddEntry allocates, or with ReserveAndAddEntry.         *)
(***************************************************************************)
AddEntry(t) ==
  LET l == local[t]
      i == Len(l.seen) + 1
      a == Op(t).addrs[i]
      old == word[a].block
      add(new) ==
        /\ desc' = [desc EXCEPT ![l.d].words =
                      Append(@, Entry(a, old, new, Op(t).policy))]
        /\ Hold(t, <<"block", old>>)
        /\ Goto(t, [l EXCEPT !.seen = Append(@, word[a].ver),
                      !.pc = IF i = Len(Op(t).addrs) THEN "run" ELSE "fill"])
        /\ UNCHANGED <<word, left, partVars, free_list,
                       epochVars, listVars, gc>>
  IN /\ At(t, "fill")
     /\ \/ Help(t, a)
        \/ /\ word[a].d = NoDesc /\ Op(t).op # "reserve"
           /\ \E node \in Nodes :
                Allocate(t, Op(t).size, node) /\ add(Block(t, Op(t).size, node))
        \/ /\ word[a].d = NoDesc /\ Op(t).op = "reserve"
           /\ add(Reserved) /\ UNCHANGED allocVars

(* Abort(): for a descriptor that has not run. *)
Abort(t) ==
  LET d == local[t].d IN
  /\ At(t, "run") /\ Op(t).op \in {"abort", "reserve"}
  /\ desc[d].status = "Finished"
  /\ desc' = [desc EXCEPT ![d].status = "Failed"]
  /\ PushDescriptor(t, d)
  /\ Return(t)
  /\ UNCHANGED <<word, holds, left, partVars, free_list,
                 allocVars, epochVars, listVars>>

(* Mutant: the words are not compared with their old blocks. *)
InstallUncompared(t) ==
  LET d == local[t].d
      words == Range(desc[d].words)
  IN /\ At(t, "run") /\ Op(t).op = "mwcas"
     /\ \/ \E w \in words : Help(t, w.addr)
        \/ /\ \A w \in words : word[w.addr].d = NoDesc
           /\ desc' = [desc EXCEPT ![d].status = "Undecided"]
           /\ word' = [a \in Addrs |-> IF \E w \in words : w.addr = a
                                      THEN [word[a] EXCEPT !.d = d] ELSE word[a]]
           /\ Goto(t, [local[t] EXCEPT !.pc = "complete"])
           /\ UNCHANGED <<holds, left, partVars, free_list,
                          allocVars, epochVars, listVars, gc>>

(***************************************************************************)
(* The first phase of MwCAS(): the descriptor is put into all of its       *)
(* words, or fails if one of them has another block than expected.         *)
(***************************************************************************)
Install(t) ==
  LET d == local[t].d
      words == Range(desc[d].words)
      clean == \A w \in words : word[w.addr].d = NoDesc
      match == \A w \in words : word[w.addr].block = w.old
  IN /\ At(t, "run") /\ Op(t).op = "mwcas"
     /\ \/ \E w \in words : Help(t, w.addr)
        \/ /\ clean
           /\ desc' = [desc EXCEPT ![d].status = IF match THEN "Undecided" ELSE "Failed"]
           /\ word' = [a \in Addrs |->
                IF match /\ \E w \in words : w.addr = a
                THEN [word[a] EXCEPT !.d = d] ELSE word[a]]
           /\ Goto(t, [local[t] EXCEPT !.pc = IF match THEN "complete" ELSE "cleanup"])
           /\ UNCHANGED <<holds, left, partVars, free_list,
                          allocVars, epochVars, listVars, gc>>

(* The owner completes the operation, unless a helper has. *)
Finish(t) ==
  LET d == local[t].d IN
  /\ At(t, "complete")
  /\ IF desc[d].status = "Undecided" THEN Complete(d) ELSE UNCHANGED <<word, desc>>
  /\ Goto(t, [local[t] EXCEPT !.pc = "cleanup"])
  /\ UNCHANGED <<holds, left, partVars, free_list, allocVars,
                 epochVars, listVars, gc>>

(* Cleanup() *)
Cleanup(t) ==
  /\ At(t, "cleanup")
  /\ PushDescriptor(t, local[t].d)
  /\ Return(t)
  /\ UNCHANGED <<word, holds, left, poolVars, allocVars, epochVars, listVars>>

-----------------------------------------------------------------------------
(* kind = "list": a compare-exchange *)

(* The word is read, inside the region, and a block for it allocated. *)
Prepare(t) ==
  LET w == word[Op(t).addrs[1]] IN
  /\ At(t, "idle") /\ Calls(t, {"swap"})
  /\ Hold(t, <<"block", w.block>>)
  /\ \E node \in Nodes :
       /\ Allocate(t, Op(t).size, node)
       /\ Goto(t, [pc |-> "cas", d |-> NoDesc, old |-> w.block,
                   new |-> Block(t, Op(t).size, node), seen |-> <<w.ver>>])
  /\ UNCHANGED <<word, left, poolVars, epochVars, listVars, gc>>

Swap(t) ==
  LET a == Op(t).addrs[1]
      l == local[t]
  IN /\ At(t, "cas")
     /\ IF word[a].block = l.old
        THEN /\ word' = [word EXCEPT ![a].block = l.new, ![a].ver = @ + 1]
             /\ Goto(t, [l EXCEPT !.pc = "push"])
             /\ UNCHANGED allocVars
        ELSE FreeAll(t, <<l.new>>) /\ Return(t) /\ UNCHANGED word
     /\ UNCHANGED <<holds, left, poolVars, epochVars, listVars, gc>>

PushOld(t) ==
  /\ At(t, "push")
  /\ Push(t, 0, <<"block", local[t].old>>)
  /\ Return(t)
  /\ UNCHANGED <<word, holds, left, poolVars, allocVars, epochVars, listVars>>

(* As AllocateDescriptor scavenges: after a bump. *)
ScavengeList(t) ==
  /\ At(t, "idle") /\ Calls(t, {"scavenge"})
  /\ BumpCurrentEpoch /\ Scavenge(t, 0) /\ Return(t)
  /\ UNCHANGED <<word, holds, left, poolVars, allocVars, listVars>>

-----------------------------------------------------------------------------

(* What DeallocateMemory does not free of the block the operation replaced, *)
(* or did not get to use, is the caller's.                                  *)
LeftBy(d) ==
  {IF desc[d].status = "Succeeded" THEN w.old ELSE w.new : w \in Range(desc[d].words)}
    \ (Range(Freed(d)) \union {Reserved})

(* The destroy callbacks: of a descriptor, and of a block of the list. *)
DestroyDescriptor(t, item) ==
  IF item = <<>> THEN UNCHANGED <<poolVars, allocVars, left>>
  ELSE FreeDescriptor(t, item[2]) /\ left' = left \union LeftBy(item[2])

DestroyBlock(t, item) ==
  /\ IF item = <<>> THEN UNCHANGED allocVars ELSE FreeAll(t, <<item[2]>>)
  /\ UNCHANGED <<poolVars, left>>

Collect(t) ==
  /\ \/ TakeSlot(t, kind = "list") /\ UNCHANGED <<poolVars, allocVars, left>>
     \/ kind = "pool" /\ VisitOwnSlot(t) /\ DestroyDescriptor(t, OwnItem(t))
     \/ /\ kind = "list"
        /\ ReadSlot(t) \/ ClaimSlot(t) \/ CheckSlot(t)
        /\ UNCHANGED <<poolVars, allocVars, left>>
     \/ kind = "list" /\ DestroyItem(t) /\ DestroyBlock(t, Slot(t).item)
  /\ UNCHANGED <<fixed, word, local, next, holds>>

Step(t) ==
  \/ EnterRegion(t) \/ LeaveRegion(t) \/ AllocateDescriptor(t) \/ AddEntry(t)
  \/ Abort(t) \/ Install(t) \/ Finish(t) \/ Cleanup(t)
  \/ Prepare(t) \/ Swap(t) \/ PushOld(t) \/ ScavengeList(t)
  \/ Collect(t)

(***************************************************************************)
(* The threads end, are joined, and new ones take their places, as between *)
(* loading and a benchmark: "So % partition_count_ here is safe.  This is  *)
(* so far the only safe case allowed."                                     *)
(***************************************************************************)
NewThreads ==
  /\ \A t \in Threads : At(t, "idle") /\ Calls(t, {"end"})
  /\ next' = [t \in Threads |-> next[t] + 1]
  /\ join([t \in Threads |-> NoPartition], tls_part')
  /\ FreshTls
  /\ left' = left \union {b \in DOMAIN size :
       \E t \in Threads : b \in Range(tls_map[t][size[b]])}
  /\ UNCHANGED <<fixed, word, local, holds, next_partition, free_list, desc,
                 epochVars, listVars, gc>>

AllDone == \A t \in Threads : next[t] > Len(Script[kind][t]) /\ GcAt(t, "idle")

(* Before the pool goes away, the test fixtures clear the registry. *)
ClosePool ==
  /\ AllDone /\ kind = "pool" /\ \E t \in Threads : registry[t] # <<>>
  /\ ClearRegistry(tls_part, tls_part')
  /\ UNCHANGED <<fixed, clientVars, next_partition, free_list, desc, allocVars,
                 epochVars, listVars, gc>>

(* At the end the list is destroyed by the thread that is left, t. *)
Close(t) ==
  LET all == {items[0][s].item : s \in Slots} \ {<<>>} IN
  /\ AllDone /\ kind = "list" /\ all # {}
  /\ FreeAll(t, SetToSeq({x[2] : x \in all}))
  /\ Uninitialize(0)
  /\ UNCHANGED <<fixed, clientVars, poolVars>>

Finished ==
  /\ AllDone
  /\ IF kind = "list" THEN \A s \in Slots : items[0][s] = Empty
     ELSE \A t \in Threads : registry[t] = <<>>

Next ==
  \/ \E t \in Threads : Step(t)
  \/ NewThreads \/ ClosePool
  \/ Close(CHOOSE t \in Threads : TRUE)
  \/ Finished /\ UNCHANGED vars

Spec ==
  /\ Init /\ [][Next]_vars
  /\ \A t \in Threads : WF_vars(Step(t))
  /\ WF_vars(NewThreads)

-----------------------------------------------------------------------------

(* Every variable has the type of its C++ counterpart. *)
PoolTypeOK ==
  /\ safe_to_reclaim_epoch < current_epoch
  /\ \A l \in Lists : tail[l] \in Slots /\ \A s \in Slots : items[l][s].epoch >= Invalid
  /\ \A t \in Threads : tls_part[t] \in Partitions \union {NoPartition}
  /\ \A d \in Descriptors :
       desc[d].status \in {"Finished", "Undecided", "Succeeded", "Failed"}
  /\ \A a \in Addrs : word[a].d \in Descriptors \union {NoDesc}

Available ==
  UNION {{<<"desc", d>> : d \in Range(free_list[p])} : p \in Partitions}
    \union UNION {{<<"block", b>> : b \in Range(tls_map[t][s])} :
                    t \in Threads, s \in DataSizes}

(***************************************************************************)
(* GarbageList::Push: a pushed item "will remain live until the            *)
(* EpochManager indicates that no threads will ever access it again": no   *)
(* descriptor is in a free list, and no block in a chain of the allocator, *)
(* that a thread has reached in the region it is in.                       *)
(***************************************************************************)
NothingFreedWhileHeld == \A t \in Threads : holds[t] \intersect Available = {}

(***************************************************************************)
(* The compare-exchange of removal_epoch, in Push and Scavenge: a slot has *)
(* one owner at a time, and its owner finds in it the item whose epoch it  *)
(* read; "If someone replaces the old item with a new one of the same      *)
(* epoch number, that's ok."                                               *)
(***************************************************************************)
SlotExclusive ==
  \A t \in Threads : gc[t].pc \in {"check", "destroy"} =>
    /\ items[0][gc[t].slot].epoch = Invalid
    /\ (gc[t].prior = 0) <=> (items[0][gc[t].slot].item = <<>>)
    /\ \A u \in Threads \ {t} :
         gc[u].pc \in {"check", "destroy"} => gc[u].slot # gc[t].slot

(***************************************************************************)
(* "TODO: Currently we actually require strictly TLS partitions - there is *)
(* no CC whatsoever for partitions": what AllocateBaseDescriptor hands out *)
(* round robin is never the partition of another running thread, also when *)
(* the counter has gone round.                                             *)
(***************************************************************************)
PartitionsExclusive ==
  \A t, u \in Threads : t # u /\ tls_part[t] = tls_part[u] => tls_part[t] = NoPartition

(***************************************************************************)
(* Thread: ClearRegistry is there "to ensure all TLS variables do not      *)
(* point to previously destroyed resources".  A thread's partition is on   *)
(* its TlsList for as long as tls_part points to it, whatever threads had  *)
(* its id before and whatever they left there.                             *)
(***************************************************************************)
TlsRegistered ==
  \A t \in Threads : tls_part[t] # NoPartition =>
    [ptr |-> t, val |-> NoPartition] \in Range(registry[t])

(* How often x is in sequence s. *)
Times(x, s) == Cardinality({i \in DOMAIN s : s[i] = x})

(* The items of the lists, and those that are about to be filled in. *)
Listed(x) ==
  Cardinality({ls \in Lists \X Slots : items[ls[1]][ls[2]].item = x})
    + Cardinality({t \in Threads : gc[t].item = x})

DescPlaces(d) ==
  Times(d, free_list[OwnerPartition(d)]) + Listed(<<"desc", d>>)
    + Cardinality({t \in Threads : local[t].d = d})

(* A descriptor owns the new block of a word, and after success the old one. *)
Owns(d, b) ==
  \E w \in Range(desc[d].words) :
    b = IF desc[d].status = "Succeeded" THEN w.old ELSE w.new

BlockPlaces(b) ==
  Cardinality({a \in Addrs : word[a].block = b})
    + Cardinality({d \in Descriptors : Owns(d, b)})
    + Cardinality({t \in Threads : local[t].pc = "cas" /\ local[t].new = b})
    + Cardinality({t \in Threads : local[t].pc = "push" /\ local[t].old = b})
    + FoldSet(LAMBDA t, n : n + Times(b, tls_map[t][size[b]]), 0, Threads)
    + Listed(<<"block", b>>)
    + (IF b \in left THEN 1 ELSE 0)

(***************************************************************************)
(* FreeDescriptor, DeallocateMemory, Push and Scavenge: whatever the       *)
(* threads, the policies and the races for a slot, every descriptor and    *)
(* every block is in exactly one place; none is lost, and none is freed    *)
(* twice.                                                                  *)
(***************************************************************************)
Accounted ==
  /\ kind = "pool" => \A d \in Descriptors : DescPlaces(d) = 1
  /\ \A b \in DOMAIN size : BlockPlaces(b) = 1

(***************************************************************************)
(* TlsAllocator: no two blocks, header included, share a byte, although    *)
(* the threads cut their slabs from the same memory.                       *)
(***************************************************************************)
BlocksDisjoint ==
  \A b, c \in DOMAIN size : b # c /\ b[1] = c[1] =>
    \/ b[2] + size[b] <= c[2] - CacheLineSize
    \/ c[2] + size[c] <= b[2] - CacheLineSize

(***************************************************************************)
(* An operation takes effect only on words that nobody has changed since   *)
(* its thread read them: a block that was replaced is not handed out again *)
(* and put back into the word while a thread that read it is in its region.*)
(***************************************************************************)
NoABA ==
  [][\A t \in Threads :
       /\ local[t].pc = "run" /\ local'[t].pc = "complete" =>
            \A i \in DOMAIN local[t].seen : word[Op(t).addrs[i]].ver = local[t].seen[i]
       /\ local[t].pc = "cas" /\ local'[t].pc = "push" =>
            word[Op(t).addrs[1]].ver = local[t].seen[1]]_vars

(***************************************************************************)
(* AllocateDescriptor's loop over BumpCurrentEpoch and Scavenge, and       *)
(* Push's search for a slot, come to an end: every call returns.           *)
(***************************************************************************)
AllReturn == <>AllDone

=============================================================================
