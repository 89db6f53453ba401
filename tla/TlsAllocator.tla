---------------------------- MODULE TlsAllocator ----------------------------
(***************************************************************************)
(* src/environment/environment_linux.h, TlsAllocator: memory is cut from   *)
(* thread-local slabs, which are cut from the memory of a NUMA node.  What *)
(* is freed goes to a chain of the freeing thread, one chain for each size *)
(* of block, and is handed out again from there.                           *)
(***************************************************************************)
EXTENDS ThreadRegistry, FiniteSets

CONSTANTS
  Nodes,            \* NUMA nodes; a thread may run on any of them
  CacheLineSize,    \* kCacheLineSize, also the size of a Header
  SlabSize,         \* kSlabSize
  NumaMemorySize    \* kNumaMemorySize

ASSUME SizeAssumption ==
  /\ CacheLineSize \in Nat \ {0} /\ SlabSize \in Nat /\ NumaMemorySize \in Nat
  /\ SlabSize <= NumaMemorySize

VARIABLES
  numa_allocated,   \* per node: numa_allocated_
  slab,             \* per thread: its Slab, <<>> before the first allocation
  tls_map,          \* per thread: the chain of each size of block
  size              \* per block handed out so far: the size in its header

allocVars == <<numa_allocated, slab, tls_map, size>>

(***************************************************************************)
(* A block is <<node, offset of its data>>.  TlsAllocate rounds a request, *)
(* with its header, up to whole cache lines.                               *)
(***************************************************************************)
Rounded(n) == ((n + 2 * CacheLineSize - 1) \div CacheLineSize) * CacheLineSize
DataSize(n) == Rounded(n) - CacheLineSize
DataSizes == {k * CacheLineSize : k \in 1 .. SlabSize \div CacheLineSize}
NoBlocks == [s \in DataSizes |-> <<>>]

(* A Slab whose memory is still null. *)
NoSlab == <<>>

(* The constructor; the loader has taken some blocks from the first slabs. *)
AllocInit(loaded) ==
  /\ numa_allocated = [n \in Nodes |->
       IF \E b \in DOMAIN loaded : b[1] = n THEN SlabSize ELSE 0]
  /\ slab = [t \in Threads |-> NoSlab]
  /\ tls_map = [t \in Threads |-> NoBlocks]
  /\ size = loaded

Chained(t, n) == tls_map[t][DataSize(n)] # <<>>
Fits(t, n) == slab[t] # NoSlab /\ slab[t].allocated + Rounded(n) <= SlabSize

(* The data of the next block of slab s. *)
NextData(s) == <<s.node, s.memory + s.allocated + CacheLineSize>>

(* A slab that fetch_add cuts from the node's memory. *)
NewSlab(node) == [node |-> node, memory |-> numa_allocated[node], allocated |-> 0]

(* What TlsAllocate returns to t when it runs on the node. *)
Block(t, n, node) ==
  IF Chained(t, n) THEN Head(tls_map[t][DataSize(n)])
  ELSE NextData(IF Fits(t, n) THEN slab[t] ELSE NewSlab(node))

(* The next bytes of slab s, with the block's size in the header. *)
Cut(t, n, s) ==
  /\ slab' = [slab EXCEPT ![t] = [s EXCEPT !.allocated = @ + Rounded(n)]]
  /\ size' = [b \in DOMAIN size \union {NextData(s)} |->
                IF b = NextData(s) THEN DataSize(n) ELSE size[b]]

(* BlockList::Get: the oldest block of the chain. *)
AllocateChained(t, n) ==
  /\ Chained(t, n)
  /\ tls_map' = [tls_map EXCEPT ![t][DataSize(n)] = Tail(@)]
  /\ UNCHANGED <<numa_allocated, slab, size>>

AllocateFromSlab(t, n) ==
  /\ ~Chained(t, n) /\ Fits(t, n)
  /\ Cut(t, n, slab[t])
  /\ UNCHANGED <<numa_allocated, tls_map>>

(* Mutant: the counter of the node advances by one cache line only. *)
AllocateNewSlabOverlapping(t, n, node) ==
  /\ ~Chained(t, n) /\ ~Fits(t, n) /\ Rounded(n) <= SlabSize
  /\ numa_allocated[node] < NumaMemorySize
  /\ numa_allocated' = [numa_allocated EXCEPT ![node] = @ + CacheLineSize]
  /\ Cut(t, n, NewSlab(node))
  /\ UNCHANGED tls_map

(***************************************************************************)
(* Slab full, or not initialized yet: a new one from the node the thread   *)
(* happens to run on.  The program ends with "Not enough memory" if it     *)
(* would start beyond the node's memory, and therefore also if the request *)
(* does not fit into a new slab either.                                    *)
(***************************************************************************)
AllocateNewSlab(t, n, node) ==
  /\ ~Chained(t, n) /\ ~Fits(t, n) /\ Rounded(n) <= SlabSize
  /\ numa_allocated[node] < NumaMemorySize
  /\ numa_allocated' = [numa_allocated EXCEPT ![node] = @ + SlabSize]
  /\ Cut(t, n, NewSlab(node))
  /\ UNCHANGED tls_map

Allocate(t, n, node) ==
  AllocateChained(t, n) \/ AllocateFromSlab(t, n) \/ AllocateNewSlab(t, n, node)

(* BlockList::Put: behind the last block of the chain. *)
Put(chain, block) == Append(chain, block)

(* Free(): the blocks go to the chains of the thread that frees them. *)
FreeAll(t, blocks) ==
  /\ tls_map' = [tls_map EXCEPT ![t] =
       [s \in DataSizes |->
          FoldLeft(Put, @[s], SelectSeq(blocks, LAMBDA b : size[b] = s))]]
  /\ UNCHANGED <<numa_allocated, slab, size>>

(* GetTlsSlab and GetTlsMap in new threads: nothing of what the threads *)
(* before them had there.                                               *)
FreshTls ==
  /\ slab' = [t \in Threads |-> NoSlab]
  /\ tls_map' = [t \in Threads |-> NoBlocks]
  /\ UNCHANGED <<numa_allocated, size>>

=============================================================================
