----------------------------- MODULE Durability -----------------------------
(***************************************************************************)
(* The inductive invariants of PMwCAS with crashes: what NVRAM may hold of *)
(* the target words and of the statuses while threads run, and what the    *)
(* words hold while recovery is under way.                                 *)
(***************************************************************************)
EXTENDS Invariants, PMwCASSystem

-----------------------------------------------------------------------------
(* NVRAM while threads run *)

(* The value that word a has after the operations decided so far. *)
Value(a) == Replay(hist, Descs)[a]

(* NVRAM knows that operation d has succeeded. *)
Settled(d) == nvstatus[d] = {"Succeeded"}

(* NVRAM knows how operation d was decided. *)
Known(d) == Decided(d) /\ nvstatus[d] = {status[d].s}

(* The owner has persisted the descriptor: recovery does not skip it. *)
Published(d) == nvstatus[d] \subseteq {"Undecided", "Succeeded", "Failed"}

(***************************************************************************)
(* What NVRAM may hold at address a: the current value, the pointer of the *)
(* operation that wrote it, or one of an operation that has not succeeded  *)
(* and expects this value.                                                 *)
(***************************************************************************)
HoldsValue(x, a) == x \in {Val(Value(a)), Dirty(Val(Value(a)))}

HoldsWriter(x, a) == LastWriter(a) # 0 /\ x \in Ptrs(LastWriter(a))

HoldsOther(x, a) ==
  \E d \in Descs \ Range(hist) : \E i \in DOMAIN words[d] :
    /\ words[d][i].address = a /\ words[d][i].old = Value(a)
    /\ x \in Ptrs(d) \union {CondPtr(d, i)}

Holds(x, a) == HoldsValue(x, a) \/ HoldsWriter(x, a) \/ HoldsOther(x, a)

NvMemInv ==
  \A a \in Addresses :
    /\ mem[a] \in nvram[a]
    /\ \A x \in nvram[a] :
         /\ HoldsValue(x, a) \/ HoldsWriter(x, a) \/ HoldsOther(x, a)
         /\ x.tag \in {"mwcas", "cond"} => Published(x.d)

NvStatusInv ==
  \A d \in Descs :
    /\ status[d].s \in nvstatus[d]
    /\ nvstatus[d] \subseteq {"Finished", "Undecided", status[d].s}

(* A success that NVRAM does not know of yet can still be taken back. *)
UnsettledInv ==
  \A k \in DOMAIN hist : ~Settled(hist[k]) =>
    \A i \in DOMAIN words[hist[k]] :
      /\ nvram[words[hist[k]][i].address] \subseteq Ptrs(hist[k])
      /\ \A j \in DOMAIN hist : j > k => ~Targets(hist[j], words[hist[k]][i].address)

AckedInv == \A d \in acked : Settled(d)

(* The call finishes: NVRAM knows how its operation was decided. *)
Completing(f) ==
  \/ f.pc \in {"clean_status", "swap", "swap_clean", "return"}
  \/ f.pc \in DirtyPCs /\ f.ret.tag = "val"

NvFrameInv(f) ==
  /\ f.d # 0 /\ f.pc # "flush" => Published(f.d)
  /\ f.d # 0 /\ Completing(f) => Known(f.d)
  /\ f.d = 0 /\ f.pc \in DirtyPCs /\ f.ret.tag = "val" => f.saw = 0 \/ Settled(f.saw)
  /\ f.pc \in DirtyPCs /\ f.ret.tag = "mwcas" => Published(f.ret.d)

NvFramesInv == \A t \in Threads : \A f \in Range(stack[t]) : NvFrameInv(f)

NvInv == NvMemInv /\ NvStatusInv /\ UnsettledInv /\ AckedInv /\ NvFramesInv

(* No successful operation's old value is a current value. *)
Superseded ==
  \A d \in Range(hist) : \A i \in DOMAIN words[d] :
    Value(words[d][i].address) # words[d][i].old

-----------------------------------------------------------------------------
(* Types, and linearizability *)

PoolType ==
  /\ retired \subseteq Descs /\ grace \in [Descs -> SUBSET Threads]
  /\ phase \in {"run", "recover", "recovered", "corrupted_pool", "invalid_field_value"}
  /\ recovery \in (1 .. PoolSize + 1) \X (1 .. kMaxCount + 1)
  /\ crashes \in 0 .. MaxCrashes

(* The words hold what the decided operations have produced. *)
LinInv ==
  /\ Legal(hist, Descs)
  /\ \A a \in Addresses : Logical(a) = Value(a)

RunInv(rank) == phase = "run" => OpInv /\ RaisedInv(rank) /\ LinInv

-----------------------------------------------------------------------------
(* Durable linearizability *)

(* Recovery has still to visit word i of operation d. *)
Ahead(d, i) == d > recovery[1] \/ (d = recovery[1] /\ i >= recovery[2])

(* The operations in done survive the crash: this is what they leave. *)
Restored(done, a) == Replay(hist, done)[a]

Plain(done, a) == mem[a] \in {Val(Restored(done, a)), Dirty(Val(Restored(done, a)))}

(* Word i of d still holds a pointer x; recovery is going to make it v. *)
PendingWord(x, d, i, v) ==
  \/ x \in Ptrs(d) /\ status[d].s = "Succeeded" /\ words[d][i].new = v
  \/ /\ x \in Ptrs(d) \union {CondPtr(d, i)}
     /\ status[d].s \in {"Undecided", "Failed"} /\ words[d][i].old = v

Pending(done, a) ==
  \E d \in Descs : \E i \in DOMAIN words[d] :
    /\ words[d][i].address = a /\ Ahead(d, i)
    /\ PendingWord(mem[a], d, i, Restored(done, a))

Survives(done) == done \subseteq Range(hist) /\ acked \subseteq done /\ Legal(hist, done)

(***************************************************************************)
(* After a crash: done survive.  Words are as these leave them, or else    *)
(* recovery is still going to make them so; then NVRAM has the statuses.   *)
(***************************************************************************)
RecInv(done) ==
  /\ Survives(done)
  /\ \A a \in Addresses : nvram[a] = {mem[a]}
  /\ \/ \A a \in Addresses : Plain(done, a)
     \/ /\ phase = "recover"
        /\ \A a \in Addresses : Plain(done, a) \/ Pending(done, a)
        /\ \A d \in Descs : nvstatus[d] = {status[d].s} /\ status[d].s # "Invalid"

Recoverable == \E done \in SUBSET Descs : RecInv(done)

(***************************************************************************)
(* Every operation gives each of its words a value that comes after the    *)
(* one it replaces.                                                        *)
(***************************************************************************)
Increases(rank) ==
  \A d \in Descs : \A i \in DOMAIN words[d] :
    rank[words[d][i].address][words[d][i].old] < rank[words[d][i].address][words[d][i].new]

AlwaysIncreasing == \E rank \in Ranks : Increases(rank)

(***************************************************************************)
(* While threads run, NVRAM is such that a crash can be recovered from;    *)
(* from the first crash on, recovery is under way or done.                 *)
(***************************************************************************)
DurableInv(rank) ==
  /\ TypeInv /\ PoolType /\ RunInv(rank)
  /\ phase = "run" /\ build = "pmem" => NvInv
  /\ phase # "run" => Recoverable
  /\ phase # "invalid_field_value"

=============================================================================
