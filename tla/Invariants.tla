----------------------------- MODULE Invariants -----------------------------
(***************************************************************************)
(* The inductive invariants of PMwCAS: the forms of words, statuses and    *)
(* frames, and what the statuses, the target words and the frames on the   *)
(* stacks know of each other while threads run.                            *)
(***************************************************************************)
EXTENDS PMwCAS

-----------------------------------------------------------------------------
(* Words, frames and stacks *)

(* Operation d has a word at address a. *)
Targets(d, a) == \E i \in DOMAIN words[d] : words[d][i].address = a

(* Positions of a sequence have a last one. *)
Lasts(seq) == \A S \in SUBSET DOMAIN seq : S # {} => \E k \in S : \A m \in S : m <= k

(* The places of a read and of PersistentMwCAS. *)
ReadPCs == {"load", "final_status", "install", "persist", "clean"}

MwCASPCs ==
  {"flush", "status", "persist_status_first", "clean_status_first", "condcas",
   "cond_status", "cond_recheck", "final_status", "install", "precommit",
   "persist", "clean", "decide", "persist_status", "clean_status", "swap",
   "swap_clean", "return"}

(* Places where ret is a CondCAS pointer, or a dirty word. *)
CondPCs == {"cond_status", "cond_recheck", "final_status", "install"}

DirtyPCs == {"persist", "clean"}

Frame ==
  [d : 0 .. PoolSize, i : Int, pc : ReadPCs \union MwCASPCs,
   my_status : {"Succeeded", "Failed"}, ret : Words \union {NoWord},
   desired : Words \union {NoWord}, new : Words \union {NoWord},
   saw : 0 .. PoolSize]

FrameOK(f) ==
  /\ f \in Frame
  /\ \/ f.d = 0 /\ f.i \in Addresses /\ f.pc \in ReadPCs
     \/ f.d \in Descs /\ f.i \in DOMAIN words[f.d] /\ f.pc \in MwCASPCs
  /\ f.pc \in CondPCs => f.ret \in Words /\ f.ret.tag = "cond"
  /\ f.pc \in DirtyPCs =>
       f.ret \in Words /\ f.ret.tag \in {"val", "mwcas"} /\ IsDirty(f.ret)
  /\ f.pc = "install" => f.new \in Words

(* Calls are frames, and a read is at the bottom of its stack. *)
StackOK(s) ==
  /\ s \in Seq(Frame)
  /\ \A k \in DOMAIN s : FrameOK(s[k]) /\ (s[k].d = 0 => k = 1)

(* A read returns what a successful operation wrote, or the initial value. *)
SawOK(s) == \A k \in DOMAIN s : s[k].saw \in {0} \union Range(hist)

MemType == mem \in [Addresses -> Words] /\ nvram \in [Addresses -> SUBSET Words]

StatusType ==
  /\ status \in [Descs -> [s : States, dirty : 0 .. 1]]
  /\ nvstatus \in [Descs -> SUBSET States]

TypeInv ==
  /\ build \in {"pmem", "volatile"} /\ MemType /\ StatusType
  /\ next \in [Threads -> Nat \ {0}]
  /\ stack \in [Threads -> Seq(Frame)]
  /\ \A t \in Threads : StackOK(stack[t]) /\ SawOK(stack[t])
  /\ hist \in Seq(Descs) /\ Lasts(hist) /\ acked \subseteq Range(hist)

-----------------------------------------------------------------------------
(* The state of an operation *)

Undecided(d) == status[d] = Status("Undecided")

Decided(d) == status[d].s \in {"Succeeded", "Failed"}

Active(d) == status[d].s # "Finished"

Ptrs(d) == {MwCASPtr(d), Dirty(MwCASPtr(d))}

Installed(d, i) == mem[words[d][i].address] \in Ptrs(d)

Persisted(d, i) == build = "pmem" => nvram[words[d][i].address] \subseteq Ptrs(d)

StatusInv ==
  /\ \A d \in Descs :
       status[d] \in {Status("Finished"), Status("Undecided"),
                      Status("Succeeded"), Dirty(Status("Succeeded")),
                      Status("Failed"), Dirty(Status("Failed"))}
  /\ \A t \in Threads : \A k \in DOMAIN Script[t] :
       k >= next[t] /\ Script[t][k].op = "mwcas" =>
         status[Script[t][k].d] = Status("Finished")
  /\ \A d \in Descs : d \in Range(hist) <=> status[d].s = "Succeeded"

MemInv ==
  \A a \in Addresses :
    /\ mem[a].tag = "cond" =>
         words[mem[a].d][mem[a].i].address = a /\ Active(mem[a].d)
    /\ mem[a].tag = "mwcas" => Targets(mem[a].d, a) /\ Active(mem[a].d)
    /\ \A d \in Descs :
         build = "pmem" /\ Undecided(d) /\ mem[a] = MwCASPtr(d) =>
           nvram[a] \subseteq Ptrs(d)

(* The stages of PersistentMwCAS. *)
Starting(f) == f.pc \in {"flush", "status", "persist_status_first", "clean_status_first"}

Installing(f) ==
  f.pc = "condcas" \/ f.pc \in CondPCs \/
  (f.pc \in DirtyPCs /\ f.ret.tag = "mwcas" /\ f.ret.d # f.d)

Committing(f) ==
  f.pc = "precommit" \/ (f.pc \in DirtyPCs /\ f.ret.tag = "mwcas" /\ f.ret.d = f.d)

Finishing(f) ==
  f.pc \in {"persist_status", "clean_status", "swap", "swap_clean", "return"} \/
  (f.pc \in DirtyPCs /\ f.ret.tag = "val")

(* What a call of PersistentMwCAS knows of its operation. *)
CallInv(f) ==
  /\ Active(f.d)
  /\ Starting(f) => f.i = 1
  /\ Installing(f) /\ Undecided(f.d) => \A j \in 1 .. f.i - 1 : Installed(f.d, j)
  /\ Committing(f) /\ Undecided(f.d) =>
       /\ \A j \in DOMAIN words[f.d] : Installed(f.d, j)
       /\ \A j \in 1 .. f.i - 1 : Persisted(f.d, j)
  /\ f.pc = "decide" /\ f.my_status = "Succeeded" /\ Undecided(f.d) =>
       \A j \in DOMAIN words[f.d] : Installed(f.d, j) /\ Persisted(f.d, j)
  /\ Finishing(f) => Decided(f.d)
  /\ f.pc \in {"final_status", "install"} /\ f.desired.tag = "none" =>
       /\ f.ret = CondPtr(f.d, f.i)
       /\ Undecided(f.d) => mem[Addr(f)] \in {f.ret} \union Ptrs(f.d)

(* What any call knows of the pointer it ran into. *)
PointerInv(f) ==
  /\ f.pc \in CondPCs =>
       words[f.ret.d][f.ret.i].address = Addr(f) /\ Active(f.ret.d)
  /\ f.pc = "install" =>
       \/ f.new = Flag(MwCASPtr(f.ret.d))
       \/ f.new = Old(f.ret.d, f.ret.i) /\ Decided(f.ret.d)
  /\ f.pc \notin {"cond_recheck", "final_status", "install"} \/ f.d = 0 =>
       f.desired = NoWord
  /\ f.pc \in CondPCs =>
       (f.desired.tag = "mwcas" => f.desired = Flag(MwCASPtr(f.ret.d)))
  /\ f.pc = "cond_recheck" => f.desired.tag # "none"
  /\ f.pc \in DirtyPCs /\ f.ret.tag = "mwcas" =>
       /\ Targets(f.ret.d, Addr(f)) /\ Active(f.ret.d)
       /\ Undecided(f.ret.d) => mem[Addr(f)] \in Ptrs(f.ret.d)
       /\ f.pc = "clean" /\ build = "pmem" /\ Undecided(f.ret.d) =>
            nvram[Addr(f)] \subseteq Ptrs(f.ret.d)

FrameInv(f) == PointerInv(f) /\ (f.d # 0 => CallInv(f))

FramesInv == \A t \in Threads : \A f \in Range(stack[t]) : FrameInv(f)

OpInv == TypeInv /\ StatusInv /\ MemInv /\ FramesInv

-----------------------------------------------------------------------------
(* Atomicity *)

(***************************************************************************)
(* The hypothesis of atomicity: no word takes back a value that a          *)
(* successful operation has replaced (no ABA).  At every address the       *)
(* values can be ranked so that an operation that changes the word raises  *)
(* its rank.  Without it the run MCPMwCASABA shows an operation whose      *)
(* helper installs a pointer again after the operation has succeeded.      *)
(***************************************************************************)
Ranks == [Addresses -> [Int -> Int]]

(* Value v is w, or has come after w. *)
Since(rank, a, v, w) == v = w \/ rank[a][w] < rank[a][v]

Raises(rank) ==
  \A d \in Descs : \A i \in DOMAIN words[d] :
    Since(rank, words[d][i].address, words[d][i].new, words[d][i].old)

NeverRestored == \E rank \in Ranks : Raises(rank)

(* A successful operation's words are at its new values, or later ones. *)
RaisedInv(rank) ==
  \A d \in Descs : status[d].s = "Succeeded" =>
    \A i \in DOMAIN words[d] :
      Since(rank, words[d][i].address, Logical(words[d][i].address), words[d][i].new)

=============================================================================
