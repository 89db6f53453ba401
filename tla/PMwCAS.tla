------------------------------- MODULE PMwCAS -------------------------------
(***************************************************************************)
(* The multi-word compare-and-swap of src/mwcas/mwcas.{h,cc}: AddEntry,    *)
(* CondCAS, PersistentMwCAS with helping, and GetValueProtectedPersistent; *)
(* their volatile counterparts, which a build without PMEM has; and the    *)
(* calls ...WithFailure that stop half way.  PMwCASSystem adds recycling   *)
(* and crashes.                                                            *)
(*                                                                         *)
(* Threads run the operations of Script.  A thread is a stack of frames:   *)
(* its own operation at the bottom and, above it, one frame for every      *)
(* operation it is helping (the recursion of PersistentMwCAS).  One action *)
(* is one access to shared memory.                                         *)
(*                                                                         *)
(* NVRAM.  Stores go to the cache and reach NVRAM when the line is flushed *)
(* or, at any moment, evicted.  nvram[a] is the set of values that NVRAM   *)
(* may hold for word a: the value last flushed and those stored since.     *)
(***************************************************************************)
EXTENDS Integers, Sequences, Functions

CONSTANTS
  Threads,    \* threads
  Addresses,  \* target words, numbers in address order
  PoolSize,   \* descriptors 1 .. PoolSize; operation d uses descriptor d
  Entries,    \* per descriptor: the AddEntry calls, in program order
  Script,     \* per thread: the operations it runs, in order
  Builds,     \* the builds to explore: "pmem", "volatile"
  InitValue,  \* per address: its value at the start
  PoolPersisted,  \* did the pool's initialization reach NVRAM?
  MaxDepth    \* bound: depth of the recursion of PersistentMwCAS

Descs == 1 .. PoolSize
kMaxCount == 4

(* Addresses and values are 64-bit integers. *)
ASSUME ConstantsAssumption ==
  /\ Addresses \subseteq Int /\ \A a \in Addresses : InitValue[a] \in Int
  /\ PoolSize \in Nat /\ MaxDepth \in Nat
  /\ Builds \subseteq {"pmem", "volatile"} /\ PoolPersisted \in BOOLEAN

(* AddEntry aborts on a duplicate address and on more than kMaxCount words. *)
ASSUME EntriesAssumption ==
  \A d \in Descs :
    /\ Entries[d] \in Seq([address : Addresses, old : Int, new : Int])
    /\ Len(Entries[d]) \in 1 .. kMaxCount
    /\ \A j, k \in DOMAIN Entries[d] :
         Entries[d][j].address = Entries[d][k].address => j = k

(* A call names its descriptor, and the places where it may stop half way. *)
Operations ==
  [op : {"mwcas"}, d : Descs, stops : SUBSET {"return", "decide", "swap"}] \union
  [op : {"read"}, a : Addresses]

(* Operation d is one use of descriptor d: no two calls are the same one. *)
ASSUME ScriptAssumption ==
  /\ \A t \in Threads : Script[t] \in Seq(Operations)
  /\ \A t, u \in Threads : \A j \in DOMAIN Script[t], k \in DOMAIN Script[u] :
       Script[t][j].op = "mwcas" /\ Script[u][k].op = "mwcas" /\
       Script[t][j].d = Script[u][k].d => t = u /\ j = k

(* GetInsertPosition: from the end, past the entries of larger addresses. *)
GetInsertPosition(ws, addr) ==
  CHOOSE p \in 1 .. Len(ws) + 1 :
    /\ \A i \in p .. Len(ws) : addr < ws[i].address
    /\ p = 1 \/ ws[p - 1].address < addr

(* Mutant: the entries stay in program order. *)
AddEntryUnsorted(ws, e) == Append(ws, e)

AddEntry(ws, e) ==
  LET insertpos == GetInsertPosition(ws, e.address)
  IN SubSeq(ws, 1, insertpos - 1) \o <<e>> \o SubSeq(ws, insertpos, Len(ws))

(* words_ of every descriptor once its AddEntry calls are made. *)
words ==
  [d \in Descs |->
    LET after[n \in 0 .. Len(Entries[d])] ==
          IF n = 0 THEN <<>> ELSE AddEntry(after[n - 1], Entries[d][n])
    IN after[Len(Entries[d])]]

(***************************************************************************)
(* The contents of a target word: a value or a pointer to an MwCAS         *)
(* descriptor, either possibly with kDirtyFlag, or a pointer to a word     *)
(* descriptor (kCondCASFlag).                                              *)
(***************************************************************************)
Val(v) == [tag |-> "val", v |-> v, dirty |-> 0]
MwCASPtr(d) == [tag |-> "mwcas", d |-> d, dirty |-> 0]
CondPtr(d, i) == [tag |-> "cond", d |-> d, i |-> i, dirty |-> 0]
NoWord == [tag |-> "none", dirty |-> 0]

(* The word descriptors: descriptor and index into its words_. *)
WordIds == {w \in Descs \X (1 .. kMaxCount) : w[2] \in DOMAIN words[w[1]]}

Old(d, i) == Val(words[d][i].old)
New(d, i) == Val(words[d][i].new)

States == {"Invalid", "Finished", "Undecided", "Succeeded", "Failed"}

(* status_: the state and kStatusDirtyFlag. *)
Status(s) == [s |-> s, dirty |-> 0]

Dirty(x) == [x EXCEPT !.dirty = 1]
Clean(x) == [x EXCEPT !.dirty = 0]
IsDirty(x) == x.dirty = 1

(* All that a target word can hold. *)
Words ==
  LET plain == {Val(InitValue[a]) : a \in Addresses} \union
               {MwCASPtr(d) : d \in Descs} \union
               UNION {{Old(w[1], w[2]), New(w[1], w[2])} : w \in WordIds}
  IN plain \union {Dirty(x) : x \in plain} \union
     {CondPtr(w[1], w[2]) : w \in WordIds}

-----------------------------------------------------------------------------

VARIABLES
  build,     \* the build, which never changes
  stops,     \* per thread: where its own call returns without being done
  mem,       \* per address: the word as all threads see it
  nvram,     \* per address: the values NVRAM may hold
  status,    \* per descriptor: status_
  nvstatus,  \* per descriptor: the states NVRAM may hold (dirty bit dropped)
  stack,     \* per thread: its frames
  next,      \* per thread: index in Script of its next operation
  hist,      \* history: successful operations in the order of decision
  acked      \* history: successful operations somebody was told of

memVars == <<mem, nvram>>
statusVars == <<status, nvstatus>>
history == <<hist, acked>>
opVars == <<build, stops, memVars, statusVars, stack, next, history>>

(***************************************************************************)
(* A new pool: the constructor sets every status to Finished in a zeroed   *)
(* area (kStatusInvalid) and flushes nothing; PoolPersisted says whether   *)
(* those lines have been written back before the first operation.          *)
(***************************************************************************)
OpInit ==
  /\ build \in Builds
  /\ stops = [t \in Threads |-> "return"]
  /\ mem = [a \in Addresses |-> Val(InitValue[a])]
  /\ nvram = [a \in Addresses |-> {mem[a]}]
  /\ status = [d \in Descs |-> Status("Finished")]
  /\ nvstatus = [d \in Descs |->
                   {"Finished"} \union IF PoolPersisted THEN {} ELSE {"Invalid"}]
  /\ stack = [t \in Threads |-> <<>>]
  /\ next = [t \in Threads |-> 1]
  /\ hist = <<>>
  /\ acked = {}

(* A store to word a, which NVRAM may or may not see. *)
Store(a, x) ==
  /\ mem' = [mem EXCEPT ![a] = x]
  /\ nvram' = [nvram EXCEPT ![a] = @ \union {x}]

(* CompareExchange64(a, new, expected) *)
CAS(a, expected, new) ==
  IF mem[a] = expected THEN Store(a, new) ELSE UNCHANGED memVars

(* NVRAM::Flush of the word. *)
PersistAddress(a) ==
  /\ nvram' = [nvram EXCEPT ![a] = {mem[a]}]
  /\ UNCHANGED mem

StoreStatus(d, st) ==
  /\ status' = [status EXCEPT ![d] = st]
  /\ nvstatus' = [nvstatus EXCEPT ![d] = @ \union {st.s}]

PersistStatus(d) ==
  /\ nvstatus' = [nvstatus EXCEPT ![d] = {status[d].s}]
  /\ UNCHANGED status

-----------------------------------------------------------------------------
(* Frames: the local variables of one call *)

(* PersistentMwCAS of descriptor d, starting at pc. *)
MwCASFrame(d, pc) ==
  [d |-> d, i |-> 1, pc |-> pc, my_status |-> "Succeeded", ret |-> NoWord,
   desired |-> NoWord, new |-> NoWord, saw |-> 0]

(* GetValueProtectedPersistent of address a. *)
ReadFrame(a) ==
  [MwCASFrame(0, "load") EXCEPT !.i = a]

(* The call that runs, and those that wait for it. *)
Top(t) == stack[t][Len(stack[t])]
Callers(s) == SubSeq(s, 1, Len(s) - 1)

Addr(f) == IF f.d = 0 THEN f.i ELSE words[f.d][f.i].address
At(t, pc) == stack[t] # <<>> /\ Top(t).pc = pc

(* The top frame of t becomes f. *)
Goto(t, f) == stack' = [stack EXCEPT ![t] = Append(Callers(@), f)]

(* The top frame becomes f and calls PersistentMwCAS of another operation. *)
Help(t, f, d) ==
  /\ Len(stack[t]) < MaxDepth
  /\ stack' = [stack EXCEPT ![t] = Callers(@) \o <<f, MwCASFrame(d, "status")>>]

(* The call of f begins again: retry_entry of a CondCAS, retry of a read. *)
Retry(f) ==
  IF f.d = 0 THEN ReadFrame(f.i)
  ELSE [MwCASFrame(f.d, "condcas") EXCEPT !.i = f.i]

(* Mutant: the loop runs one word too far. *)
NextWordTooFar(f, pc, exit) ==
  IF f.i <= Len(words[f.d])
  THEN [MwCASFrame(f.d, pc) EXCEPT !.i = f.i + 1]
  ELSE MwCASFrame(f.d, exit)

(* A loop over the words goes on at pc or, after the last word, at exit. *)
NextWord(f, pc, exit) ==
  IF f.i < Len(words[f.d])
  THEN [MwCASFrame(f.d, pc) EXCEPT !.i = f.i + 1]
  ELSE MwCASFrame(f.d, exit)

(* What PersistentMwCAS does with the result rval of CondCAS. *)
AfterCondCAS(t, f, rval) ==
  CASE rval = Old(f.d, f.i) \/ Clean(rval) = MwCASPtr(f.d) ->
         Goto(t, NextWord(f, "condcas", IF build = "pmem" THEN "precommit" ELSE "decide"))
    [] rval.tag = "mwcas" /\ rval.d # f.d /\ IsDirty(rval) ->
         Goto(t, [Retry(f) EXCEPT !.pc = "persist", !.ret = rval])
    [] rval.tag = "mwcas" /\ rval.d # f.d /\ ~IsDirty(rval) ->
         Help(t, Retry(f), rval.d)
    [] OTHER ->
         Goto(t, [MwCASFrame(f.d, "decide") EXCEPT !.my_status = "Failed"])

(* PersistentMwCAS marks what it stores as dirty, VolatileMwCAS does not. *)
Flag(x) == IF build = "pmem" THEN Dirty(x) ELSE x

(* What replaces a CondCAS pointer, given the status at this moment. *)
Desired(cond) ==
  IF status[cond.d] = Status("Undecided") THEN Flag(MwCASPtr(cond.d))
                                          ELSE Old(cond.d, cond.i)

-----------------------------------------------------------------------------
(* PersistentMwCAS up to the installing loop *)

Begin(t, op, frame) ==
  /\ stack[t] = <<>> /\ next[t] <= Len(Script[t])
  /\ Script[t][next[t]].op = op
  /\ stack' = [stack EXCEPT ![t] = <<frame>>]
  /\ next' = [next EXCEPT ![t] = @ + 1]
  /\ UNCHANGED build

(***************************************************************************)
(* MwCAS() on a descriptor with its entries added: the status becomes      *)
(* Undecided.  Nobody else can reach the descriptor yet.  MwCASWithFailure *)
(* runs the same code up to where it stops.                                *)
(***************************************************************************)
BeginMwCAS(t) ==
  LET d == Script[t][next[t]].d IN
  /\ Begin(t, "mwcas", MwCASFrame(d, IF build = "pmem" THEN "flush" ELSE "status"))
  /\ \E pc \in Script[t][next[t]].stops : stops' = [stops EXCEPT ![t] = pc]
  /\ StoreStatus(d, Status("Undecided"))
  /\ UNCHANGED <<memVars, history>>

BeginRead(t) ==
  /\ Begin(t, "read", ReadFrame(Script[t][next[t]].a))
  /\ UNCHANGED stops
  /\ UNCHANGED <<memVars, statusVars, history>>

(* The owner persists the whole descriptor before anyone can see it. *)
FlushDescriptor(t) ==
  /\ At(t, "flush")
  /\ PersistStatus(Top(t).d)
  /\ Goto(t, [Top(t) EXCEPT !.pc = "status"])
  /\ UNCHANGED <<memVars, next, history>>

(***************************************************************************)
(* A dirty status is persisted and cleaned before the operation goes on.   *)
(* A decided status does not end the call: that early return is commented  *)
(* out in PersistentMwCAS.  VolatileMwCAS has it.                          *)
(***************************************************************************)
ReadStatus(t) ==
  /\ At(t, "status")
  /\ Goto(t, [Top(t) EXCEPT !.pc =
       IF build = "volatile" /\ status[Top(t).d] # Status("Undecided") THEN "return"
       ELSE IF IsDirty(status[Top(t).d]) THEN "persist_status_first" ELSE "condcas"])
  /\ UNCHANGED <<memVars, statusVars, next, history>>

(* Mutant: the status is not flushed. *)
FlushStatusSkipped(t) ==
  /\ At(t, "persist_status_first") \/ At(t, "persist_status")
  /\ Goto(t, [Top(t) EXCEPT !.pc = IF @ = "persist_status" THEN "clean_status"
                                   ELSE "clean_status_first"])
  /\ UNCHANGED <<memVars, statusVars, next, history>>

(* PersistStatus(), before the loop and after the decision. *)
FlushStatus(t) ==
  /\ At(t, "persist_status_first") \/ At(t, "persist_status")
  /\ PersistStatus(Top(t).d)
  /\ Goto(t, [Top(t) EXCEPT !.pc = IF @ = "persist_status" THEN "clean_status"
                                   ELSE "clean_status_first"])
  /\ UNCHANGED <<memVars, next, history>>

(***************************************************************************)
(* The dirty bit is cleared, first by a CAS and after the decision by      *)
(* "status_ &= ~kStatusDirtyFlag".  A decided state does not change while  *)
(* a thread uses the descriptor, so both only clear the bit.               *)
(***************************************************************************)
CleanStatus(t) ==
  /\ At(t, "clean_status_first") \/ At(t, "clean_status")
  /\ StoreStatus(Top(t).d, Clean(status[Top(t).d]))
  /\ Goto(t, [Top(t) EXCEPT !.pc = IF @ = "clean_status" THEN "swap"
                                   ELSE "condcas"])
  /\ UNCHANGED <<memVars, next, history>>

-----------------------------------------------------------------------------
(* CondCAS *)

(* The first compare-exchange, and what its result leads to. *)
CondCAS(t) ==
  /\ At(t, "condcas")
  /\ LET f == Top(t)
         old == Old(f.d, f.i)
         cond == CondPtr(f.d, f.i)
         ret == mem[Addr(f)]
     IN /\ CAS(Addr(f), old, cond)
        /\ CASE ret = old ->
                  Goto(t, [f EXCEPT !.pc = "final_status", !.ret = cond])
             [] ret.tag = "cond" ->
                  Goto(t, [f EXCEPT !.pc = "cond_status", !.ret = ret])
             [] OTHER -> AfterCondCAS(t, f, ret)
  /\ UNCHANGED <<statusVars, next, history>>

(* A CondCAS pointer was in the way: the status decides "desired", ... *)
CondStatus(t) ==
  /\ At(t, "cond_status")
  /\ Goto(t, [Top(t) EXCEPT !.pc = "cond_recheck",
                            !.desired = Desired(Top(t).ret)])
  /\ UNCHANGED <<memVars, statusVars, next, history>>

(* ... then the code looks whether the pointer is still there. *)
CondRecheck(t) ==
  /\ At(t, "cond_recheck")
  /\ LET f == Top(t) IN
       Goto(t, IF mem[Addr(f)] = f.ret THEN [f EXCEPT !.pc = "final_status"]
                                       ELSE Retry(f))
  /\ UNCHANGED <<memVars, statusVars, next, history>>

(***************************************************************************)
(* The status read that picks the value to install over a CondCAS pointer: *)
(* the thread's own pointer, another one, or one that a read ran into.     *)
(***************************************************************************)
ReadCondStatus(t) ==
  /\ At(t, "final_status")
  /\ Goto(t, [Top(t) EXCEPT !.pc = "install", !.new = Desired(Top(t).ret)])
  /\ UNCHANGED <<memVars, statusVars, next, history>>

(***************************************************************************)
(* The compare-exchange that takes the CondCAS pointer out.  CondCAS then  *)
(* returns the old value it replaced itself, or the pointer to the other   *)
(* MwCAS if "desired" was that pointer, or tries again, as a read does.    *)
(***************************************************************************)
InstallOverCond(t) ==
  /\ At(t, "install")
  /\ LET f == Top(t) IN
       /\ CAS(Addr(f), f.ret, f.new)
       /\ CASE f.d # 0 /\ f.desired.tag = "none" ->
                 AfterCondCAS(t, f, Old(f.d, f.i))
            [] f.d # 0 /\ f.desired.tag = "mwcas" /\ mem[Addr(f)] = f.ret ->
                 AfterCondCAS(t, f, f.desired)
            [] OTHER -> Goto(t, Retry(f))
  /\ UNCHANGED <<statusVars, next, history>>

-----------------------------------------------------------------------------
(* PersistentMwCAS after the installing loop *)

(* Mutant: dirty words are not persisted before the decision. *)
PrecommitUnpersisted(t) ==
  /\ At(t, "precommit")
  /\ Goto(t, NextWord(Top(t), "precommit", "decide"))
  /\ UNCHANGED <<memVars, statusVars, next, history>>

(* All words are installed: those that still are dirty get persisted. *)
Precommit(t) ==
  /\ At(t, "precommit")
  /\ LET f == Top(t)
         descptr == Dirty(MwCASPtr(f.d))
     IN Goto(t, IF mem[Addr(f)] = descptr
                THEN [f EXCEPT !.pc = "persist", !.ret = descptr]
                ELSE NextWord(f, "precommit", "decide"))
  /\ UNCHANGED <<memVars, statusVars, next, history>>

(***************************************************************************)
(* MwCASWithFailure: "If we are told to not complete descriptor install,   *)
(* exit the function before updating the operation status.  Otherwise      *)
(* update the status but do not perform the final phase".  It returns      *)
(* false and does not clean up.                                            *)
(***************************************************************************)
Stops(t) == Len(stack[t]) = 1 /\ Top(t).pc = stops[t] /\ Top(t).pc # "return"

ReturnWithFailure(t) ==
  /\ Stops(t)
  /\ stack' = [stack EXCEPT ![t] = <<>>]
  /\ UNCHANGED <<memVars, statusVars, next, history>>

(* Only PersistentMwCAS has a status to persist. *)
AfterDecision == IF build = "pmem" THEN "persist_status" ELSE "swap"

(* Mutant: the status is stored whatever it was. *)
DecideBlindly(t) ==
  /\ At(t, "decide")
  /\ LET f == Top(t) IN
       /\ StoreStatus(f.d, Flag(Status(f.my_status)))
       /\ hist' = IF f.my_status = "Succeeded" THEN Append(hist, f.d) ELSE hist
       /\ Goto(t, MwCASFrame(f.d, AfterDecision))
  /\ UNCHANGED <<memVars, next, acked>>

(* The compare-exchange of status_ that decides the operation. *)
Decide(t) ==
  /\ At(t, "decide") /\ ~Stops(t)
  /\ LET f == Top(t) IN
       /\ IF status[f.d] = Status("Undecided")
          THEN /\ StoreStatus(f.d, Flag(Status(f.my_status)))
               /\ hist' = IF f.my_status = "Succeeded" THEN Append(hist, f.d)
                                                       ELSE hist
          ELSE UNCHANGED <<statusVars, hist>>
       /\ Goto(t, MwCASFrame(f.d, AfterDecision))
  /\ UNCHANGED <<memVars, next, acked>>

(* Mutant: a pointer whose dirty flag somebody cleared is left in place. *)
SwapDirtyOnly(t) ==
  /\ (At(t, "swap") /\ ~Stops(t)) \/ At(t, "swap_clean")
  /\ LET f == Top(t)
         val == Dirty(IF status[f.d].s = "Succeeded" THEN New(f.d, f.i)
                                                     ELSE Old(f.d, f.i))
     IN /\ CAS(Addr(f), Dirty(MwCASPtr(f.d)), val)
        /\ Goto(t, [f EXCEPT !.pc = "persist", !.ret = val])
  /\ UNCHANGED <<statusVars, next, history>>

(* A word's final value replaces the pointer, be it dirty or clean. *)
Swap(t) ==
  /\ (At(t, "swap") /\ ~Stops(t)) \/ At(t, "swap_clean")
  /\ LET f == Top(t)
         expected == IF f.pc = "swap" THEN Flag(MwCASPtr(f.d)) ELSE MwCASPtr(f.d)
         val == Flag(IF status[f.d].s = "Succeeded" THEN New(f.d, f.i) ELSE Old(f.d, f.i))
     IN /\ CAS(Addr(f), expected, val)
        /\ Goto(t, IF build = "volatile" THEN NextWord(f, "swap", "return")
                   ELSE IF f.pc = "swap" /\ mem[Addr(f)] = MwCASPtr(f.d)
                   THEN [f EXCEPT !.pc = "swap_clean"]
                   ELSE [f EXCEPT !.pc = "persist", !.ret = val])
  /\ UNCHANGED <<statusVars, next, history>>

(* The owner returns; Cleanup gives the descriptor to the garbage list. *)
ReturnOwner(t) ==
  /\ At(t, "return") /\ Len(stack[t]) = 1
  /\ stack' = [stack EXCEPT ![t] = <<>>]
  /\ acked' = acked \union ({Top(t).d} \intersect Range(hist))
  /\ UNCHANGED <<memVars, statusVars, next, hist>>

(* A helper returns to the call that helped. *)
ReturnHelper(t) ==
  /\ At(t, "return") /\ Len(stack[t]) > 1
  /\ stack' = [stack EXCEPT ![t] = Callers(@)]
  /\ UNCHANGED <<memVars, statusVars, next, history>>

-----------------------------------------------------------------------------
(* GetValueProtectedPersistent *)

(* The last of the operations seq that is in done and writes a, 0 if none. *)
LastOf(seq, done, a) ==
  LET by == {k \in DOMAIN seq :
               seq[k] \in done /\ \E e \in Range(words[seq[k]]) : e.address = a}
  IN IF by = {} THEN 0 ELSE seq[CHOOSE k \in by : \A j \in by : j <= k]

(* History: the successful operation that wrote address a last. *)
LastWriter(a) == LastOf(hist, Descs, a)

(* A read returns the value that operation d wrote. *)
ReturnValue(t, d) ==
  /\ stack' = [stack EXCEPT ![t] = <<>>]
  /\ acked' = acked \union ({d} \ {0})

Load(t) ==
  /\ At(t, "load")
  /\ LET f == Top(t)
         val == mem[f.i]
         g == [f EXCEPT !.ret = val, !.saw = LastWriter(f.i)]
     IN CASE val.tag = "cond" ->
               Goto(t, [g EXCEPT !.pc = "final_status"]) /\ UNCHANGED acked
          [] val.tag # "cond" /\ IsDirty(val) ->
               Goto(t, [g EXCEPT !.pc = "persist"]) /\ UNCHANGED acked
          [] val.tag = "mwcas" /\ ~IsDirty(val) ->
               Help(t, f, val.d) /\ UNCHANGED acked
          [] OTHER -> ReturnValue(t, g.saw)
  /\ UNCHANGED <<memVars, statusVars, next, hist>>

-----------------------------------------------------------------------------
(* Persist a word found dirty, then clear the dirty flag *)

(* PersistAddress() or PersistValue(): whatever the word holds by now. *)
FlushWord(t) ==
  /\ At(t, "persist")
  /\ PersistAddress(Addr(Top(t)))
  /\ Goto(t, [Top(t) EXCEPT !.pc = "clean"])
  /\ UNCHANGED <<statusVars, next, history>>

(***************************************************************************)
(* The flag is cleared by a compare-exchange.  Then: another operation's   *)
(* pointer is helped; after the operation's own pointer, or its final      *)
(* value, the loop goes on; a read returns its value.                      *)
(***************************************************************************)
CleanWord(t) ==
  /\ At(t, "clean")
  /\ LET f == Top(t) IN
       /\ CAS(Addr(f), f.ret, Clean(f.ret))
       /\ CASE f.ret.tag = "mwcas" /\ f.ret.d # f.d ->
                 Help(t, Retry(f), f.ret.d) /\ UNCHANGED acked
            [] f.ret.tag = "mwcas" /\ f.ret.d = f.d ->
                 Goto(t, NextWord(f, "precommit", "decide")) /\ UNCHANGED acked
            [] f.ret.tag = "val" /\ f.d # 0 ->
                 Goto(t, NextWord(f, "swap", "return")) /\ UNCHANGED acked
            [] OTHER -> ReturnValue(t, f.saw)
  /\ UNCHANGED <<statusVars, next, hist>>

-----------------------------------------------------------------------------

(***************************************************************************)
(* A running call.  PersistentMwCAS is mapped action by action; the other  *)
(* two builds take the same actions, and this is where they are whole:     *)
(* VolatileMwCAS, without the flushes and dirty flags (build), and either  *)
(* one's WithFailure variant, up to the place where it stops (stops).      *)
(***************************************************************************)
Continue(t) ==
  \/ FlushDescriptor(t) \/ ReadStatus(t) \/ FlushStatus(t) \/ CleanStatus(t)
  \/ CondCAS(t) \/ CondStatus(t) \/ CondRecheck(t)
  \/ ReadCondStatus(t) \/ InstallOverCond(t)
  \/ Precommit(t) \/ Decide(t) \/ Swap(t) \/ ReturnOwner(t) \/ ReturnHelper(t)
  \/ Load(t) \/ FlushWord(t) \/ CleanWord(t) \/ ReturnWithFailure(t)

Step(t) ==
  BeginMwCAS(t) \/ BeginRead(t) \/ (Continue(t) /\ UNCHANGED <<build, stops>>)

AllDone == \A t \in Threads : stack[t] = <<>> /\ next[t] > Len(Script[t])

(* Every operation has returned. *)
Done == AllDone /\ UNCHANGED opVars

OpNext == (\E t \in Threads : Step(t)) \/ Done

(* Threads are scheduled: one that can step eventually does. *)
OpSpec == OpInit /\ [][OpNext]_opVars /\ \A t \in Threads : WF_opVars(Step(t))

-----------------------------------------------------------------------------
(* Properties *)

(* The words, statuses and frames have the forms the code gives them. *)
TypeOK ==
  /\ mem \in [Addresses -> Words]
  /\ nvram \in [Addresses -> SUBSET Words]
  /\ status \in [Descs -> [s : States, dirty : 0 .. 1]]
  /\ nvstatus \in [Descs -> SUBSET States]
  /\ next \in [Threads -> Nat]
  /\ \A t \in Threads : \A k \in DOMAIN stack[t] :
       IF stack[t][k].d = 0 THEN k = 1 /\ stack[t][k].i \in Addresses
       ELSE stack[t][k].d \in Descs /\ stack[t][k].i \in DOMAIN words[stack[t][k].d]
  /\ Range(hist) \subseteq Descs /\ acked \subseteq Range(hist)

(* The value of word a that the operations decided so far amount to. *)
Logical(a) ==
  CASE mem[a].tag = "val" -> mem[a].v
    [] mem[a].tag = "cond" -> words[mem[a].d][mem[a].i].old
    [] mem[a].tag = "mwcas" ->
         LET e == CHOOSE e \in Range(words[mem[a].d]) : e.address = a
         IN IF status[mem[a].d].s = "Succeeded" THEN e.new ELSE e.old

(***************************************************************************)
(* MwCAS() in either build is an atomic multi-word compare-and-swap: the   *)
(* compare-exchange of status_ changes all target words at once, and no    *)
(* other step of any owner, helper or reader changes any of them.          *)
(***************************************************************************)
Atomic == INSTANCE AtomicMwCAS WITH
  Ops <- Descs,
  target <- words,
  value <- [a \in Addresses |-> Logical(a)],
  outcome <- [d \in Descs |->
               IF status[d].s \in {"Succeeded", "Failed"} THEN status[d].s
                                                        ELSE "pending"]

AtomicSpec == Atomic!Spec

(***************************************************************************)
(* PersistentMwCAS: "Need to persist all fields (which point to            *)
(* descriptors) before switching to final status": when an operation is    *)
(* decided as successful, NVRAM holds its pointer in every target word.    *)
(***************************************************************************)
PersistBeforeDecide ==
  [][\A d \in Descs :
       build = "pmem" /\ status[d].s = "Undecided" /\ status'[d].s = "Succeeded" =>
         \A e \in Range(words[d]) :
           nvram[e.address] \subseteq {MwCASPtr(d), Dirty(MwCASPtr(d))}]_opVars

(***************************************************************************)
(* AddEntry: "Word descriptors are stored sorted on the word address to    *)
(* prevent livelocks": a thread never helps an operation that it is        *)
(* already executing further down its stack.                               *)
(***************************************************************************)
NoHelpCycle ==
  \A t \in Threads : \A j, k \in DOMAIN stack[t] :
    stack[t][j].d = stack[t][k].d => j = k

(***************************************************************************)
(* "The operation is lock-free and non-blocking": with finitely many       *)
(* operations and every thread scheduled, all operations return, also when *)
(* an owner stops half way (MwCASWithFailure) and leaves its operation to  *)
(* helpers.  The exception is VolatileMwCAS when the owner stops between   *)
(* the decision and the last phase: helpers return at once from a decided  *)
(* operation, and try again until the owner has removed its pointers.      *)
(***************************************************************************)
AllReturn ==
  <>(AllDone \/ (build = "volatile" /\ \E t \in Threads : stops[t] = "swap"))

=============================================================================
