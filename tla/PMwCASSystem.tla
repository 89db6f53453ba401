---------------------------- MODULE PMwCASSystem ----------------------------
(***************************************************************************)
(* PMwCAS in its surroundings: descriptors that have been used go through  *)
(* the garbage list back to the pool, power may fail at any point, and the *)
(* DescriptorPool constructor then rolls every operation that was under    *)
(* way forward or back.                                                    *)
(*                                                                         *)
(* A thread is inside a protected region from the start of an operation to *)
(* its return.  The epoch manager is used by what EpochReclaim shows of    *)
(* it: a retired descriptor is freed once every thread that was in a       *)
(* protected region when it was retired has left that region.              *)
(***************************************************************************)
EXTENDS PMwCAS

CONSTANTS
  Recycle,    \* do retired descriptors get freed?
  MaxCrashes  \* bound: crashes in one behaviour

ASSUME SystemAssumption == Recycle \in BOOLEAN /\ MaxCrashes \in Nat

VARIABLES
  retired,   \* descriptors in a garbage list
  grace,     \* per retired descriptor: threads that may still reach it
  phase,     \* "run", "recover", "recovered", or the RAW_CHECK that failed
  recovery,  \* the descriptor and the word that recovery is at
  crashes    \* crashes so far

poolVars == <<retired, grace>>
systemVars == <<phase, recovery, crashes>>
vars == <<opVars, poolVars, systemVars>>

Init ==
  /\ OpInit
  /\ retired = {}
  /\ grace = [d \in Descs |-> {}]
  /\ phase = "run"
  /\ recovery = <<1, 1>>
  /\ crashes = 0

-----------------------------------------------------------------------------
(* Running: retirement and recycling of descriptors *)

Protected(t) == stack[t] # <<>>

(***************************************************************************)
(* A step of t.  A returning owner has given its descriptor to the garbage *)
(* list (Cleanup, doCleanup); with the return, t leaves its region.        *)
(***************************************************************************)
Run(t) ==
  LET leaves == Protected(t) /\ stack'[t] = <<>>
      mine == IF Stops(t) THEN {} ELSE {Top(t).d} \ {0}
  IN /\ phase = "run"
     /\ Step(t)
     /\ IF leaves
        THEN /\ retired' = retired \union mine
             /\ grace' = [d \in Descs |->
                  (IF d \in mine THEN {u \in Threads : Protected(u)} ELSE grace[d])
                  \ {t}]
        ELSE UNCHANGED poolVars
     /\ UNCHANGED systemVars

(* Mutant: the descriptor is freed without waiting for its readers. *)
FreeEagerly(d) ==
  /\ Recycle /\ phase = "run"
  /\ d \in retired
  /\ StoreStatus(d, Status("Finished"))
  /\ retired' = retired \ {d}
  /\ UNCHANGED <<build, stops, memVars, stack, next, history, grace, systemVars>>

(* FreeDescriptor: Initialize() makes it Finished again and flushes nothing. *)
FreeDescriptor(d) ==
  /\ Recycle /\ phase = "run"
  /\ d \in retired /\ grace[d] = {}
  /\ StoreStatus(d, Status("Finished"))
  /\ retired' = retired \ {d}
  /\ UNCHANGED <<build, stops, memVars, stack, next, history, grace, systemVars>>

-----------------------------------------------------------------------------
(* Crash and recovery *)

(***************************************************************************)
(* Power fails, while operations run, during recovery or right after it:   *)
(* threads and caches are lost, every word and every status is one of      *)
(* those that NVRAM may hold.                                              *)
(***************************************************************************)
Crash ==
  /\ build = "pmem"
  /\ phase \in {"run", "recover", "recovered"} /\ crashes < MaxCrashes
  /\ mem' \in {m \in [Addresses -> UNION Range(nvram)] :
               \A a \in Addresses : m[a] \in nvram[a]}
  /\ nvram' = [a \in Addresses |-> {mem'[a]}]
  /\ nvstatus' \in {s \in [Descs -> {{x} : x \in States}] :
                    \A d \in Descs : s[d] \subseteq nvstatus[d]}
  /\ status' = [d \in Descs |-> Status(CHOOSE s \in nvstatus'[d] : TRUE)]
  /\ stack' = [t \in Threads |-> <<>>]
  /\ retired' = {}
  /\ grace' = [d \in Descs |-> {}]
  /\ phase' = "recover"
  /\ recovery' = <<1, 1>>
  /\ crashes' = crashes + 1
  /\ UNCHANGED <<build, stops, next, history>>

Recovering(d, i) ==
  /\ phase = "recover" /\ recovery = <<d, i>>
  /\ UNCHANGED <<build, stops, statusVars, stack, next, history, poolVars, crashes>>

(***************************************************************************)
(* A zeroed first descriptor means a new pool, with nothing to recover; a  *)
(* zeroed one further on trips RAW_CHECK "corrupted descriptor pool".      *)
(***************************************************************************)
RecoverInvalid(d) ==
  /\ Recovering(d, 1)
  /\ status[d].s = "Invalid"
  /\ IF d = 1 THEN recovery' = <<PoolSize + 1, 1>> /\ UNCHANGED phase
              ELSE phase' = "corrupted_pool" /\ UNCHANGED recovery
  /\ UNCHANGED memVars

(* A finished descriptor is skipped, and any other after its last word. *)
RecoverNext(d, i) ==
  /\ Recovering(d, i)
  /\ status[d].s # "Invalid"
  /\ status[d].s = "Finished" \/ i > Len(words[d])
  /\ recovery' = <<d + 1, 1>>
  /\ UNCHANGED <<memVars, phase>>

(***************************************************************************)
(* One word: the dirty flag goes, a pointer to the operation becomes the   *)
(* old value, or the new one if the operation succeeded, and the word is   *)
(* persisted.  A CondCAS pointer of a successful operation trips RAW_CHECK *)
(* "invalid field value".                                                  *)
(***************************************************************************)
RecoverWord(d, i) ==
  LET a == words[d][i].address
      val == Clean(mem[a])
      done == status[d].s = "Succeeded"
      x == CASE val = MwCASPtr(d) -> IF done THEN New(d, i) ELSE Old(d, i)
             [] val = CondPtr(d, i) -> Old(d, i)
             [] OTHER -> val
  IN /\ Recovering(d, i)
     /\ status[d].s \in {"Undecided", "Failed", "Succeeded"} /\ i <= Len(words[d])
     /\ IF done /\ val = CondPtr(d, i)
        THEN phase' = "invalid_field_value" /\ UNCHANGED <<memVars, recovery>>
        ELSE /\ mem' = [mem EXCEPT ![a] = x]
             /\ nvram' = [nvram EXCEPT ![a] = {x}]
             /\ recovery' = <<d, i + 1>>
             /\ UNCHANGED phase

(* All descriptors are cleared and constructed anew, none is flushed. *)
Reinitialize ==
  /\ phase = "recover" /\ recovery = <<PoolSize + 1, 1>>
  /\ phase' = "recovered"
  /\ status' = [d \in Descs |-> Status("Finished")]
  /\ nvstatus' = [d \in Descs |-> nvstatus[d] \union {"Invalid", "Finished"}]
  /\ UNCHANGED <<build, stops, memVars, stack, next, history, poolVars, recovery, crashes>>

Recover ==
  \/ \E d \in Descs : RecoverInvalid(d) \/ \E i \in 1 .. kMaxCount + 1 :
                         RecoverNext(d, i) \/ RecoverWord(d, i)
  \/ Reinitialize

(* All operations have returned, or recovery is over or has aborted. *)
Halt ==
  /\ phase \notin {"run", "recover"} \/ (phase = "run" /\ AllDone)
  /\ UNCHANGED vars

Next ==
  \/ \E t \in Threads : Run(t)
  \/ \E d \in Descs : FreeDescriptor(d)
  \/ Crash \/ Recover \/ Halt

Spec == Init /\ [][Next]_vars

-----------------------------------------------------------------------------

(* Bookkeeping of the pool and of recovery stays within the pool. *)
SystemTypeOK ==
  /\ TypeOK
  /\ retired \subseteq Descs /\ grace \in [Descs -> SUBSET Threads]
  /\ phase \in {"run", "recover", "recovered", "corrupted_pool", "invalid_field_value"}
  /\ recovery \in (1 .. PoolSize + 1) \X (1 .. kMaxCount + 1)
  /\ crashes \in 0 .. MaxCrashes

(***************************************************************************)
(* RAW_CHECK(val != &word, "invalid field value"): a crash never leaves    *)
(* the CondCAS pointer of an operation that NVRAM knows as successful.     *)
(***************************************************************************)
FieldValuesValid == phase # "invalid_field_value"

(* What the operations of seq that are in done, one after another, produce. *)
Replay(seq, done) ==
  [a \in Addresses |->
    LET d == LastOf(seq, done, a)
    IN IF d = 0 THEN InitValue[a]
       ELSE (CHOOSE e \in Range(words[d]) : e.address = a).new]

(* Each of them finds its old values in the memory before it. *)
Legal(seq, done) ==
  \A k \in DOMAIN seq : seq[k] \in done =>
    \A e \in Range(words[seq[k]]) :
      Replay(SubSeq(seq, 1, k - 1), done)[e.address] = e.old

(***************************************************************************)
(* While threads run, with descriptors coming back through the pool: the   *)
(* words hold what the successful operations produce one after another, in *)
(* the order of their decision, and each of them found its old values.     *)
(***************************************************************************)
Linearizable ==
  phase = "run" =>
    /\ Legal(hist, Descs)
    /\ \A a \in Addresses : Logical(a) = Replay(hist, Descs)[a]

(***************************************************************************)
(* Durable linearizability, "requires no custom recovery logic from the    *)
(* application": after recovery the words hold plain values, those that    *)
(* some of the successful operations produce in the order in which they    *)
(* were decided; each of these took effect on all its words or on none,    *)
(* and every operation whose success a caller or a reader had been told of *)
(* is among them.                                                          *)
(***************************************************************************)
DurablyLinearizable ==
  phase = "recovered" =>
    \E done \in SUBSET Range(hist) :
      /\ acked \subseteq done
      /\ Legal(hist, done)
      /\ \A a \in Addresses : Clean(mem[a]) = Val(Replay(hist, done)[a])

(* The descriptors that thread t may dereference in its next steps. *)
References(t) ==
  UNION {{f.d} \union (IF f.ret.tag \in {"mwcas", "cond"} THEN {f.ret.d} ELSE {}) :
         f \in Range(stack[t])} \ {0}

(***************************************************************************)
(* doCleanup: "There will be no new accessors once we have none of the     *)
(* target fields contain a pointer to this descriptor": no thread still    *)
(* uses a descriptor after FreeDescriptor has given it back to the pool.   *)
(***************************************************************************)
NoUseAfterFree ==
  \A t \in Threads : \A d \in References(t) : status[d].s # "Finished"

=============================================================================
