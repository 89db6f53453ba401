---------------------------- MODULE FASASMemory ----------------------------
(***************************************************************************)
(* What the two fetch-and-store-and-store implementations share: the       *)
(* shared word, the private word of every thread, descriptors of one cache *)
(* line each, all of them in NVRAM, and the callers.  FASAS is             *)
(* FASASDescriptor, OptFASAS is OptmizedFASASDescriptor; kind says which   *)
(* of the two a behaviour uses.                                            *)
(*                                                                         *)
(* One shared word is enough: operations on different words have no state  *)
(* in common.  nv.x is the set of values that NVRAM may hold for x: what   *)
(* was last flushed and everything stored since.                           *)
(***************************************************************************)
EXTENDS Integers, Sequences, FiniteSets, SequencesExt

CONSTANTS
  Threads,     \* process ids, 1 .. n
  Kinds,       \* implementations to run: a subset of {"plain", "opt"}
  Script,      \* per thread: its operations, in order
  MaxCrashes   \* per kind: bound on the power failures

ASSUME ScriptAssumption ==
  \A t \in Threads :
    /\ DOMAIN Script[t] = 1 .. Len(Script[t])
    /\ \A i \in DOMAIN Script[t] : Script[t][i].op \in {"fasas", "dcas", "rcas", "read"}

VARIABLES
  kind,     \* the implementation, fixed at the start
  shared,   \* the shared word
  private,  \* per thread: its private word
  desc,     \* the descriptors
  nv,       \* what NVRAM may hold for each of the three
  local,    \* per thread: the local variables of its operation
  next,     \* per thread: index in Script of its next operation
  hist,     \* history: operations in the order in which they took effect
  told,     \* history: how many of these somebody was told of
  phase,    \* "run", "recover", "recovered", or the RAW_CHECK that failed
  recovery, \* the descriptor and the step that recovery is at
  crashes   \* power failures so far

words == <<shared, private>>
callers == <<local, next, hist, told>>
system == <<kind, phase, recovery, crashes>>
vars == <<words, desc, nv, callers, system>>

-----------------------------------------------------------------------------
(* opType_: the kind of operation in three high bits, for the double-word  *)
(* CAS together with its value in the bits below, of which there are three *)

FASASOp == 8
DoubleCASOp == 16
RecoverCASOp == 32

HasBit(value, flag) == (value \div flag) % 2 = 1

isRecoverCAS(value) == HasBit(value, RecoverCASOp)
isDoubleCAS(value) == HasBit(value, DoubleCASOp)

(* The value with the flag set, and without DoubleCASOp. *)
setOpTypeFlg(value, flag) == IF HasBit(value, flag) THEN value ELSE value + flag
getDCASValue(value) == IF isDoubleCAS(value) THEN value - DoubleCASOp ELSE value

(* What the callers hand to setOpType. *)
opType(op) ==
  CASE op.op = "rcas" -> RecoverCASOp
    [] op.op = "dcas" -> setOpTypeFlg(op.pv, DoubleCASOp)
    [] OTHER -> FASASOp

(* changePrivateValueSucc: what an operation stores in the private word. *)
Stored(op, old) ==
  CASE isRecoverCAS(opType(op)) -> 1
    [] isDoubleCAS(opType(op)) -> getDCASValue(opType(op))
    [] OTHER -> old

-----------------------------------------------------------------------------
(* Cached stores and flushes *)

StoreShared(w) ==
  /\ shared' = w
  /\ nv' = [nv EXCEPT !.shared = @ \union {w}]

(* A sequence of stores to the line of descriptor d; the last one stays. *)
StoreDesc(d, lines) ==
  /\ desc' = [desc EXCEPT ![d] = Last(lines)]
  /\ nv' = [nv EXCEPT !.desc[d] = @ \union Range(lines)]

StorePrivate(t, v) ==
  /\ private' = [private EXCEPT ![t] = v]
  /\ nv' = [nv EXCEPT !.private[t] = @ \union {v}]

FlushShared == nv' = [nv EXCEPT !.shared = {shared}]
FlushDesc(d) == nv' = [nv EXCEPT !.desc[d] = {desc[d]}]
FlushPrivate(t) == nv' = [nv EXCEPT !.private[t] = {private[t]}]

-----------------------------------------------------------------------------
(* Callers: FetchStoreStore::process, fasas, dcas, recoverCas and read *)

(* Results: of an operation under way, a value, and of a CAS. *)
None == <<"none", 0>>
Value(v) == <<"value", v>>
True == <<"true", 0>>
False == <<"false", 0>>

Idle == [pc |-> "idle", res |-> None]

(* Thread t begins its next operation with the local variables l. *)
Call(t, l) ==
  /\ phase = "run" /\ local[t].pc = "idle" /\ next[t] <= Len(Script[t])
  /\ local' = [local EXCEPT ![t] = l]
  /\ next' = [next EXCEPT ![t] = @ + 1]
  /\ UNCHANGED <<hist, told, system>>

At(t, pc) == phase = "run" /\ local[t].pc = pc

Set(t, l) == local' = [local EXCEPT ![t] = l]

(* A step of t that leaves the history alone and goes on with l. *)
Goto(t, l) == Set(t, l) /\ UNCHANGED <<next, hist, told, system>>

(* Three kinds of steps of t from pc to then: no access or a read, a flush, *)
(* and stores to the line of descriptor d.                                 *)
Look(t, pc, then) ==
  At(t, pc) /\ Goto(t, then) /\ UNCHANGED <<words, desc, nv>>

FlushStep(t, pc, flush, then) ==
  At(t, pc) /\ flush /\ Goto(t, then) /\ UNCHANGED <<words, desc>>

StoreStep(t, pc, d, lines, then) ==
  At(t, pc) /\ StoreDesc(d, lines) /\ Goto(t, then) /\ UNCHANGED words

To(t, pc) == [local[t] EXCEPT !.pc = pc]

(* The operation of t takes effect: history remembers what identifies it. *)
TakeEffect(t, id, old, l) ==
  /\ hist' = Append(hist, [t |-> t, op |-> l.op, old |-> old, id |-> id])
  /\ Set(t, [l EXCEPT !.res = IF l.op.op = "fasas" THEN Value(old) ELSE True,
                      !.saw = Len(hist) + 1])
  /\ UNCHANGED <<next, told, system>>

(* It returns; its caller knows of the operations up to the one it saw. *)
Return(t) ==
  /\ told' = IF local[t].saw > told THEN local[t].saw ELSE told
  /\ Set(t, Idle)
  /\ UNCHANGED <<next, hist, system>>

(* What the first k operations leave in the shared and the private words. *)
ValueAfter(k) == IF k = 0 THEN 0 ELSE hist[k].op.new

PrivateAfter(t, k) ==
  LET mine == SelectSeq(SubSeq(hist, 1, k), LAMBDA e : e.t = t)
  IN IF mine = <<>> THEN 0 ELSE Stored(Last(mine).op, Last(mine).old)

-----------------------------------------------------------------------------

AllDone == \A t \in Threads : local[t].pc = "idle" /\ next[t] > Len(Script[t])

(* The operations that remain have returned, or recovery has aborted. *)
Halt ==
  /\ (phase = "run" /\ AllDone) \/ phase \notin {"run", "recover"}
  /\ UNCHANGED vars

(* The functions f with f[x] in possible[x]; f[x] = now[x] if that is all. *)
Images(now, possible) ==
  LET open == {x \in DOMAIN now : possible[x] # {now[x]}}
      choices == {f \in [open -> UNION {possible[x] : x \in open}] :
                  \A x \in open : f[x] \in possible[x]}
  IN {[x \in DOMAIN now |-> IF x \in open THEN f[x] ELSE now[x]] : f \in choices}

(***************************************************************************)
(* The power fails.  The word, the descriptors and the private words are   *)
(* what NVRAM held; identity[k] are the words that the k-th operation puts *)
(* in place.  History keeps the operations up to the one found there.      *)
(***************************************************************************)
PowerFailure(identity) ==
  /\ phase \in {"run", "recover"} /\ crashes < MaxCrashes[kind]
  /\ shared' \in nv.shared
  /\ desc' \in Images(desc, nv.desc)
  /\ private' \in Images(private, nv.private)
  /\ nv' = [shared |-> {shared'},
            desc |-> [d \in DOMAIN desc |-> {desc'[d]}],
            private |-> [t \in Threads |-> {private'[t]}]]
  /\ LET kept == {k \in DOMAIN hist : shared' \in identity[k]}
     IN hist' = SubSeq(hist, 1, IF kept = {} THEN 0 ELSE CHOOSE k \in kept : TRUE)
  /\ local' = [t \in Threads |-> Idle]
  /\ phase' = "recover"
  /\ recovery' = <<1, "check">>
  /\ crashes' = crashes + 1
  /\ UNCHANGED <<kind, next, told>>

=============================================================================
