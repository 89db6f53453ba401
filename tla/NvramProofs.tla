---------------------------- MODULE NvramProofs ----------------------------
(***************************************************************************)
(* What NVRAM may hold of the target words and of the statuses while       *)
(* threads run.                                                            *)
(***************************************************************************)
EXTENDS StepProofs

(* Time for the longest leaves. *)
USE ZenonT(4), SMTT(10), ZenonT(40), SMTT(60), ZenonT(150)

-----------------------------------------------------------------------------

(* Statuses in NVRAM *)

(* What NVRAM knows of a status it does not forget. *)
NvEvolves ==
  \A d \in Descs : /\ Published(d) => Published(d)'
                   /\ Known(d) => Known(d)'
                   /\ Settled(d) => Settled(d)'

LEMMA SettledKnown ==
  ASSUME NvStatusInv, NEW d \in Descs, Settled(d)
  PROVE  Known(d) /\ status[d].s = "Succeeded"
  BY DEF NvStatusInv, Settled, Known, Decided

LEMMA StoreStatusNv ==
  ASSUME TypeInv, NvStatusInv, NEW d \in Descs, NEW st, StoreStatus(d, st),
         st.s \in {"Undecided", "Succeeded", "Failed"},
         status[d].s \in {"Finished", "Undecided", st.s}
  PROVE  NvStatusInv' /\ NvEvolves
  <1>1. /\ status' = [status EXCEPT ![d] = st]
        /\ nvstatus' = [nvstatus EXCEPT ![d] = @ \union {st.s}]
        /\ status \in [Descs -> [s : States, dirty : 0 .. 1]]
        /\ nvstatus \in [Descs -> SUBSET States]
    BY DEF StoreStatus, TypeInv, StatusType
  <1>2. /\ status'[d] = st /\ nvstatus'[d] = nvstatus[d] \union {st.s}
        /\ \A c \in Descs : c # d => status'[c] = status[c] /\ nvstatus'[c] = nvstatus[c]
    BY <1>1
  <1>3. /\ status'[d].s \in nvstatus'[d]
        /\ nvstatus'[d] \subseteq {"Finished", "Undecided", status'[d].s}
    BY <1>2 DEF NvStatusInv
  <1>4. NvStatusInv'
    BY <1>2, <1>3 DEF NvStatusInv
  <1>5. Published(d) => Published(d)'
    BY <1>2 DEF Published
  <1>6. Known(d) => Known(d)'
    BY <1>2 DEF Known, Decided
  <1>7. Settled(d) => Settled(d)'
    <2>1. Settled(d) => status[d].s = "Succeeded"
      BY SettledKnown
    <2> QED
      BY <1>2, <2>1 DEF Settled
  <1>8. \A c \in Descs : c # d =>
          /\ Published(c) => Published(c)'
          /\ Known(c) => Known(c)'
          /\ Settled(c) => Settled(c)'
    BY <1>2 DEF Published, Known, Settled, Decided
  <1> QED
    BY <1>4, <1>5, <1>6, <1>7, <1>8 DEF NvEvolves

LEMMA PersistStatusNv ==
  ASSUME TypeInv, NvStatusInv, NEW d \in Descs, PersistStatus(d),
         status[d].s \in {"Undecided", "Succeeded", "Failed"}
  PROVE  NvStatusInv' /\ NvEvolves /\ Published(d)' /\ nvstatus'[d] = {status'[d].s}
  <1>1. /\ status' = status /\ nvstatus' = [nvstatus EXCEPT ![d] = {status[d].s}]
        /\ nvstatus \in [Descs -> SUBSET States]
    BY DEF PersistStatus, TypeInv, StatusType
  <1>2. /\ nvstatus'[d] = {status[d].s}
        /\ \A c \in Descs : c # d => nvstatus'[c] = nvstatus[c]
    BY <1>1
  <1>3. NvStatusInv'
    BY <1>1, <1>2 DEF NvStatusInv
  <1>4. Published(d)' /\ (Known(d) => Known(d)')
    BY <1>1, <1>2 DEF Published, Known, Decided
  <1>5. Settled(d) => Settled(d)'
    <2>1. Settled(d) => status[d].s = "Succeeded"
      BY SettledKnown
    <2> QED
      BY <1>2, <2>1 DEF Settled
  <1>6. \A c \in Descs : c # d =>
          /\ Published(c) => Published(c)'
          /\ Known(c) => Known(c)'
          /\ Settled(c) => Settled(c)'
    BY <1>1, <1>2 DEF Published, Known, Settled, Decided
  <1> QED
    BY <1>1, <1>2, <1>3, <1>4, <1>5, <1>6 DEF NvEvolves

LEMMA SameStatusNv ==
  ASSUME NvStatusInv, UNCHANGED statusVars
  PROVE  NvStatusInv' /\ NvEvolves
  <1>1. status' = status /\ nvstatus' = nvstatus
    BY DEF statusVars
  <1>2. NvStatusInv'
    BY <1>1 DEF NvStatusInv
  <1>3. \A d \in Descs : /\ Published(d) => Published(d)'
                         /\ Known(d) => Known(d)'
                         /\ Settled(d) => Settled(d)'
    BY <1>1 DEF Published, Known, Settled, Decided
  <1> QED
    BY <1>2, <1>3 DEF NvEvolves

LEMMA NvStatusStep ==
  ASSUME OpInv, NvStatusInv, NEW t \in Threads, Step(t)
  PROVE  NvStatusInv' /\ NvEvolves
  <1>1. TypeInv /\ StatusInv
    BY DEF OpInv
  <1>2. CASE UNCHANGED statusVars
    BY <1>2, SameStatusNv
  <1>3. CASE BeginMwCAS(t)
    <2>1. PICK d : d = Script[t][next[t]].d
      OBVIOUS
    <2>2. d \in Descs /\ next[t] \in DOMAIN Script[t] /\ Script[t][next[t]].op = "mwcas"
      BY <1>1, <1>3, <2>1, BeginMwCASEffect
    <2>3. status[d] = Status("Finished")
      <3>1. next[t] >= next[t]
        BY <1>1 DEF TypeInv
      <3> QED
        BY <1>1, <2>1, <2>2, <3>1 DEF StatusInv
    <2>4. StoreStatus(d, Status("Undecided"))
      BY <1>3, <2>1 DEF BeginMwCAS
    <2> QED
      BY <1>1, <2>2, <2>3, <2>4, StoreStatusNv, StatusForms
  <1>4. ASSUME FlushDescriptor(t) \/ FlushStatus(t)
        PROVE  NvStatusInv' /\ NvEvolves
    <2>1. PICK f : f = Top(t)
      OBVIOUS
    <2>2. stack[t] # <<>> /\ PersistStatus(f.d)
      BY <1>4, <2>1 DEF FlushDescriptor, FlushStatus, At
    <2>3. f.d \in Descs /\ f.d # 0
      BY <1>1, <1>4, <2>1, FlushDescriptorEffect, FlushStatusEffect DEF Descs
    <2>4. Active(f.d)
      BY <2>1, <2>2, <2>3, Here DEF FrameInv, CallInv
    <2>5. status[f.d].s \in {"Undecided", "Succeeded", "Failed"}
      BY <1>1, <2>3, <2>4, StatusCases, StatusForms DEF Undecided, Decided
    <2> QED
      BY <1>1, <2>2, <2>3, <2>5, PersistStatusNv
  <1>5. CASE CleanStatus(t)
    <2>1. PICK f : f = Top(t)
      OBVIOUS
    <2>2. stack[t] # <<>> /\ StoreStatus(f.d, Clean(status[f.d]))
      BY <1>5, <2>1 DEF CleanStatus, At
    <2>3. f.d \in Descs /\ f.d # 0
      BY <1>1, <1>5, <2>1, CleanStatusEffect DEF Descs
    <2>4. Active(f.d)
      BY <2>1, <2>2, <2>3, Here DEF FrameInv, CallInv
    <2>5. status[f.d].s \in {"Undecided", "Succeeded", "Failed"}
      BY <1>1, <2>3, <2>4, StatusCases, StatusForms DEF Undecided, Decided
    <2>6. Clean(status[f.d]).s = status[f.d].s
      BY <1>1, <2>3, StatusForms DEF TypeInv, StatusType
    <2> QED
      BY <1>1, <2>2, <2>3, <2>5, <2>6, StoreStatusNv
  <1>6. CASE Decide(t) /\ Undecided(Top(t).d)
    <2>1. PICK f : f = Top(t)
      OBVIOUS
    <2>2. f.d \in Descs /\ f.my_status \in {"Succeeded", "Failed"}
      BY <1>1, <1>6, <2>1, DecideEffect
    <2>3. StoreStatus(f.d, Flag(Status(f.my_status))) /\ status[f.d].s = "Undecided"
      BY <1>6, <2>1, StatusForms DEF Decide, Undecided
    <2>4. Flag(Status(f.my_status)).s = f.my_status
      BY <2>2, DecidedStatus DEF States
    <2> QED
      BY <1>1, <2>2, <2>3, <2>4, StoreStatusNv
  <1>7. \/ UNCHANGED statusVars \/ BeginMwCAS(t) \/ FlushDescriptor(t) \/ FlushStatus(t)
        \/ CleanStatus(t) \/ (Decide(t) /\ Undecided(Top(t).d))
    BY DEF Step, Continue, BeginRead, ReadStatus, CondCAS, CondStatus, CondRecheck,
           ReadCondStatus, InstallOverCond, Precommit, Decide, Swap, ReturnOwner, ReturnHelper,
           Load, FlushWord, CleanWord, ReturnWithFailure, Undecided, statusVars
  <1> QED
    BY <1>2, <1>3, <1>4, <1>5, <1>6, <1>7

-----------------------------------------------------------------------------

(* Words in NVRAM *)

(***************************************************************************)
(* The stores of a persistent run, at address a over y: CondCAS puts its   *)
(* pointer over the old value; a CondCAS pointer gives way to the MwCAS    *)
(* pointer or to the old value; a final value, once NVRAM knows the        *)
(* outcome, replaces the MwCAS pointer; a dirty flag is cleared.           *)
(***************************************************************************)
Follows(a, y, x) ==
  \/ \E d \in Descs : \E i \in DOMAIN words[d] :
       /\ words[d][i].address = a
       /\ \/ y = Old(d, i) /\ x = CondPtr(d, i) /\ Published(d)
          \/ y = CondPtr(d, i) /\ x \in Ptrs(d) \union {Old(d, i)}
          \/ y \in Ptrs(d) /\ Known(d) /\ x = Dirty(Final(d, i))
  \/ IsDirty(y) /\ x = Clean(y)

(* Every word stays as it is, is flushed, or is followed by another one. *)
NvChange ==
  \A a \in Addresses :
    \/ mem'[a] = mem[a] /\ nvram'[a] = nvram[a]
    \/ mem'[a] = mem[a] /\ nvram'[a] = {mem[a]}
    \/ Follows(a, mem[a], mem'[a]) /\ nvram'[a] = nvram[a] \union {mem'[a]}

LEMMA StoreChanges ==
  ASSUME TypeInv, NEW a \in Addresses, NEW x, Store(a, x), Follows(a, mem[a], x)
  PROVE  NvChange
  BY DEF Store, NvChange, TypeInv, MemType

LEMMA FlushChanges ==
  ASSUME TypeInv, NEW a \in Addresses, PersistAddress(a)
  PROVE  NvChange
  BY DEF PersistAddress, NvChange, TypeInv, MemType

LEMMA NothingChanges ==
  ASSUME UNCHANGED memVars
  PROVE  NvChange
  BY DEF memVars, NvChange

LEMMA NvFrameOf ==
  ASSUME OpInv, NvFramesInv, NEW t \in Threads, stack[t] # <<>>, NEW f, f = Top(t)
  PROVE  NvFrameInv(f)
  <1>1. f \in Range(stack[t])
    BY TopFacts DEF OpInv, Range
  <1> QED
    BY <1>1 DEF NvFramesInv

LEMMA CondCASChanges ==
  ASSUME OpInv, NvFramesInv, NEW t \in Threads, CondCAS(t)
  PROVE  NvChange
  <1>1. TypeInv
    BY DEF OpInv
  <1>2. PICK f, a : f = Top(t) /\ a = Addr(f)
    OBVIOUS
  <1>3. /\ f.pc = "condcas" /\ f.d \in Descs /\ f.d # 0 /\ f.i \in DOMAIN words[f.d]
        /\ a = words[f.d][f.i].address /\ a \in Addresses
        /\ \/ mem[a] = Old(f.d, f.i) /\ Store(a, CondPtr(f.d, f.i))
           \/ UNCHANGED memVars
    BY <1>1, <1>2, CondCASEffect
  <1>4. Published(f.d)
    <2>1. stack[t] # <<>>
      BY DEF CondCAS, At
    <2> QED
      BY <1>2, <1>3, <2>1, NvFrameOf DEF NvFrameInv
  <1>5. CASE mem[a] = Old(f.d, f.i) /\ Store(a, CondPtr(f.d, f.i))
    <2>1. Follows(a, mem[a], CondPtr(f.d, f.i))
      BY <1>3, <1>4, <1>5 DEF Follows
    <2> QED
      BY <1>1, <1>3, <1>5, <2>1, StoreChanges
  <1> QED
    BY <1>3, <1>5, NothingChanges

LEMMA InstallChanges ==
  ASSUME OpInv, NEW t \in Threads, InstallOverCond(t)
  PROVE  NvChange
  <1>1. TypeInv
    BY DEF OpInv
  <1>2. PICK f, a : f = Top(t) /\ a = Addr(f)
    OBVIOUS
  <1>3. f.pc = "install" /\ FrameOK(f) /\ CAS(a, f.ret, f.new)
    BY <1>1, <1>2, InstallEffect
  <1>4. FrameInv(f)
    BY <1>2, Here DEF InstallOverCond, At
  <1>5. PICK d, i : /\ d = f.ret.d /\ i = f.ret.i /\ d \in Descs /\ i \in DOMAIN words[d]
                    /\ f.ret = CondPtr(d, i)
    <2>1. f.ret \in Words /\ f.ret.tag = "cond"
      BY <1>3, FrameKinds DEF CondPCs
    <2> QED
      BY <2>1, CondForm
  <1>6. words[d][i].address = a /\ (f.new = Flag(MwCASPtr(d)) \/ f.new = Old(d, i))
    BY <1>2, <1>3, <1>4, <1>5 DEF FrameInv, PointerInv, CondPCs
  <1>7. f.new \in Ptrs(d) \union {Old(d, i)}
    <2>1. Flag(MwCASPtr(d)) \in Ptrs(d)
      BY <1>5, FlaggedPtr
    <2> QED
      BY <1>6, <2>1
  <1>8. a \in Addresses
    BY <1>2, <1>3, FrameKinds
  <1>9. CASE mem[a] = f.ret
    <2>1. Store(a, f.new)
      BY <1>3, <1>9 DEF CAS
    <2>2. Follows(a, mem[a], f.new)
      BY <1>5, <1>6, <1>7, <1>9 DEF Follows
    <2> QED
      BY <1>1, <1>8, <2>1, <2>2, StoreChanges
  <1>10. CASE mem[a] # f.ret
    BY <1>3, <1>10, NothingChanges DEF CAS
  <1> QED
    BY <1>9, <1>10

LEMMA SwapChanges ==
  ASSUME OpInv, NvFramesInv, build = "pmem", NEW t \in Threads, Swap(t)
  PROVE  NvChange
  <1>1. TypeInv
    BY DEF OpInv
  <1>2. PICK f, a : f = Top(t) /\ a = Addr(f)
    OBVIOUS
  <1>3. PICK val, x : /\ val = Flag(Final(f.d, f.i))
                      /\ x = IF f.pc = "swap" THEN Flag(MwCASPtr(f.d)) ELSE MwCASPtr(f.d)
    OBVIOUS
  <1>4. /\ f.pc \in {"swap", "swap_clean"} /\ FrameOK(f) /\ f.d \in Descs /\ f.d # 0
        /\ CAS(a, x, val)
    BY <1>1, <1>2, <1>3, SwapEffect
  <1>5. f.i \in DOMAIN words[f.d] /\ a = words[f.d][f.i].address /\ a \in Addresses
    BY <1>2, <1>4, FrameKinds
  <1>6. Known(f.d)
    <2>1. stack[t] # <<>>
      BY DEF Swap, At
    <2> QED
      BY <1>2, <1>4, <2>1, NvFrameOf DEF NvFrameInv, Completing
  <1>7. x \in Ptrs(f.d)
    BY <1>3, <1>4, FlaggedPtr DEF Ptrs
  <1>8. CASE mem[a] = x
    <2>1. Store(a, val)
      BY <1>4, <1>8 DEF CAS
    <2>2. val = Dirty(Final(f.d, f.i))
      BY <1>3 DEF Flag
    <2>3. Follows(a, mem[a], val)
      BY <1>4, <1>5, <1>6, <1>7, <1>8, <2>2 DEF Follows
    <2> QED
      BY <1>1, <1>5, <2>1, <2>3, StoreChanges
  <1>9. CASE mem[a] # x
    BY <1>4, <1>9, NothingChanges DEF CAS
  <1> QED
    BY <1>8, <1>9

LEMMA CleanWordChanges ==
  ASSUME OpInv, NEW t \in Threads, CleanWord(t)
  PROVE  NvChange
  <1>1. TypeInv
    BY DEF OpInv
  <1>2. PICK f, a : f = Top(t) /\ a = Addr(f)
    OBVIOUS
  <1>3. f.pc = "clean" /\ FrameOK(f) /\ CAS(a, f.ret, Clean(f.ret))
    BY <1>1, <1>2, CleanWordEffect
  <1>4. a \in Addresses /\ IsDirty(f.ret)
    BY <1>2, <1>3, FrameKinds DEF DirtyPCs
  <1>5. CASE mem[a] = f.ret
    <2>1. Store(a, Clean(f.ret))
      BY <1>3, <1>5 DEF CAS
    <2>2. Follows(a, mem[a], Clean(f.ret))
      BY <1>4, <1>5 DEF Follows
    <2> QED
      BY <1>1, <1>4, <2>1, <2>2, StoreChanges
  <1>6. CASE mem[a] # f.ret
    BY <1>3, <1>6, NothingChanges DEF CAS
  <1> QED
    BY <1>5, <1>6

LEMMA NvChanges ==
  ASSUME OpInv, NvFramesInv, build = "pmem", NEW t \in Threads, Step(t)
  PROVE  NvChange
  <1>1. CASE FlushWord(t)
    <2>1. PICK f : f = Top(t)
      OBVIOUS
    <2>2. FrameOK(f) /\ PersistAddress(Addr(f))
      BY <1>1, <2>1, FlushWordEffect DEF OpInv, FlushWord
    <2> QED
      BY <2>2, FrameKinds, FlushChanges DEF OpInv
  <1>2. \/ UNCHANGED memVars \/ CondCAS(t) \/ InstallOverCond(t) \/ Swap(t)
        \/ CleanWord(t) \/ FlushWord(t)
    BY DEF Step, Continue, BeginMwCAS, BeginRead, FlushDescriptor, ReadStatus, FlushStatus,
           CleanStatus, CondStatus, CondRecheck, ReadCondStatus, Precommit, Decide,
           ReturnOwner, ReturnHelper, Load, ReturnWithFailure
  <1> QED
    BY <1>1, <1>2, NothingChanges, CondCASChanges, InstallChanges, SwapChanges,
       CleanWordChanges

(* What a word holds tells the forms apart. *)
LEMMA HoldsForms ==
  ASSUME TypeInv, StatusInv, NEW a \in Addresses, NEW x, Holds(x, a)
  PROVE  /\ x.tag = "val" => HoldsValue(x, a) /\ x.v = Value(a)
         /\ \A d : x \in Ptrs(d) =>
              \/ d = LastWriter(a) /\ d # 0 /\ status[d].s = "Succeeded"
              \/ /\ d \in Descs /\ d \notin Range(hist) /\ status[d].s # "Succeeded"
                 /\ \E i \in DOMAIN words[d] :
                      words[d][i].address = a /\ words[d][i].old = Value(a)
         /\ \A d, i : x = CondPtr(d, i) =>
              /\ d \in Descs \ Range(hist) /\ i \in DOMAIN words[d]
              /\ words[d][i].address = a /\ words[d][i].old = Value(a)
  <1>1. CASE HoldsValue(x, a)
    <2>1. x.tag = "val" /\ x.v = Value(a)
      BY <1>1, Forms DEF HoldsValue
    <2>2. \A d : x \notin Ptrs(d)
      BY <2>1, PtrForms
    <2>3. \A d, i : x # CondPtr(d, i)
      BY <2>1, Forms
    <2> QED
      BY <1>1, <2>1, <2>2, <2>3
  <1>2. CASE HoldsWriter(x, a)
    <2>1. PICK m : m = LastWriter(a)
      OBVIOUS
    <2>2. m # 0 /\ x \in Ptrs(m)
      BY <1>2, <2>1 DEF HoldsWriter
    <2>3. x.tag = "mwcas" /\ x.d = m
      BY <2>2, PtrForms
    <2>4. status[m].s = "Succeeded"
      BY <2>1, <2>2, WriterValue DEF StatusInv
    <2>5. \A d : x \in Ptrs(d) => d = m
      BY <2>3, PtrForms
    <2>6. \A d, i : x # CondPtr(d, i)
      BY <2>3, Forms
    <2> QED
      BY <2>1, <2>2, <2>3, <2>4, <2>5, <2>6
  <1>3. CASE HoldsOther(x, a)
    <2>1. PICK e \in Descs \ Range(hist) : \E i \in DOMAIN words[e] :
            /\ words[e][i].address = a /\ words[e][i].old = Value(a)
            /\ x \in Ptrs(e) \union {CondPtr(e, i)}
      BY <1>3 DEF HoldsOther
    <2>2. PICK j \in DOMAIN words[e] :
            /\ words[e][j].address = a /\ words[e][j].old = Value(a)
            /\ x \in Ptrs(e) \union {CondPtr(e, j)}
      BY <2>1
    <2>3. status[e].s # "Succeeded"
      BY DEF StatusInv
    <2>4. x.tag # "val" /\ x.d = e /\ (x.tag = "cond" => x.i = j)
      BY <2>2, PtrForms, Forms
    <2>5. \A d : x \in Ptrs(d) => d = e
      BY <2>4, PtrForms
    <2>6. \A d, i : x = CondPtr(d, i) => d = e /\ i = j
      BY <2>4, Forms
    <2> QED
      BY <2>2, <2>3, <2>4, <2>5, <2>6
  <1> QED
    BY <1>1, <1>2, <1>3 DEF Holds

(* A store keeps to what NVRAM may hold. *)
LEMMA Followed ==
  ASSUME TypeInv, StatusInv, NvMemInv, Superseded, NEW a \in Addresses, NEW x,
         Follows(a, mem[a], x)
  PROVE  Holds(x, a) /\ (x.tag \in {"mwcas", "cond"} => Published(x.d))
  <1>1. PICK y : y = mem[a]
    OBVIOUS
  <1>2. Holds(y, a) /\ (y.tag \in {"mwcas", "cond"} => Published(y.d)) /\ y \in Words
    BY <1>1 DEF NvMemInv, Holds, TypeInv, MemType
  <1>3. ASSUME NEW d \in Descs, NEW i \in DOMAIN words[d], words[d][i].address = a,
               y = Old(d, i), x = CondPtr(d, i), Published(d)
        PROVE  Holds(x, a) /\ (x.tag \in {"mwcas", "cond"} => Published(x.d))
    <2>1. y.tag = "val" /\ y.v = words[d][i].old
      BY <1>3, Forms DEF Old
    <2>2. words[d][i].old = Value(a)
      BY <1>2, <2>1, HoldsForms
    <2>3. d \notin Range(hist)
      BY <1>3, <2>2 DEF Superseded
    <2>4. HoldsOther(x, a)
      BY <1>3, <2>2, <2>3 DEF HoldsOther
    <2> QED
      BY <1>3, <2>4, Forms DEF Holds
  <1>4. ASSUME NEW d \in Descs, NEW i \in DOMAIN words[d], words[d][i].address = a,
               y = CondPtr(d, i), x \in Ptrs(d) \union {Old(d, i)}
        PROVE  Holds(x, a) /\ (x.tag \in {"mwcas", "cond"} => Published(x.d))
    <2>1. d \notin Range(hist) /\ words[d][i].old = Value(a)
      BY <1>2, <1>4, HoldsForms
    <2>2. Published(d)
      BY <1>2, <1>4, Forms
    <2>3. CASE x \in Ptrs(d)
      <3>1. HoldsOther(x, a)
        BY <1>4, <2>1, <2>3 DEF HoldsOther
      <3> QED
        BY <2>2, <2>3, <3>1, PtrForms DEF Holds
    <2>4. CASE x = Old(d, i)
      <3>1. HoldsValue(x, a) /\ x.tag = "val"
        BY <2>1, <2>4, Forms DEF HoldsValue, Old
      <3> QED
        BY <3>1 DEF Holds
    <2> QED
      BY <1>4, <2>3, <2>4
  <1>5. ASSUME NEW d \in Descs, NEW i \in DOMAIN words[d], words[d][i].address = a,
               y \in Ptrs(d), x = Dirty(Final(d, i))
        PROVE  Holds(x, a) /\ (x.tag \in {"mwcas", "cond"} => Published(x.d))
    <2>1. \/ d = LastWriter(a) /\ d # 0 /\ status[d].s = "Succeeded"
          \/ /\ status[d].s # "Succeeded"
             /\ \E j \in DOMAIN words[d] :
                  words[d][j].address = a /\ words[d][j].old = Value(a)
      BY <1>2, <1>5, HoldsForms
    <2>2. Final(d, i) = Val(Value(a))
      <3>1. CASE d = LastWriter(a) /\ d # 0 /\ status[d].s = "Succeeded"
        <4>1. words[d][i].new = Value(a)
          BY <1>5, <3>1, WriterValue
        <4> QED
          BY <3>1, <4>1 DEF Final, New
      <3>2. ASSUME NEW j \in DOMAIN words[d], status[d].s # "Succeeded",
                   words[d][j].address = a, words[d][j].old = Value(a)
            PROVE  Final(d, i) = Val(Value(a))
        <4>1. i = j
          BY <1>5, <3>2, WordsFacts
        <4> QED
          BY <3>2, <4>1 DEF Final, Old
      <3> QED
        BY <2>1, <3>1, <3>2
    <2>3. HoldsValue(x, a) /\ x.tag = "val"
      BY <1>5, <2>2, Forms DEF HoldsValue
    <2> QED
      BY <2>3 DEF Holds
  <1>6. ASSUME IsDirty(y), x = Clean(y)
        PROVE  Holds(x, a) /\ (x.tag \in {"mwcas", "cond"} => Published(x.d))
    <2>1. CASE y.tag = "val"
      <3>1. y.v = Value(a) /\ x = Val(y.v) /\ x.tag = "val"
        BY <1>2, <1>6, <2>1, DirtyForm, HoldsForms
      <3> QED
        BY <3>1 DEF Holds, HoldsValue
    <2>2. CASE y.tag = "mwcas"
      <3>1. PICK d : d = y.d
        OBVIOUS
      <3>2. d \in Descs /\ y \in Ptrs(d) /\ x \in Ptrs(d) /\ Published(d)
        BY <1>2, <1>6, <2>2, <3>1, DirtyForm DEF Ptrs
      <3>3. x.tag = "mwcas" /\ x.d = d
        BY <3>2, PtrForms
      <3>4. HoldsWriter(y, a) \/ HoldsOther(y, a)
        BY <1>2, <2>2, Forms DEF Holds, HoldsValue
      <3>5. CASE HoldsWriter(y, a)
        <4>1. HoldsWriter(x, a)
          BY <3>2, <3>5, PtrForms DEF HoldsWriter
        <4> QED
          BY <3>2, <3>3, <4>1 DEF Holds
      <3>6. CASE HoldsOther(y, a)
        <4>1. PICK e \in Descs \ Range(hist) : \E i \in DOMAIN words[e] :
                /\ words[e][i].address = a /\ words[e][i].old = Value(a)
                /\ y \in Ptrs(e) \union {CondPtr(e, i)}
          BY <3>6 DEF HoldsOther
        <4>2. e = d
          BY <3>2, <4>1, PtrForms, Forms
        <4>3. HoldsOther(x, a)
          BY <3>2, <4>1, <4>2 DEF HoldsOther
        <4> QED
          BY <3>2, <3>3, <4>3 DEF Holds
      <3> QED
        BY <3>4, <3>5, <3>6
    <2> QED
      BY <1>2, <1>6, <2>1, <2>2, DirtyForm
  <1> QED
    BY <1>1, <1>3, <1>4, <1>5, <1>6 DEF Follows

LEMMA HoldsSame ==
  ASSUME hist' = hist, NEW x, NEW a, Holds(x, a)
  PROVE  Holds(x, a)'
  <1>1. Value(a)' = Value(a) /\ LastWriter(a)' = LastWriter(a)
    BY DEF Value, LastWriter
  <1>2. HoldsValue(x, a)' = HoldsValue(x, a)
    BY <1>1 DEF HoldsValue
  <1>3. HoldsWriter(x, a)' = HoldsWriter(x, a)
    BY <1>1 DEF HoldsWriter
  <1>4. HoldsOther(x, a)' = HoldsOther(x, a)
    BY <1>1 DEF HoldsOther
  <1> QED
    BY <1>2, <1>3, <1>4 DEF Holds

LEMMA NvMemSame ==
  ASSUME TypeInv, TypeInv', StatusInv, NvMemInv, Superseded, NvChange, NvEvolves,
         hist' = hist
  PROVE  NvMemInv'
  <1> SUFFICES ASSUME NEW a \in Addresses
               PROVE  /\ mem'[a] \in nvram'[a]
                      /\ \A x \in nvram'[a] :
                           /\ Holds(x, a)'
                           /\ x.tag \in {"mwcas", "cond"} => Published(x.d)'
    BY DEF NvMemInv, Holds
  <1>1. mem[a] \in nvram[a]
    BY DEF NvMemInv
  <1>2. mem'[a] \in nvram'[a]
    BY <1>1 DEF NvChange
  <1>3. ASSUME NEW x \in nvram'[a]
        PROVE  Holds(x, a) /\ (x.tag \in {"mwcas", "cond"} => Published(x.d))
    <2>1. CASE x \in nvram[a]
      BY <2>1 DEF NvMemInv, Holds
    <2>2. CASE Follows(a, mem[a], x)
      BY <2>2, Followed
    <2> QED
      BY <1>1, <1>3, <2>1, <2>2 DEF NvChange
  <1>4. ASSUME NEW x \in nvram'[a]
        PROVE  x.tag \in {"mwcas", "cond"} => x.d \in Descs
    <2>1. x \in Words
      BY <1>4 DEF TypeInv, MemType
    <2> QED
      BY <2>1, WordsHaveForm DEF WordForm
  <1>5. ASSUME NEW x \in nvram'[a]
        PROVE  /\ Holds(x, a)'
               /\ x.tag \in {"mwcas", "cond"} => Published(x.d)'
    <2>1. Holds(x, a)'
      BY <1>3, <1>5, HoldsSame
    <2>2. x.tag \in {"mwcas", "cond"} => Published(x.d)'
      BY <1>3, <1>4, <1>5 DEF NvEvolves
    <2> QED
      BY <2>1, <2>2
  <1> QED
    BY <1>2, <1>5

(* The words of an unsettled success keep its pointers. *)
LEMMA UnsettledWords ==
  ASSUME TypeInv, StatusInv, NvMemInv, NvChange, NEW d \in Range(hist), d \in Descs,
         ~Settled(d), NEW a \in Addresses, nvram[a] \subseteq Ptrs(d)
  PROVE  nvram'[a] \subseteq Ptrs(d)
  <1>1. mem[a] \in nvram[a] /\ mem[a] \in Ptrs(d)
    BY DEF NvMemInv
  <1>2. mem[a].tag = "mwcas" /\ mem[a].d = d
    BY <1>1, PtrForms
  <1>3. ASSUME NEW x, Follows(a, mem[a], x)
        PROVE  x \in Ptrs(d)
    <2>1. ~Known(d)
      <3>1. status[d].s = "Succeeded"
        BY DEF StatusInv
      <3> QED
        BY <3>1 DEF Known, Settled
    <2>2. \A e, i : mem[a] # Old(e, i) /\ mem[a] # CondPtr(e, i)
      BY <1>2, Forms DEF Old
    <2>3. \A e : mem[a] \in Ptrs(e) => ~Known(e)
      BY <1>2, <2>1, PtrForms
    <2>4. IsDirty(mem[a]) /\ x = Clean(mem[a])
      BY <1>3, <2>2, <2>3 DEF Follows
    <2> QED
      BY <1>1, <2>4, Forms DEF Ptrs
  <1>4. CASE Follows(a, mem[a], mem'[a]) /\ nvram'[a] = nvram[a] \union {mem'[a]}
    BY <1>3, <1>4
  <1> QED
    BY <1>1, <1>4 DEF NvChange

LEMMA UnsettledSame ==
  ASSUME TypeInv, StatusInv, NvMemInv, UnsettledInv, NvChange, NvEvolves, hist' = hist
  PROVE  UnsettledInv'
  <1> SUFFICES ASSUME NEW k \in DOMAIN hist, ~Settled(hist[k])',
                      NEW i \in DOMAIN words[hist[k]]
               PROVE  /\ nvram'[words[hist[k]][i].address] \subseteq Ptrs(hist[k])
                      /\ \A j \in DOMAIN hist : j > k =>
                           ~Targets(hist[j], words[hist[k]][i].address)
    BY DEF UnsettledInv
  <1>1. PICK d, a : d = hist[k] /\ a = words[d][i].address
    OBVIOUS
  <1>2. d \in Descs /\ d \in Range(hist) /\ a \in Addresses
    BY <1>1, WordsFacts DEF TypeInv, Range
  <1>3. ~Settled(d)
    BY <1>1, <1>2 DEF NvEvolves
  <1>4. nvram[a] \subseteq Ptrs(d) /\ \A j \in DOMAIN hist : j > k => ~Targets(hist[j], a)
    BY <1>1, <1>3 DEF UnsettledInv
  <1>5. nvram'[a] \subseteq Ptrs(d)
    BY <1>2, <1>3, <1>4, UnsettledWords
  <1> QED
    BY <1>1, <1>4, <1>5

LEMMA LastAppend ==
  ASSUME NEW seq \in Seq(Descs), NEW d \in Descs, NEW a, Lasts(seq)
  PROVE  /\ Targets(d, a) => LastOf(Append(seq, d), Descs, a) = d
         /\ ~Targets(d, a) => LastOf(Append(seq, d), Descs, a) = LastOf(seq, Descs, a)
  <1>1. PICK s, n : s = Append(seq, d) /\ n = Len(seq)
    OBVIOUS
  <1>2. /\ s \in Seq(Descs) /\ n \in Nat /\ DOMAIN s = 1 .. n + 1 /\ DOMAIN seq = 1 .. n
        /\ s[n + 1] = d /\ \A k \in DOMAIN seq : s[k] = seq[k]
    BY <1>1, Appended
  <1>3. Lasts(s)
    BY <1>1, LastsAppend
  <1>4. \/ /\ LastOf(s, Descs, a) = 0
           /\ \A k \in DOMAIN s : s[k] \in Descs => ~Targets(s[k], a)
        \/ \E k \in DOMAIN s :
             /\ LastOf(s, Descs, a) = s[k] /\ s[k] \in Descs /\ Targets(s[k], a)
             /\ \A m \in DOMAIN s : s[m] \in Descs /\ Targets(s[m], a) => m <= k
    BY <1>2, <1>3, LastOfFacts
  <1>5. n + 1 \in DOMAIN s /\ \A k \in DOMAIN s : s[k] \in Descs
    BY <1>2
  <1>6. CASE Targets(d, a)
    <2>1. PICK k \in DOMAIN s :
            /\ LastOf(s, Descs, a) = s[k]
            /\ \A m \in DOMAIN s : s[m] \in Descs /\ Targets(s[m], a) => m <= k
      BY <1>2, <1>4, <1>5, <1>6
    <2>2. n + 1 <= k
      BY <1>2, <1>5, <1>6, <2>1
    <2>3. k = n + 1
      BY <1>2, <2>1, <2>2
    <2> QED
      BY <1>1, <1>2, <1>6, <2>1, <2>3
  <1>7. CASE ~Targets(d, a)
    <2>1. \A k \in DOMAIN s : Targets(s[k], a) => k \in DOMAIN seq /\ s[k] = seq[k]
      BY <1>2, <1>7
    <2>2. \A k \in DOMAIN seq : k \in DOMAIN s /\ s[k] = seq[k] /\ seq[k] \in Descs
      BY <1>2
    <2>3. CASE \A k \in DOMAIN seq : ~Targets(seq[k], a)
      <3>1. LastOf(s, Descs, a) = 0
        BY <1>4, <2>1, <2>3
      <3>2. LastOf(seq, Descs, a) = 0
        BY <2>3, LastOfFacts
      <3> QED
        BY <1>1, <1>7, <3>1, <3>2
    <2>4. CASE ~ \A k \in DOMAIN seq : ~Targets(seq[k], a)
      <3>1. PICK k \in DOMAIN s :
              /\ LastOf(s, Descs, a) = s[k] /\ Targets(s[k], a)
              /\ \A m \in DOMAIN s : s[m] \in Descs /\ Targets(s[m], a) => m <= k
        BY <1>4, <2>2, <2>4
      <3>2. PICK j \in DOMAIN seq :
              /\ LastOf(seq, Descs, a) = seq[j] /\ Targets(seq[j], a)
              /\ \A m \in DOMAIN seq : seq[m] \in Descs /\ Targets(seq[m], a) => m <= j
        BY <2>2, <2>4, LastOfFacts
      <3>3. k \in DOMAIN seq /\ s[k] = seq[k] /\ k <= j
        BY <2>1, <2>2, <3>1, <3>2
      <3>4. j <= k
        BY <2>2, <3>1, <3>2
      <3>5. j = k
        BY <1>2, <3>3, <3>4
      <3> QED
        BY <1>1, <1>7, <3>1, <3>2, <3>3, <3>5
    <2> QED
      BY <2>3, <2>4
  <1> QED
    BY <1>6, <1>7

(* A success is decided: its pointers are what its words hold in NVRAM. *)
DecidesHist(d) ==
  /\ Undecided(d) /\ hist' = Append(hist, d) /\ UNCHANGED memVars
  /\ \A j \in DOMAIN words[d] : nvram[words[d][j].address] \subseteq Ptrs(d)

LEMMA HoldsDecided ==
  ASSUME TypeInv, NvMemInv, NEW d \in Descs, DecidesHist(d), NEW a \in Addresses,
         NEW x \in nvram[a]
  PROVE  Holds(x, a)'
  <1>1. hist \in Seq(Descs) /\ Lasts(hist) /\ hist' = Append(hist, d)
    BY DEF TypeInv, DecidesHist
  <1>2. CASE Targets(d, a)
    <2>1. LastWriter(a)' = d
      BY <1>1, <1>2, LastAppend DEF LastWriter
    <2>2. x \in Ptrs(d)
      BY <1>2 DEF Targets, DecidesHist
    <2>3. d # 0
      BY ConstantsAssumption DEF Descs
    <2> QED
      BY <2>1, <2>2, <2>3 DEF Holds, HoldsWriter
  <1>3. CASE ~Targets(d, a)
    <2>1. LastWriter(a)' = LastWriter(a)
      BY <1>1, <1>3, LastAppend DEF LastWriter
    <2>2. Value(a)' = Value(a)
      <3>1. Replay(Append(hist, d), Descs)[a] = Replay(hist, Descs)[a]
        BY <1>1, <1>3, ReplayAppend
      <3> QED
        BY <1>1, <3>1 DEF Value
    <2>3. CASE HoldsValue(x, a)
      BY <2>2, <2>3 DEF Holds, HoldsValue
    <2>4. CASE HoldsWriter(x, a)
      BY <2>1, <2>4 DEF Holds, HoldsWriter
    <2>5. CASE HoldsOther(x, a)
      <3>1. PICK e \in Descs \ Range(hist) : \E i \in DOMAIN words[e] :
              /\ words[e][i].address = a /\ words[e][i].old = Value(a)
              /\ x \in Ptrs(e) \union {CondPtr(e, i)}
        BY <2>5 DEF HoldsOther
      <3>2. e # d
        BY <1>3, <3>1 DEF Targets
      <3>3. e \notin Range(hist)'
        <4>1. ASSUME NEW k \in DOMAIN hist', hist'[k] = e
              PROVE  FALSE
          <5>1. /\ Len(hist) \in Nat /\ DOMAIN hist' = 1 .. Len(hist) + 1
                /\ DOMAIN hist = 1 .. Len(hist)
                /\ hist'[Len(hist) + 1] = d /\ \A j \in DOMAIN hist : hist'[j] = hist[j]
            BY <1>1, Appended
          <5>2. k \in DOMAIN hist
            BY <3>2, <4>1, <5>1
          <5> QED
            BY <3>1, <4>1, <5>1, <5>2 DEF Range
        <4> QED
          BY <4>1 DEF Range
      <3>4. HoldsOther(x, a)'
        BY <2>2, <3>1, <3>3 DEF HoldsOther
      <3> QED
        BY <3>4 DEF Holds
    <2> QED
      BY <2>3, <2>4, <2>5 DEF NvMemInv
  <1> QED
    BY <1>2, <1>3

LEMMA NvMemDecided ==
  ASSUME TypeInv, NvMemInv, NvEvolves, NEW d \in Descs, DecidesHist(d)
  PROVE  NvMemInv'
  <1>1. mem' = mem /\ nvram' = nvram
    BY DEF DecidesHist, memVars
  <1>2. ASSUME NEW a \in Addresses, NEW x \in nvram[a]
        PROVE  Holds(x, a)' /\ (x.tag \in {"mwcas", "cond"} => Published(x.d)')
    <2>1. Holds(x, a)'
      BY HoldsDecided
    <2>2. x.tag \in {"mwcas", "cond"} => x.d \in Descs
      <3>1. x \in Words
        BY DEF TypeInv, MemType
      <3> QED
        BY <3>1, WordsHaveForm DEF WordForm
    <2> QED
      BY <2>1, <2>2 DEF NvMemInv, NvEvolves
  <1> QED
    BY <1>1, <1>2 DEF NvMemInv, Holds

LEMMA UnsettledDecided ==
  ASSUME TypeInv, StatusInv, NvMemInv, UnsettledInv, NvEvolves, NEW d \in Descs,
         DecidesHist(d)
  PROVE  UnsettledInv'
  <1>1. PICK s, n : s = hist' /\ n = Len(hist)
    OBVIOUS
  <1>2. /\ n \in Nat /\ DOMAIN s = 1 .. n + 1 /\ DOMAIN hist = 1 .. n
        /\ s[n + 1] = d /\ \A k \in DOMAIN hist : s[k] = hist[k]
    BY <1>1, Appended DEF TypeInv, DecidesHist
  <1>3. nvram' = nvram
    BY DEF DecidesHist, memVars
  <1>4. ASSUME NEW k \in DOMAIN hist, nvstatus'[hist[k]] # {"Succeeded"},
               NEW i \in DOMAIN words[hist[k]]
        PROVE  /\ nvram[words[hist[k]][i].address] \subseteq Ptrs(hist[k])
               /\ \A j \in DOMAIN s : j > k => ~Targets(s[j], words[hist[k]][i].address)
    <2>1. PICK e, a : e = hist[k] /\ a = words[e][i].address
      OBVIOUS
    <2>2. e \in Descs /\ e \in Range(hist) /\ a \in Addresses
      BY <2>1, WordsFacts DEF TypeInv, Range
    <2>3. ~Settled(e)
      BY <1>4, <2>1, <2>2 DEF NvEvolves, Settled
    <2>4. nvram[a] \subseteq Ptrs(e) /\ \A j \in DOMAIN hist : j > k => ~Targets(hist[j], a)
      BY <1>4, <2>1, <2>3 DEF UnsettledInv
    <2>5. ~Targets(d, a)
      <3>1. SUFFICES ASSUME Targets(d, a)
                     PROVE  FALSE
        OBVIOUS
      <3>2. mem[a] \in Ptrs(d) /\ mem[a] \in Ptrs(e)
        BY <2>2, <2>4, <3>1 DEF Targets, DecidesHist, NvMemInv
      <3>3. d = e
        BY <3>2, PtrForms
      <3>4. status[e].s = "Succeeded"
        BY <2>2 DEF StatusInv
      <3> QED
        BY <3>3, <3>4, StatusForms DEF DecidesHist, Undecided
    <2> QED
      BY <1>2, <2>1, <2>4, <2>5
  <1>5. ASSUME NEW i \in DOMAIN words[d]
        PROVE  /\ nvram[words[d][i].address] \subseteq Ptrs(d)
               /\ \A j \in DOMAIN s : ~ (j > n + 1)
    BY <1>2 DEF DecidesHist
  <1>6. ASSUME NEW k \in DOMAIN s, nvstatus'[s[k]] # {"Succeeded"}, NEW i \in DOMAIN words[s[k]]
        PROVE  /\ nvram[words[s[k]][i].address] \subseteq Ptrs(s[k])
               /\ \A j \in DOMAIN s : j > k => ~Targets(s[j], words[s[k]][i].address)
    <2>1. CASE k = n + 1
      BY <1>2, <1>5, <1>6, <2>1
    <2>2. CASE k \in DOMAIN hist
      <3>1. s[k] = hist[k]
        BY <1>2, <2>2
      <3> QED
        BY <1>4, <1>6, <2>2, <3>1
    <2> QED
      BY <1>2, <2>1, <2>2
  <1> QED
    BY <1>1, <1>3, <1>6 DEF UnsettledInv, Settled

-----------------------------------------------------------------------------

(* Calls, and what they tell *)

LEMMA NvFrameKept ==
  ASSUME NEW f, FrameOK(f), f.saw \in {0} \union Descs, NvFrameInv(f), NvEvolves
  PROVE  NvFrameInv(f)'
  <1>1. f.d # 0 => f.d \in Descs
    BY FrameKinds
  <1>2. f.pc \in DirtyPCs /\ f.ret.tag = "mwcas" => f.ret.d \in Descs
    BY FrameKinds, MwCASForm
  <1>3. Completing(f)' = Completing(f)
    BY DEF Completing
  <1> QED
    BY <1>1, <1>2, <1>3 DEF NvFrameInv, NvEvolves

NvContinues == \E S : Changed(S) /\ \A g \in S : NvFrameInv(g)'

LEMMA NvOne ==
  ASSUME NEW g, Changed({g}), NvFrameInv(g)'
  PROVE  NvContinues
  BY DEF NvContinues

LEMMA NvTwo ==
  ASSUME NEW g, NEW h, Changed({g, h}), NvFrameInv(g)', NvFrameInv(h)'
  PROVE  NvContinues
  BY DEF NvContinues

LEMMA NvNone ==
  ASSUME Changed({})
  PROVE  NvContinues
  BY DEF NvContinues

LEMMA NvFramesKept ==
  ASSUME TypeInv, NvFramesInv, NvEvolves, NvContinues
  PROVE  NvFramesInv'
  <1>1. PICK S : Changed(S) /\ \A g \in S : NvFrameInv(g)'
    BY DEF NvContinues
  <1>2. SUFFICES ASSUME NEW t \in Threads, NEW g \in Range(stack'[t])
                 PROVE  NvFrameInv(g)'
    BY DEF NvFramesInv, Range
  <1>3. PICK k \in DOMAIN stack'[t] : g = stack'[t][k]
    BY DEF Range
  <1>4. CASE k \in DOMAIN stack[t] /\ g = stack[t][k]
    <2>1. FrameOK(g)
      BY <1>4 DEF TypeInv, StackOK
    <2>2. NvFrameInv(g)
      BY <1>4 DEF NvFramesInv, Range
    <2>3. g.saw \in {0} \union Descs
      <3>1. g.saw \in {0} \union Range(hist)
        BY <1>4 DEF TypeInv, SawOK
      <3> QED
        BY <3>1 DEF TypeInv, Range
    <2> QED
      BY <2>1, <2>2, <2>3, NvFrameKept
  <1> QED
    BY <1>1, <1>3, <1>4 DEF Changed

FreshPCs == {"load", "flush", "status", "condcas", "precommit", "decide",
             "persist_status", "swap", "return"}

LEMMA NvFresh ==
  ASSUME NEW g, NEW d, NEW i, NEW p \in FreshPCs, Fresh(g, d, i, p),
         d # 0 => /\ p # "flush" => Published(d)'
                  /\ p \in {"swap", "return"} => Known(d)'
  PROVE  NvFrameInv(g)'
  <1>1. g.d = d /\ g.pc = p
    BY DEF Fresh
  <1>2. p \notin DirtyPCs
    BY DEF DirtyPCs, FreshPCs
  <1>3. Completing(g)' => p \in {"swap", "return"}
    BY <1>1, <1>2 DEF Completing, FreshPCs
  <1> QED
    BY <1>1, <1>2, <1>3 DEF NvFrameInv

LEMMA NvMoved ==
  ASSUME NEW f, NEW g, NEW p, Moved(g, f, p), f.d # 0, Published(f.d)',
         p \notin DirtyPCs,
         p \in {"clean_status", "swap", "swap_clean", "return"} => Known(f.d)'
  PROVE  NvFrameInv(g)'
  <1>1. g.d = f.d /\ g.pc = p
    BY DEF Moved
  <1> QED
    BY <1>1 DEF NvFrameInv, Completing

LEMMA NvCond ==
  ASSUME NEW g, g.pc \in CondPCs, g.d # 0 => Published(g.d)'
  PROVE  NvFrameInv(g)'
  BY DEF NvFrameInv, Completing, CondPCs, DirtyPCs

LEMMA NvPersist ==
  ASSUME NEW g, g.pc = "persist", g.d # 0 => Published(g.d)',
         g.ret.tag = "mwcas" => Published(g.ret.d)',
         g.ret.tag = "val" => IF g.d # 0 THEN Known(g.d)' ELSE g.saw = 0 \/ Settled(g.saw)'
  PROVE  NvFrameInv(g)'
  BY DEF NvFrameInv, Completing

LEMMA NvNext ==
  ASSUME NEW f, f.d # 0, Published(f.d)', NEW p \in FreshPCs, NEW e \in FreshPCs,
         NextOf(f, p, e), p = "swap" \/ e = "swap" \/ p = "return" \/ e = "return" => Known(f.d)'
  PROVE  NvContinues
  <1>1. PICK g : Changed({g}) /\ \/ Fresh(g, f.d, f.i + 1, p)
                                 \/ Fresh(g, f.d, 1, e)
    BY DEF NextOf
  <1>2. CASE Fresh(g, f.d, f.i + 1, p)
    BY <1>1, <1>2, NvFresh, NvOne
  <1>3. CASE Fresh(g, f.d, 1, e)
    BY <1>1, <1>3, NvFresh, NvOne
  <1> QED
    BY <1>1, <1>2, <1>3

LEMMA NvRetry ==
  ASSUME NEW f, NEW g, Fresh(g, f.d, f.i, IF f.d = 0 THEN "load" ELSE "condcas"),
         f.d # 0 => Published(f.d)'
  PROVE  NvFrameInv(g)'
  <1>1. CASE f.d = 0
    <2>1. Fresh(g, f.d, f.i, "load")
      BY <1>1
    <2> QED
      BY <1>1, <2>1, NvFresh DEF FreshPCs
  <1>2. CASE f.d # 0
    <2>1. Fresh(g, f.d, f.i, "condcas")
      BY <1>2
    <2> QED
      BY <1>2, <2>1, NvFresh DEF FreshPCs
  <1> QED
    BY <1>1, <1>2

LEMMA NvAfterCondCAS ==
  ASSUME build = "pmem", NEW f, f.d # 0, Published(f.d)', NEW rval,
         rval.tag = "mwcas" => Published(rval.d)',
         \/ NextInstall(f, rval) \/ PersistOther(f, rval) \/ HelpOther(f, rval)
         \/ GiveUp(f, rval)
  PROVE  NvContinues
  <1>1. CASE NextInstall(f, rval)
    <2>1. NextOf(f, "condcas", "precommit")
      BY <1>1 DEF NextInstall, AfterInstall
    <2> QED
      BY <2>1, NvNext DEF FreshPCs
  <1>2. CASE PersistOther(f, rval)
    <2>1. PICK g : /\ Changed({g}) /\ g.d = f.d /\ g.pc = "persist" /\ g.ret = rval
                   /\ rval.tag = "mwcas"
      BY <1>2 DEF PersistOther
    <2>2. NvFrameInv(g)'
      BY <2>1, NvPersist
    <2> QED
      BY <2>1, <2>2, NvOne
  <1>3. CASE HelpOther(f, rval)
    <2>1. PICK g, h : /\ Changed({g, h}) /\ Fresh(h, rval.d, 1, "status")
                      /\ Fresh(g, f.d, f.i, IF f.d = 0 THEN "load" ELSE "condcas")
      BY <1>3 DEF HelpOther
    <2>2. rval.tag = "mwcas"
      BY <1>3, Forms DEF HelpOther
    <2>3. NvFrameInv(h)'
      BY <2>1, <2>2, NvFresh DEF FreshPCs
    <2>4. NvFrameInv(g)'
      BY <2>1, NvRetry
    <2> QED
      BY <2>1, <2>3, <2>4, NvTwo
  <1>4. CASE GiveUp(f, rval)
    <2>1. PICK g : Changed({g}) /\ Fresh(g, f.d, 1, "decide")
      BY <1>4 DEF GiveUp
    <2>2. NvFrameInv(g)'
      BY <2>1, NvFresh DEF FreshPCs
    <2> QED
      BY <2>1, <2>2, NvOne
  <1> QED
    BY <1>1, <1>2, <1>3, <1>4

(* A pointer in memory is to an operation that recovery finds. *)
LEMMA NvPointer ==
  ASSUME TypeInv, NvMemInv, NvEvolves, NEW a \in Addresses, NEW x, x = mem[a],
         x.tag \in {"mwcas", "cond"}
  PROVE  Published(x.d)'
  <1>1. x.d \in Descs
    <2>1. x \in Words
      BY DEF TypeInv, MemType
    <2> QED
      BY <2>1, WordsHaveForm DEF WordForm
  <1> QED
    BY <1>1 DEF NvMemInv, NvEvolves

(* Who sees a value sees one that a crash does not take back. *)
LEMMA NvValue ==
  ASSUME TypeInv, NvMemInv, UnsettledInv, NEW a \in Addresses, mem[a].tag = "val",
         NEW m, m = LastWriter(a)
  PROVE  m = 0 \/ (m \in Descs /\ Settled(m))
  <1>1. SUFFICES ASSUME m # 0
                 PROVE  m \in Descs /\ Settled(m)
    OBVIOUS
  <1>2. hist \in Seq(Descs) /\ Lasts(hist) /\ m = LastOf(hist, Descs, a)
    BY DEF TypeInv, LastWriter
  <1>3. PICK k \in DOMAIN hist : m = hist[k] /\ hist[k] \in Descs /\ Targets(hist[k], a)
    BY <1>1, <1>2, LastOfFacts
  <1>4. PICK i \in DOMAIN words[m] : words[m][i].address = a
    BY <1>3 DEF Targets
  <1>5. CASE ~Settled(m)
    <2>1. nvram[a] \subseteq Ptrs(m) /\ mem[a] \in nvram[a]
      BY <1>3, <1>4, <1>5 DEF UnsettledInv, NvMemInv
    <2> QED
      BY <2>1, PtrForms
  <1> QED
    BY <1>3, <1>5

LEMMA NvCallPublished ==
  ASSUME OpInv, NvFramesInv, NvEvolves, NEW t \in Threads, stack[t] # <<>>,
         NEW f, f = Top(t), f.d # 0, f.pc # "flush"
  PROVE  f.d \in Descs /\ Published(f.d)' /\ (Completing(f) => Known(f.d)')
  <1>1. NvFrameInv(f)
    BY NvFrameOf
  <1>2. f.d \in Descs
    BY Here, FrameKinds
  <1> QED
    BY <1>1, <1>2 DEF NvFrameInv, NvEvolves

LEMMA NvStatusFrames ==
  ASSUME OpInv, NvFramesInv, NvEvolves, build = "pmem", NEW t \in Threads,
         FlushDescriptor(t) \/ ReadStatus(t) \/ FlushStatus(t) \/ CleanStatus(t)
  PROVE  NvContinues
  <1>1. PICK f : f = Top(t)
    OBVIOUS
  <1>2. stack[t] # <<>> /\ TypeInv /\ StatusInv
    BY DEF FlushDescriptor, ReadStatus, FlushStatus, CleanStatus, At, OpInv
  <1>3. FrameOK(f) /\ FrameInv(f)
    BY <1>1, <1>2, Here
  <1>4. CASE FlushDescriptor(t)
    <2>1. PICK g : f.d \in Descs /\ Changed({g}) /\ Moved(g, f, "status")
      BY <1>1, <1>2, <1>4, FlushDescriptorEffect
    <2>2. f.d # 0
      BY <2>1, ConstantsAssumption DEF Descs
    <2>3. nvstatus'[f.d] = {status[f.d].s}
      BY <1>1, <1>2, <1>4, <2>1 DEF FlushDescriptor, PersistStatus, TypeInv, StatusType
    <2>4. Undecided(f.d) \/ Decided(f.d)
      BY <1>2, <1>3, <2>1, <2>2, StatusCases DEF FrameInv, CallInv
    <2>5. status[f.d].s \in {"Undecided", "Succeeded", "Failed"}
      BY <2>4, StatusForms DEF Undecided, Decided
    <2>6. Published(f.d)'
      <3>1. PICK e : e = f.d
        OBVIOUS
      <3>2. nvstatus'[e] \subseteq {"Undecided", "Succeeded", "Failed"}
        BY <2>3, <2>5, <3>1
      <3> QED
        BY <3>1, <3>2 DEF Published
    <2>7. NvFrameInv(g)'
      BY <2>1, <2>2, <2>6, NvMoved DEF DirtyPCs
    <2> QED
      BY <2>1, <2>7, NvOne
  <1>5. CASE ReadStatus(t)
    <2>1. PICK g, p : /\ f.pc = "status" /\ f.d \in Descs /\ Changed({g}) /\ Moved(g, f, p)
                      /\ p \in {"return", "persist_status_first", "condcas"}
                      /\ p = "return" => build = "volatile"
      BY <1>1, <1>2, <1>5, ReadStatusEffect
    <2>2. f.d # 0
      BY <2>1, ConstantsAssumption DEF Descs
    <2>3. Published(f.d)'
      BY <1>1, <1>2, <2>1, <2>2, NvCallPublished
    <2>4. p \notin DirtyPCs /\ p \notin {"clean_status", "swap", "swap_clean", "return"}
      BY <2>1 DEF DirtyPCs
    <2>5. NvFrameInv(g)'
      BY <2>1, <2>2, <2>3, <2>4, NvMoved
    <2> QED
      BY <2>1, <2>5, NvOne
  <1>6. CASE FlushStatus(t)
    <2>1. PICK g, p : /\ f.d \in Descs /\ Changed({g}) /\ Moved(g, f, p)
                      /\ \/ f.pc = "persist_status_first" /\ p = "clean_status_first"
                         \/ f.pc = "persist_status" /\ p = "clean_status"
      BY <1>1, <1>2, <1>6, FlushStatusEffect
    <2>2. f.d # 0
      BY <2>1, ConstantsAssumption DEF Descs
    <2>3. Published(f.d)'
      BY <1>1, <1>2, <2>1, <2>2, NvCallPublished
    <2>4. p = "clean_status" => Known(f.d)'
      <3>1. SUFFICES ASSUME f.pc = "persist_status"
                     PROVE  Known(f.d)'
        BY <2>1
      <3>2. Decided(f.d)
        BY <1>3, <2>2, <3>1 DEF FrameInv, CallInv, Finishing
      <3>3. status' = status /\ nvstatus'[f.d] = {status[f.d].s}
        BY <1>1, <1>2, <1>6, <2>1 DEF FlushStatus, PersistStatus, TypeInv, StatusType
      <3>4. PICK e : e = f.d
        OBVIOUS
      <3>5. Decided(e)' /\ nvstatus'[e] = {status'[e].s}
        BY <3>2, <3>3, <3>4 DEF Decided
      <3> QED
        BY <3>4, <3>5 DEF Known
    <2>5. p \notin DirtyPCs /\ p \notin {"swap", "swap_clean", "return"}
      BY <2>1 DEF DirtyPCs
    <2>6. NvFrameInv(g)'
      BY <2>1, <2>2, <2>3, <2>4, <2>5, NvMoved
    <2> QED
      BY <2>1, <2>6, NvOne
  <1>7. CASE CleanStatus(t)
    <2>1. PICK g, p : /\ f.d \in Descs /\ Changed({g}) /\ Moved(g, f, p)
                      /\ \/ f.pc = "clean_status_first" /\ p = "condcas"
                         \/ f.pc = "clean_status" /\ p = "swap"
      BY <1>1, <1>2, <1>7, CleanStatusEffect
    <2>2. f.d # 0
      BY <2>1, ConstantsAssumption DEF Descs
    <2>3. Published(f.d)' /\ (f.pc = "clean_status" => Known(f.d)')
      BY <1>1, <1>2, <2>1, <2>2, NvCallPublished DEF Completing
    <2>4. p \notin DirtyPCs
      BY <2>1 DEF DirtyPCs
    <2>5. NvFrameInv(g)'
      BY <2>1, <2>2, <2>3, <2>4, NvMoved
    <2> QED
      BY <2>1, <2>5, NvOne
  <1> QED
    BY <1>4, <1>5, <1>6, <1>7

LEMMA NvCondFrames ==
  ASSUME OpInv, NvFramesInv, NvEvolves, NEW t \in Threads,
         CondStatus(t) \/ CondRecheck(t) \/ ReadCondStatus(t)
  PROVE  NvContinues
  <1>1. PICK f : f = Top(t)
    OBVIOUS
  <1>2. stack[t] # <<>> /\ TypeInv /\ f.pc # "flush"
    BY <1>1 DEF CondStatus, CondRecheck, ReadCondStatus, At, OpInv
  <1>3. f.d # 0 => Published(f.d)'
    BY <1>1, <1>2, NvCallPublished
  <1>4. CASE CondStatus(t)
    <2>1. PICK g : Changed({g}) /\ g.pc = "cond_recheck" /\ g.d = f.d
      BY <1>1, <1>2, <1>4, CondStatusEffect
    <2>2. NvFrameInv(g)'
      BY <1>3, <2>1, NvCond DEF CondPCs
    <2> QED
      BY <2>1, <2>2, NvOne
  <1>5. CASE CondRecheck(t)
    <2>1. PICK g : Changed({g}) /\ f.d # 0 /\ \/ Moved(g, f, "final_status")
                                              \/ Fresh(g, f.d, f.i, "condcas")
      BY <1>1, <1>2, <1>5, CondRecheckEffect
    <2>2. CASE Moved(g, f, "final_status")
      <3>1. g.pc = "final_status" /\ g.d = f.d
        BY <2>2 DEF Moved
      <3>2. NvFrameInv(g)'
        BY <1>3, <3>1, NvCond DEF CondPCs
      <3> QED
        BY <2>1, <3>2, NvOne
    <2>3. CASE Fresh(g, f.d, f.i, "condcas")
      <3>1. NvFrameInv(g)'
        BY <1>3, <2>1, <2>3, NvFresh DEF FreshPCs
      <3> QED
        BY <2>1, <3>1, NvOne
    <2> QED
      BY <2>1, <2>2, <2>3
  <1>6. CASE ReadCondStatus(t)
    <2>1. PICK g : Changed({g}) /\ g.pc = "install" /\ g.d = f.d
      BY <1>1, <1>2, <1>6, ReadCondStatusEffect
    <2>2. NvFrameInv(g)'
      BY <1>3, <2>1, NvCond DEF CondPCs
    <2> QED
      BY <2>1, <2>2, NvOne
  <1> QED
    BY <1>4, <1>5, <1>6

LEMMA NvCondCASFrames ==
  ASSUME OpInv, NvMemInv, NvFramesInv, NvEvolves, build = "pmem", NEW t \in Threads,
         CondCAS(t)
  PROVE  NvContinues
  <1>1. PICK f, a, rval : f = Top(t) /\ a = Addr(f) /\ rval = mem[a]
    OBVIOUS
  <1>2. stack[t] # <<>> /\ TypeInv /\ f.pc = "condcas"
    BY <1>1 DEF CondCAS, At, OpInv
  <1>3. /\ f.d # 0 /\ a \in Addresses
        /\ \/ Meets(f, CondPtr(f.d, f.i), "final_status")
           \/ Meets(f, rval, "cond_status")
           \/ NextInstall(f, rval) \/ PersistOther(f, rval) \/ HelpOther(f, rval)
           \/ GiveUp(f, rval)
    BY <1>1, <1>2, CondCASEffect
  <1>4. Published(f.d)'
    BY <1>1, <1>2, <1>3, NvCallPublished
  <1>5. ASSUME NEW r, NEW p \in {"final_status", "cond_status"}, Meets(f, r, p)
        PROVE  NvContinues
    <2>1. PICK g : Changed({g}) /\ g.pc = p /\ g.d = f.d
      BY <1>5 DEF Meets
    <2>2. NvFrameInv(g)'
      BY <1>4, <2>1, NvCond DEF CondPCs
    <2> QED
      BY <2>1, <2>2, NvOne
  <1>6. rval.tag = "mwcas" => Published(rval.d)'
    BY <1>1, <1>2, <1>3, NvPointer
  <1> QED
    BY <1>3, <1>4, <1>5, <1>6, NvAfterCondCAS

LEMMA NvInstallFrames ==
  ASSUME OpInv, NvMemInv, NvFramesInv, NvEvolves, build = "pmem", NEW t \in Threads,
         InstallOverCond(t)
  PROVE  NvContinues
  <1>1. PICK f, a : f = Top(t) /\ a = Addr(f)
    OBVIOUS
  <1>2. stack[t] # <<>> /\ TypeInv /\ f.pc = "install"
    BY <1>1 DEF InstallOverCond, At, OpInv
  <1>3. \/ f.d # 0 /\ NextInstall(f, Old(f.d, f.i))
        \/ /\ f.d # 0 /\ f.desired.tag = "mwcas" /\ mem[a] = f.ret
           /\ \/ NextInstall(f, f.desired) \/ PersistOther(f, f.desired)
              \/ HelpOther(f, f.desired) \/ GiveUp(f, f.desired)
        \/ \E g : Changed({g}) /\ Fresh(g, f.d, f.i, IF f.d = 0 THEN "load" ELSE "condcas")
    BY <1>1, <1>2, InstallEffect
  <1>4. f.d # 0 => Published(f.d)'
    BY <1>1, <1>2, NvCallPublished
  <1>5. CASE f.d # 0 /\ NextInstall(f, Old(f.d, f.i))
    <2>1. Old(f.d, f.i).tag # "mwcas"
      BY Forms DEF Old
    <2> QED
      BY <1>4, <1>5, <2>1, NvAfterCondCAS
  <1>6. CASE /\ f.d # 0 /\ f.desired.tag = "mwcas" /\ mem[a] = f.ret
             /\ \/ NextInstall(f, f.desired) \/ PersistOther(f, f.desired)
                \/ HelpOther(f, f.desired) \/ GiveUp(f, f.desired)
    <2>1. FrameOK(f) /\ FrameInv(f)
      BY <1>1, <1>2, Here
    <2>2. a \in Addresses /\ f.ret \in Words /\ f.ret.tag = "cond"
      BY <1>1, <1>2, <2>1, FrameKinds DEF CondPCs
    <2>3. f.ret.d \in Descs
      BY <2>2, CondForm
    <2>4. f.desired = Flag(MwCASPtr(f.ret.d))
      BY <1>2, <1>6, <2>1 DEF FrameInv, PointerInv, CondPCs
    <2>5. f.desired.d = f.ret.d
      BY <2>3, <2>4, FlaggedPtr
    <2>6. Published(f.desired.d)'
      BY <1>2, <1>6, <2>2, <2>5, NvPointer
    <2> QED
      BY <1>4, <1>6, <2>6, NvAfterCondCAS
  <1>7. ASSUME NEW g, Changed({g}),
               Fresh(g, f.d, f.i, IF f.d = 0 THEN "load" ELSE "condcas")
        PROVE  NvContinues
    BY <1>4, <1>7, NvRetry, NvOne
  <1> QED
    BY <1>3, <1>5, <1>6, <1>7

LEMMA NvCommitFrames ==
  ASSUME OpInv, NvFramesInv, NvEvolves, build = "pmem", NEW t \in Threads,
         Precommit(t) \/ Decide(t) \/ Swap(t)
  PROVE  NvContinues
  <1>1. PICK f : f = Top(t)
    OBVIOUS
  <1>2. stack[t] # <<>> /\ TypeInv /\ f.pc # "flush"
    BY <1>1 DEF Precommit, Decide, Swap, At, OpInv
  <1>3. f.d # 0 => Published(f.d)' /\ (Completing(f) => Known(f.d)')
    BY <1>1, <1>2, NvCallPublished
  <1>4. CASE Precommit(t)
    <2>1. /\ f.d # 0
          /\ \/ \E g : /\ Changed({g}) /\ g.pc = "persist"
                       /\ g.ret = Dirty(MwCASPtr(f.d)) /\ g.d = f.d
             \/ NextOf(f, "precommit", "decide")
      BY <1>1, <1>2, <1>4, PrecommitEffect
    <2>2. ASSUME NEW g, Changed({g}), g.pc = "persist", g.ret = Dirty(MwCASPtr(f.d)),
                 g.d = f.d
          PROVE  NvContinues
      <3>1. g.ret.tag = "mwcas" /\ g.ret.d = f.d
        BY <2>2, Forms
      <3>2. NvFrameInv(g)'
        BY <1>3, <2>1, <2>2, <3>1, NvPersist
      <3> QED
        BY <2>2, <3>2, NvOne
    <2>3. CASE NextOf(f, "precommit", "decide")
      BY <1>3, <2>1, <2>3, NvNext DEF FreshPCs
    <2> QED
      BY <2>1, <2>2, <2>3
  <1>5. CASE Decide(t)
    <2>1. PICK g : f.d # 0 /\ Changed({g}) /\ Fresh(g, f.d, 1, "persist_status")
      BY <1>1, <1>2, <1>5, DecideEffect DEF AfterDecision
    <2>2. NvFrameInv(g)'
      BY <1>3, <2>1, NvFresh DEF FreshPCs
    <2> QED
      BY <2>1, <2>2, NvOne
  <1>6. CASE Swap(t)
    <2>1. PICK val : val = Flag(Final(f.d, f.i))
      OBVIOUS
    <2>2. /\ f.pc \in {"swap", "swap_clean"} /\ f.d # 0 /\ val.tag = "val"
          /\ \/ \E g : Changed({g}) /\ Moved(g, f, "swap_clean")
             \/ Meets(f, val, "persist")
      BY <1>1, <1>2, <1>6, <2>1, SwapEffect
    <2>3. Known(f.d)' /\ Published(f.d)'
      BY <1>3, <2>2 DEF Completing
    <2>4. ASSUME NEW g, Changed({g}), Moved(g, f, "swap_clean")
          PROVE  NvContinues
      <3>1. NvFrameInv(g)'
        BY <2>2, <2>3, <2>4, NvMoved DEF DirtyPCs
      <3> QED
        BY <2>4, <3>1, NvOne
    <2>5. CASE Meets(f, val, "persist")
      <3>1. PICK g : Changed({g}) /\ g.pc = "persist" /\ g.ret = val /\ g.d = f.d
        BY <2>5 DEF Meets
      <3>2. NvFrameInv(g)'
        BY <2>2, <2>3, <3>1, NvPersist
      <3> QED
        BY <3>1, <3>2, NvOne
    <2> QED
      BY <2>2, <2>4, <2>5
  <1> QED
    BY <1>4, <1>5, <1>6

LEMMA NvLoadFrames ==
  ASSUME OpInv, NvMemInv, UnsettledInv, NvEvolves, NEW t \in Threads, Load(t)
  PROVE  NvContinues
  <1>1. PICK f, val : f = Top(t) /\ val = mem[f.i]
    OBVIOUS
  <1>2. TypeInv
    BY DEF OpInv
  <1>3. /\ f.pc = "load" /\ f.d = 0 /\ f.i \in Addresses /\ val \in Words
        /\ \/ Finds(f, val)
           \/ /\ val = MwCASPtr(val.d) /\ val.d \in Descs
              /\ \E h : Changed({f, h}) /\ Fresh(h, val.d, 1, "status")
           \/ Changed({})
    BY <1>1, <1>2, LoadEffect
  <1>4. val.tag = "mwcas" => Published(val.d)'
    BY <1>1, <1>2, <1>3, NvPointer
  <1>5. CASE Finds(f, val)
    <2>1. PICK g : /\ Changed({g}) /\ g.d = 0
                   /\ g.pc = (IF val.tag = "cond" THEN "final_status" ELSE "persist")
                   /\ g.ret = val /\ g.saw = LastWriter(f.i)
      BY <1>5 DEF Finds
    <2>2. CASE val.tag = "cond"
      <3>1. NvFrameInv(g)'
        BY <2>1, <2>2, NvCond DEF CondPCs
      <3> QED
        BY <2>1, <3>1, NvOne
    <2>3. CASE val.tag # "cond"
      <3>1. val.tag = "val" => g.saw = 0 \/ Settled(g.saw)'
        BY <1>1, <1>2, <1>3, <2>1, NvValue DEF NvEvolves
      <3>2. NvFrameInv(g)'
        BY <1>4, <2>1, <2>3, <3>1, NvPersist
      <3> QED
        BY <2>1, <3>2, NvOne
    <2> QED
      BY <2>2, <2>3
  <1>6. ASSUME NEW h, val = MwCASPtr(val.d), val.d \in Descs, Changed({f, h}),
               Fresh(h, val.d, 1, "status")
        PROVE  NvContinues
    <2>1. val.tag = "mwcas"
      BY <1>6, Forms
    <2>2. NvFrameInv(h)'
      BY <1>4, <1>6, <2>1, NvFresh DEF FreshPCs
    <2>3. NvFrameInv(f)'
      BY <1>3 DEF NvFrameInv, DirtyPCs
    <2> QED
      BY <1>6, <2>2, <2>3, NvTwo
  <1> QED
    BY <1>3, <1>5, <1>6, NvNone

LEMMA NvDirtyFrames ==
  ASSUME OpInv, NvFramesInv, NvEvolves, NEW t \in Threads, FlushWord(t) \/ CleanWord(t)
  PROVE  NvContinues
  <1>1. PICK f : f = Top(t)
    OBVIOUS
  <1>2. stack[t] # <<>> /\ TypeInv /\ f.pc \in DirtyPCs
    BY <1>1 DEF FlushWord, CleanWord, At, OpInv, DirtyPCs
  <1>3. FrameOK(f) /\ NvFrameInv(f)
    BY <1>1, <1>2, Here, NvFrameOf
  <1>4. f.saw \in {0} \union Descs
    <2>1. f = stack[t][Len(stack[t])] /\ Len(stack[t]) \in DOMAIN stack[t]
      BY <1>1, <1>2, TopFacts
    <2>2. f.saw \in {0} \union Range(hist)
      BY <1>2, <2>1 DEF TypeInv, SawOK
    <2> QED
      BY <1>2, <2>2 DEF TypeInv, Range
  <1>5. NvFrameInv(f)'
    BY <1>3, <1>4, NvFrameKept
  <1>6. /\ f.d # 0 => Published(f.d)'
        /\ f.d # 0 /\ f.ret.tag = "val" => Known(f.d)'
        /\ f.ret.tag = "mwcas" => Published(f.ret.d)'
    BY <1>2, <1>5 DEF NvFrameInv, Completing, DirtyPCs
  <1>7. CASE FlushWord(t)
    <2>1. PICK g : Changed({g}) /\ Moved(g, f, "clean")
      BY <1>1, <1>2, <1>7, FlushWordEffect
    <2>2. g.d = f.d /\ g.ret = f.ret /\ g.pc = "clean" /\ g.saw = f.saw
      BY <2>1 DEF Moved
    <2>3. NvFrameInv(g)'
      BY <1>2, <1>5, <2>2 DEF NvFrameInv, Completing, DirtyPCs
    <2> QED
      BY <2>1, <2>3, NvOne
  <1>8. CASE CleanWord(t)
    <2>1. \/ /\ f.ret.tag = "mwcas"
             /\ \E g, h : /\ Changed({g, h}) /\ Fresh(h, f.ret.d, 1, "status")
                          /\ Fresh(g, f.d, f.i, IF f.d = 0 THEN "load" ELSE "condcas")
          \/ f.d # 0 /\ NextOf(f, "precommit", "decide")
          \/ f.ret.tag = "val" /\ f.d # 0 /\ NextOf(f, "swap", "return")
          \/ Changed({})
      BY <1>1, <1>2, <1>8, CleanWordEffect
    <2>2. ASSUME f.ret.tag = "mwcas", NEW g, NEW h, Changed({g, h}),
                 Fresh(h, f.ret.d, 1, "status"),
                 Fresh(g, f.d, f.i, IF f.d = 0 THEN "load" ELSE "condcas")
          PROVE  NvContinues
      <3>1. NvFrameInv(h)'
        BY <1>6, <2>2, NvFresh DEF FreshPCs
      <3>2. NvFrameInv(g)'
        BY <1>6, <2>2, NvRetry
      <3> QED
        BY <2>2, <3>1, <3>2, NvTwo
    <2>3. CASE f.d # 0 /\ NextOf(f, "precommit", "decide")
      BY <1>6, <2>3, NvNext DEF FreshPCs
    <2>4. CASE f.ret.tag = "val" /\ f.d # 0 /\ NextOf(f, "swap", "return")
      BY <1>6, <2>4, NvNext DEF FreshPCs
    <2> QED
      BY <2>1, <2>2, <2>3, <2>4, NvNone
  <1> QED
    BY <1>7, <1>8

LEMMA NvBeginFrames ==
  ASSUME TypeInv, build = "pmem", NEW t \in Threads, BeginMwCAS(t) \/ BeginRead(t)
  PROVE  NvContinues
  <1>1. CASE BeginMwCAS(t)
    <2>1. PICK d : d = Script[t][next[t]].d
      OBVIOUS
    <2>2. PICK g : Changed({g}) /\ Fresh(g, d, 1, "flush")
      BY <1>1, <2>1, BeginMwCASEffect
    <2>3. NvFrameInv(g)'
      BY <2>2, NvFresh DEF FreshPCs
    <2> QED
      BY <2>2, <2>3, NvOne
  <1>2. CASE BeginRead(t)
    <2>1. PICK g : Changed({g}) /\ Fresh(g, 0, g.i, "load")
      BY <1>2, BeginReadEffect
    <2>2. NvFrameInv(g)'
      BY <2>1, NvFresh DEF FreshPCs
    <2> QED
      BY <2>1, <2>2, NvOne
  <1> QED
    BY <1>1, <1>2

LEMMA NvFramesStep ==
  ASSUME OpInv, NvInv, NvEvolves, build = "pmem", NEW t \in Threads, Step(t)
  PROVE  NvFramesInv'
  <1>1. TypeInv /\ NvMemInv /\ UnsettledInv /\ NvFramesInv
    BY DEF OpInv, NvInv
  <1>2. ReturnOwner(t) \/ ReturnHelper(t) \/ ReturnWithFailure(t) => NvContinues
    BY <1>1, ReturnEffect, NvNone
  <1>3. NvContinues
    BY <1>1, <1>2, NvStatusFrames, NvCondFrames, NvCondCASFrames, NvInstallFrames,
       NvCommitFrames, NvLoadFrames, NvDirtyFrames, NvBeginFrames DEF Step, Continue
  <1> QED
    BY <1>1, <1>3, NvFramesKept

LEMMA NvAckedStep ==
  ASSUME OpInv, NvInv, NvEvolves, NEW t \in Threads, Step(t)
  PROVE  AckedInv'
  <1>1. TypeInv /\ StatusInv /\ NvMemInv /\ UnsettledInv /\ NvFramesInv /\ AckedInv
    BY DEF OpInv, NvInv
  <1>2. acked \subseteq Descs
    BY <1>1 DEF TypeInv, Range
  <1>3. ASSUME \A d \in acked' : d \in acked \/ (d \in Descs /\ Settled(d))
        PROVE  AckedInv'
    BY <1>1, <1>2, <1>3 DEF AckedInv, NvEvolves
  <1>4. PICK f : f = Top(t)
    OBVIOUS
  <1>5. CASE ReturnOwner(t)
    <2>1. /\ stack[t] # <<>> /\ f.pc = "return"
          /\ acked' = acked \union ({f.d} \intersect Range(hist))
      BY <1>4, <1>5 DEF ReturnOwner, At
    <2>2. FrameOK(f) /\ NvFrameInv(f)
      BY <1>1, <1>4, <2>1, Here, NvFrameOf
    <2>3. f.d \in Range(hist) => f.d \in Descs /\ f.d # 0
      BY <1>1, ConstantsAssumption DEF TypeInv, Range, Descs
    <2>4. f.d \in Range(hist) => Settled(f.d)
      BY <1>1, <2>1, <2>2, <2>3 DEF NvFrameInv, Completing, Known, Settled, StatusInv
    <2> QED
      BY <1>3, <2>1, <2>3, <2>4
  <1>6. CASE Load(t)
    <2>1. /\ f.i \in Addresses
          /\ \/ acked' = acked
             \/ mem[f.i].tag = "val" /\ acked' = acked \union ({LastWriter(f.i)} \ {0})
      BY <1>1, <1>4, <1>6, LoadEffect
    <2>2. mem[f.i].tag = "val" => LastWriter(f.i) = 0 \/
            (LastWriter(f.i) \in Descs /\ Settled(LastWriter(f.i)))
      BY <1>1, <2>1, NvValue
    <2> QED
      BY <1>3, <2>1, <2>2
  <1>7. CASE CleanWord(t)
    <2>1. stack[t] # <<>> /\ f.pc = "clean"
      BY <1>4, <1>7 DEF CleanWord, At
    <2>2. \/ acked' = acked
          \/ /\ f.ret.tag = "val" /\ f.d = 0
             /\ acked' = acked \union ({f.saw} \ {0})
      BY <1>1, <1>4, <1>7, CleanWordEffect
    <2>3. FrameOK(f) /\ NvFrameInv(f)
      BY <1>1, <1>4, <2>1, Here, NvFrameOf
    <2>4. f.saw \in {0} \union Descs
      <3>1. f = stack[t][Len(stack[t])] /\ Len(stack[t]) \in DOMAIN stack[t]
        BY <1>1, <1>4, <2>1, TopFacts
      <3>2. f.saw \in {0} \union Range(hist)
        BY <1>1, <3>1 DEF TypeInv, SawOK
      <3> QED
        BY <1>1, <3>2 DEF TypeInv, Range
    <2>5. f.ret.tag = "val" /\ f.d = 0 => f.saw = 0 \/ Settled(f.saw)
      BY <2>1, <2>3 DEF NvFrameInv, DirtyPCs
    <2> QED
      BY <1>3, <2>2, <2>4, <2>5
  <1>8. CASE acked' = acked
    BY <1>3, <1>8
  <1>9. acked' = acked \/ ReturnOwner(t) \/ Load(t) \/ CleanWord(t)
    BY DEF Step, Continue, BeginMwCAS, BeginRead, FlushDescriptor, ReadStatus, FlushStatus,
           CleanStatus, CondCAS, CondStatus, CondRecheck, ReadCondStatus, InstallOverCond,
           Precommit, Decide, Swap, ReturnHelper, FlushWord, ReturnWithFailure, history
  <1> QED
    BY <1>5, <1>6, <1>7, <1>8, <1>9

(* The invariant of a persistent run. *)
LEMMA NvStep ==
  ASSUME OpInv, OpInv', NvInv, Superseded, build = "pmem", NEW t \in Threads, Step(t)
  PROVE  NvInv'
  <1>1. TypeInv /\ TypeInv' /\ StatusInv /\ NvMemInv /\ NvStatusInv /\ UnsettledInv
    BY DEF OpInv, NvInv
  <1>2. NvStatusInv' /\ NvEvolves
    BY <1>1, NvStatusStep
  <1>3. NvFramesInv' /\ AckedInv'
    BY <1>2, NvFramesStep, NvAckedStep
  <1>4. NvMemInv' /\ UnsettledInv'
    <2>1. CASE hist' = hist
      <3>1. NvChange
        BY NvChanges DEF NvInv
      <3> QED
        BY <1>1, <1>2, <2>1, <3>1, NvMemSame, UnsettledSame
    <2>2. CASE hist' # hist
      <3>1. Decide(t)
        BY <2>2 DEF Step, Continue, BeginMwCAS, BeginRead, FlushDescriptor, ReadStatus,
           FlushStatus, CleanStatus, CondCAS, CondStatus, CondRecheck, ReadCondStatus,
           InstallOverCond, Precommit, Swap, ReturnOwner, ReturnHelper, Load, CleanWord,
           FlushWord, ReturnWithFailure, history
      <3>2. PICK f : f = Top(t)
        OBVIOUS
      <3>3. f.d \in Descs
        BY <1>1, <3>1, <3>2, DecideEffect
      <3>4. /\ Undecided(f.d) /\ f.my_status = "Succeeded" /\ hist' = Append(hist, f.d)
            /\ UNCHANGED memVars
        BY <2>2, <3>1, <3>2 DEF Decide, Undecided
      <3>5. \A j \in DOMAIN words[f.d] : Persisted(f.d, j)
        BY <3>1, <3>2, <3>4, DecideFinds
      <3>6. DecidesHist(f.d)
        BY <3>4, <3>5 DEF DecidesHist, Persisted
      <3> QED
        BY <1>1, <1>2, <3>3, <3>6, NvMemDecided, UnsettledDecided
    <2> QED
      BY <2>1, <2>2
  <1> QED
    BY <1>2, <1>3, <1>4 DEF NvInv

=============================================================================
