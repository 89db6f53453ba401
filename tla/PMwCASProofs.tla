---------------------------- MODULE PMwCASProofs ----------------------------
(***************************************************************************)
(* PMwCAS keeps its types, persists its pointers before it decides, and is *)
(* an atomic multi-word compare-and-swap.                                  *)
(***************************************************************************)
EXTENDS InvariantProofs

(* Time for the longest leaves. *)
USE ZenonT(4), SMTT(10), ZenonT(40), SMTT(60), ZenonT(150)

-----------------------------------------------------------------------------

(* Words, statuses, frames and histories keep their types *)

LEMMA StoreType ==
  ASSUME MemType, NEW a \in Addresses, NEW x \in Words, NEW y,
         Store(a, x) \/ CAS(a, y, x) \/ PersistAddress(a) \/ UNCHANGED memVars
  PROVE  MemType'
  <1>1. mem[a] \in Words
    BY DEF MemType
  <1>2. CASE Store(a, x)
    BY <1>2 DEF MemType, Store
  <1>3. CASE PersistAddress(a)
    BY <1>1, <1>3 DEF MemType, PersistAddress
  <1>4. CASE UNCHANGED memVars
    BY <1>4 DEF MemType, memVars
  <1> QED
    BY <1>2, <1>3, <1>4 DEF CAS

LEMMA StatusStoreType ==
  ASSUME StatusType, NEW d \in Descs, NEW st \in [s : States, dirty : 0 .. 1],
         StoreStatus(d, st) \/ PersistStatus(d) \/ UNCHANGED statusVars
  PROVE  StatusType'
  <1>1. status[d].s \in States /\ st.s \in States
    BY DEF StatusType
  <1>2. CASE StoreStatus(d, st)
    BY <1>1, <1>2 DEF StatusType, StoreStatus
  <1>3. CASE PersistStatus(d)
    BY <1>1, <1>3 DEF StatusType, PersistStatus
  <1>4. CASE UNCHANGED statusVars
    BY <1>4 DEF StatusType, statusVars
  <1> QED
    BY <1>2, <1>3, <1>4

(* What a step must show for the types: about memory, and about new frames. *)
LEMMA TypeKept ==
  ASSUME TypeInv, NEW S, Changed(S),
         \A g \in S : FrameOK(g) /\ g.saw \in {0} \union Range(hist),
         MemType', StatusType', build' = build, hist' = hist,
         next' = next \/ next' \in [Threads -> Nat \ {0}],
         acked' \subseteq Range(hist)
  PROVE  TypeInv'
  <1>1. /\ stack' \in [Threads -> Seq(Frame)]
        /\ \A u \in Threads : StackOK(stack'[u]) /\ SawOK(stack[u])'
    BY StacksOK
  <1>2. \A u \in Threads : StackOK(stack[u])'
    BY <1>1 DEF StackOK
  <1>3. Lasts(hist)'
    BY DEF TypeInv, Lasts
  <1> QED
    BY <1>1, <1>2, <1>3 DEF TypeInv

LEMMA FreshSaw ==
  ASSUME NEW g, NEW d, NEW i, NEW p, Fresh(g, d, i, p)
  PROVE  g.saw \in {0} \union Range(hist)
  BY DEF Fresh

LEMMA MovedSaw ==
  ASSUME NEW g, NEW f, NEW p, Moved(g, f, p), f.saw \in {0} \union Range(hist)
  PROVE  g.saw \in {0} \union Range(hist)
  BY DEF Moved

(* The frames that CondCAS leads to. *)
Advances(S) ==
  /\ Changed(S)
  /\ \A g \in S : FrameOK(g) /\ g.saw \in {0} \union Range(hist)

LEMMA NextAdvances ==
  ASSUME NEW f, NEW p, NEW e, NextOf(f, p, e)
  PROVE  \E S : Advances(S)
  <1>1. PICK g : /\ Changed({g}) /\ FrameOK(g)
                 /\ \/ Fresh(g, f.d, f.i + 1, p)
                    \/ Fresh(g, f.d, 1, e)
    BY DEF NextOf
  <1>2. g.saw \in {0} \union Range(hist)
    BY <1>1, FreshSaw
  <1>3. Advances({g})
    BY <1>1, <1>2 DEF Advances
  <1> QED
    BY <1>3

LEMMA AfterAdvances ==
  ASSUME NEW f, NEW rval,
         \/ NextInstall(f, rval) \/ PersistOther(f, rval) \/ HelpOther(f, rval)
         \/ GiveUp(f, rval)
  PROVE  \E S : Advances(S)
  <1>1. CASE NextInstall(f, rval)
    BY <1>1, NextAdvances DEF NextInstall
  <1>2. CASE PersistOther(f, rval)
    <2>1. PICK g : Changed({g}) /\ FrameOK(g) /\ g.saw = 0
      BY <1>2 DEF PersistOther
    <2>2. Advances({g})
      BY <2>1 DEF Advances
    <2> QED
      BY <2>2
  <1>3. CASE HelpOther(f, rval)
    <2>1. PICK g, h : /\ Changed({g, h}) /\ FrameOK(g) /\ FrameOK(h)
                      /\ Fresh(g, f.d, f.i, IF f.d = 0 THEN "load" ELSE "condcas")
                      /\ Fresh(h, rval.d, 1, "status")
      BY <1>3 DEF HelpOther
    <2>2. g.saw \in {0} \union Range(hist) /\ h.saw \in {0} \union Range(hist)
      BY <2>1, FreshSaw
    <2>3. Advances({g, h})
      BY <2>1, <2>2 DEF Advances
    <2> QED
      BY <2>3
  <1>4. CASE GiveUp(f, rval)
    <2>1. PICK g : Changed({g}) /\ FrameOK(g) /\ Fresh(g, f.d, 1, "decide")
      BY <1>4 DEF GiveUp
    <2>2. g.saw \in {0} \union Range(hist)
      BY <2>1, FreshSaw
    <2>3. Advances({g})
      BY <2>1, <2>2 DEF Advances
    <2> QED
      BY <2>3
  <1> QED
    BY <1>1, <1>2, <1>3, <1>4

LEMMA OneAdvances ==
  ASSUME NEW g, Changed({g}), FrameOK(g), g.saw \in {0} \union Range(hist)
  PROVE  \E S : Advances(S)
  <1>1. Advances({g})
    BY DEF Advances
  <1> QED
    BY <1>1

(* Every step that does not decide leaves frames that fit. *)
LEMMA MovedAdvances ==
  ASSUME NEW f, f.saw \in {0} \union Range(hist),
         NEW g, NEW p, Changed({g}), Moved(g, f, p), FrameOK(g)
  PROVE  \E S : Advances(S)
  <1>1. g.saw \in {0} \union Range(hist)
    BY MovedSaw
  <1> QED
    BY <1>1, OneAdvances

LEMMA FreshAdvances ==
  ASSUME NEW g, NEW d, NEW i, NEW p, Changed({g}), FrameOK(g), Fresh(g, d, i, p)
  PROVE  \E S : Advances(S)
  <1>1. g.saw \in {0} \union Range(hist)
    BY FreshSaw
  <1> QED
    BY <1>1, OneAdvances

LEMMA NothingAdvances ==
  ASSUME Changed({})
  PROVE  \E S : Advances(S)
  <1>1. Advances({})
    BY DEF Advances
  <1> QED
    BY <1>1

LEMMA TopSaw ==
  ASSUME TypeInv, NEW t \in Threads, stack[t] # <<>>, NEW f, f = Top(t)
  PROVE  f.saw \in {0} \union Range(hist)
  BY TopFacts

LEMMA StatusAdvances ==
  ASSUME TypeInv, NEW t \in Threads,
         FlushDescriptor(t) \/ ReadStatus(t) \/ FlushStatus(t) \/ CleanStatus(t)
  PROVE  \E S : Advances(S)
  <1>1. PICK f : f = Top(t)
    OBVIOUS
  <1>2. stack[t] # <<>>
    BY DEF FlushDescriptor, ReadStatus, FlushStatus, CleanStatus, At
  <1>3. f.saw \in {0} \union Range(hist)
    BY <1>1, <1>2, TopSaw
  <1>4. \E g, p : Changed({g}) /\ Moved(g, f, p) /\ FrameOK(g)
    <2>1. CASE FlushDescriptor(t)
      BY <1>1, <2>1, FlushDescriptorEffect
    <2>2. CASE ReadStatus(t)
      BY <1>1, <2>2, ReadStatusEffect
    <2>3. CASE FlushStatus(t)
      BY <1>1, <2>3, FlushStatusEffect
    <2>4. CASE CleanStatus(t)
      BY <1>1, <2>4, CleanStatusEffect
    <2> QED
      BY <2>1, <2>2, <2>3, <2>4
  <1> QED
    BY <1>3, <1>4, MovedAdvances

LEMMA CondCASAdvances ==
  ASSUME TypeInv, NEW t \in Threads, CondCAS(t)
  PROVE  \E S : Advances(S)
  <1>1. PICK f, a : f = Top(t) /\ a = Addr(f)
    OBVIOUS
  <1>2. f.saw \in {0} \union Range(hist)
    <2>1. stack[t] # <<>>
      BY DEF CondCAS, At
    <2> QED
      BY <1>1, <2>1, TopSaw
  <1>3. \/ \E r, p : Meets(f, r, p)
        \/ NextInstall(f, mem[a]) \/ PersistOther(f, mem[a])
        \/ HelpOther(f, mem[a]) \/ GiveUp(f, mem[a])
    BY <1>1, CondCASEffect
  <1>4. CASE \E r, p : Meets(f, r, p)
    <2>1. PICK r, p : Meets(f, r, p)
      BY <1>4
    <2>2. PICK g : Changed({g}) /\ FrameOK(g) /\ g.saw = f.saw
      BY <2>1 DEF Meets
    <2> QED
      BY <1>2, <2>2, OneAdvances
  <1> QED
    BY <1>3, <1>4, AfterAdvances

LEMMA CondAdvances ==
  ASSUME TypeInv, NEW t \in Threads,
         CondStatus(t) \/ CondRecheck(t) \/ ReadCondStatus(t) \/ FlushWord(t)
  PROVE  \E S : Advances(S)
  <1>1. PICK f : f = Top(t)
    OBVIOUS
  <1>2. stack[t] # <<>>
    BY DEF CondStatus, CondRecheck, ReadCondStatus, FlushWord, At
  <1>3. f.saw \in {0} \union Range(hist)
    BY <1>1, <1>2, TopSaw
  <1>4. CASE CondStatus(t)
    <2>1. PICK g : Changed({g}) /\ FrameOK(g) /\ g.saw = f.saw
      BY <1>1, <1>4, CondStatusEffect
    <2> QED
      BY <1>3, <2>1, OneAdvances
  <1>5. CASE ReadCondStatus(t)
    <2>1. PICK g : Changed({g}) /\ FrameOK(g) /\ g.saw = f.saw
      BY <1>1, <1>5, ReadCondStatusEffect
    <2> QED
      BY <1>3, <2>1, OneAdvances
  <1>6. CASE CondRecheck(t)
    <2>1. PICK g : /\ Changed({g}) /\ FrameOK(g)
                   /\ Moved(g, f, "final_status") \/ Fresh(g, f.d, f.i, "condcas")
      BY <1>1, <1>6, CondRecheckEffect
    <2> QED
      BY <1>3, <2>1, MovedAdvances, FreshAdvances
  <1>7. CASE FlushWord(t)
    <2>1. PICK g : Changed({g}) /\ FrameOK(g) /\ Moved(g, f, "clean")
      BY <1>1, <1>7, FlushWordEffect
    <2> QED
      BY <1>3, <2>1, MovedAdvances
  <1> QED
    BY <1>4, <1>5, <1>6, <1>7

LEMMA InstallAdvances ==
  ASSUME TypeInv, NEW t \in Threads, InstallOverCond(t)
  PROVE  \E S : Advances(S)
  <1>1. PICK f : f = Top(t)
    OBVIOUS
  <1>2. \/ \E rval : \/ NextInstall(f, rval) \/ PersistOther(f, rval)
                     \/ HelpOther(f, rval) \/ GiveUp(f, rval)
        \/ \E g, p : Changed({g}) /\ FrameOK(g) /\ Fresh(g, f.d, f.i, p)
    BY <1>1, InstallEffect
  <1> QED
    BY <1>2, AfterAdvances, FreshAdvances

LEMMA PrecommitAdvances ==
  ASSUME TypeInv, NEW t \in Threads, Precommit(t) \/ Swap(t)
  PROVE  \E S : Advances(S)
  <1>1. PICK f : f = Top(t)
    OBVIOUS
  <1>2. stack[t] # <<>>
    BY DEF Precommit, Swap, At
  <1>3. f.saw \in {0} \union Range(hist)
    BY <1>1, <1>2, TopSaw
  <1>4. \/ \E p, e : NextOf(f, p, e)
        \/ \E g : Changed({g}) /\ FrameOK(g) /\ g.saw = f.saw
        \/ \E g, p : Changed({g}) /\ FrameOK(g) /\ Moved(g, f, p)
    <2>1. CASE Precommit(t)
      BY <1>1, <2>1, PrecommitEffect
    <2>2. CASE Swap(t)
      <3>1. PICK val : val = Flag(Final(f.d, f.i))
        OBVIOUS
      <3>2. \/ \E p, e : NextOf(f, p, e)
            \/ \E g, p : Changed({g}) /\ FrameOK(g) /\ Moved(g, f, p)
            \/ Meets(f, val, "persist")
        BY <1>1, <2>2, <3>1, SwapEffect
      <3>3. CASE Meets(f, val, "persist")
        BY <3>3 DEF Meets
      <3> QED
        BY <3>2, <3>3
    <2> QED
      BY <2>1, <2>2
  <1>5. CASE \E g : Changed({g}) /\ FrameOK(g) /\ g.saw = f.saw
    BY <1>3, <1>5, OneAdvances
  <1> QED
    BY <1>3, <1>4, <1>5, NextAdvances, MovedAdvances

LEMMA LoadAdvances ==
  ASSUME TypeInv, NEW t \in Threads, Load(t)
  PROVE  (\E S : Advances(S)) /\ acked' \subseteq Range(hist)
  <1>1. PICK f, val : f = Top(t) /\ val = mem[f.i]
    OBVIOUS
  <1>2. stack[t] # <<>>
    BY DEF Load, At
  <1>3. f.saw \in {0} \union Range(hist) /\ FrameOK(f)
    BY <1>1, <1>2, TopFacts
  <1>4. hist \in Seq(Descs) /\ Lasts(hist) /\ acked \subseteq Range(hist)
    BY DEF TypeInv
  <1>5. LastWriter(f.i) \in {0} \union Range(hist)
    BY <1>4, LastOfType DEF LastWriter
  <1>6. \/ UNCHANGED acked /\ Finds(f, val)
        \/ /\ UNCHANGED acked
           /\ \E h, p : Changed({f, h}) /\ FrameOK(h) /\ Fresh(h, p, 1, "status")
        \/ /\ Changed({}) /\ acked' = acked \union ({LastWriter(f.i)} \ {0})
    BY <1>1, LoadEffect
  <1>7. ASSUME Finds(f, val)
        PROVE  \E S : Advances(S)
    <2>1. PICK g : Changed({g}) /\ FrameOK(g) /\ g.saw = LastWriter(f.i)
      BY <1>7 DEF Finds
    <2> QED
      BY <1>5, <2>1, OneAdvances
  <1>8. ASSUME \E h, p : Changed({f, h}) /\ FrameOK(h) /\ Fresh(h, p, 1, "status")
        PROVE  \E S : Advances(S)
    <2>1. PICK h, p : Changed({f, h}) /\ FrameOK(h) /\ Fresh(h, p, 1, "status")
      BY <1>8
    <2>2. h.saw \in {0} \union Range(hist)
      BY <2>1, FreshSaw
    <2>3. Advances({f, h})
      BY <1>3, <2>1, <2>2 DEF Advances
    <2> QED
      BY <2>3
  <1>9. \E S : Advances(S)
    BY <1>6, <1>7, <1>8, NothingAdvances
  <1>10. acked' \subseteq Range(hist)
    BY <1>4, <1>5, <1>6
  <1> QED
    BY <1>9, <1>10

LEMMA CleanWordAdvances ==
  ASSUME TypeInv, NEW t \in Threads, CleanWord(t)
  PROVE  (\E S : Advances(S)) /\ acked' \subseteq Range(hist)
  <1>1. PICK f : f = Top(t)
    OBVIOUS
  <1>2. stack[t] # <<>>
    BY DEF CleanWord, At
  <1>3. f.saw \in {0} \union Range(hist)
    BY <1>1, <1>2, TopSaw
  <1>4. acked \subseteq Range(hist)
    BY DEF TypeInv
  <1>5. \/ /\ UNCHANGED acked
           /\ \E g, h, p, q : /\ Changed({g, h}) /\ FrameOK(g) /\ FrameOK(h)
                              /\ Fresh(g, f.d, f.i, p) /\ Fresh(h, q, 1, "status")
        \/ UNCHANGED acked /\ \E p, e : NextOf(f, p, e)
        \/ Changed({}) /\ acked' = acked \union ({f.saw} \ {0})
    BY <1>1, CleanWordEffect
  <1>6. ASSUME \E g, h, p, q : /\ Changed({g, h}) /\ FrameOK(g) /\ FrameOK(h)
                               /\ Fresh(g, f.d, f.i, p) /\ Fresh(h, q, 1, "status")
        PROVE  \E S : Advances(S)
    <2>1. PICK g, h, p, q : /\ Changed({g, h}) /\ FrameOK(g) /\ FrameOK(h)
                            /\ Fresh(g, f.d, f.i, p) /\ Fresh(h, q, 1, "status")
      BY <1>6
    <2>2. g.saw \in {0} \union Range(hist) /\ h.saw \in {0} \union Range(hist)
      BY <2>1, FreshSaw
    <2>3. Advances({g, h})
      BY <2>1, <2>2 DEF Advances
    <2> QED
      BY <2>3
  <1>7. \E S : Advances(S)
    BY <1>5, <1>6, NextAdvances, NothingAdvances
  <1>8. acked' \subseteq Range(hist)
    BY <1>3, <1>4, <1>5
  <1> QED
    BY <1>7, <1>8

(* Every action but Decide and the two that begin a call. *)
LEMMA OtherSteps ==
  ASSUME TypeInv, NEW t \in Threads, Continue(t), ~Decide(t)
  PROVE  (\E S : Advances(S)) /\ acked' \subseteq Range(hist) /\ hist' = hist /\ next' = next
  <1>1. acked \subseteq Range(hist)
    BY DEF TypeInv
  <1>2. CASE FlushDescriptor(t) \/ ReadStatus(t) \/ FlushStatus(t) \/ CleanStatus(t)
    BY <1>1, <1>2, StatusAdvances
       DEF FlushDescriptor, ReadStatus, FlushStatus, CleanStatus, history
  <1>3. CASE CondCAS(t)
    BY <1>1, <1>3, CondCASAdvances DEF CondCAS, history
  <1>4. CASE CondStatus(t) \/ CondRecheck(t) \/ ReadCondStatus(t) \/ FlushWord(t)
    BY <1>1, <1>4, CondAdvances DEF CondStatus, CondRecheck, ReadCondStatus, FlushWord, history
  <1>5. CASE InstallOverCond(t)
    BY <1>1, <1>5, InstallAdvances DEF InstallOverCond, history
  <1>6. CASE Precommit(t) \/ Swap(t)
    BY <1>1, <1>6, PrecommitAdvances DEF Precommit, Swap, history
  <1>7. CASE Load(t)
    BY <1>1, <1>7, LoadAdvances DEF Load
  <1>8. CASE CleanWord(t)
    BY <1>1, <1>8, CleanWordAdvances DEF CleanWord
  <1>9. CASE ReturnOwner(t)
    BY <1>1, <1>9, ReturnEffect, NothingAdvances DEF ReturnOwner
  <1>10. CASE ReturnHelper(t) \/ ReturnWithFailure(t)
    BY <1>1, <1>10, ReturnEffect, NothingAdvances DEF ReturnHelper, ReturnWithFailure, history
  <1> QED
    BY <1>2, <1>3, <1>4, <1>5, <1>6, <1>7, <1>8, <1>9, <1>10 DEF Continue

LEMMA MemTypeStep ==
  ASSUME TypeInv, NEW t \in Threads, Continue(t)
  PROVE  MemType'
  <1>1. MemType
    BY DEF TypeInv
  <1>2. PICK f : f = Top(t)
    OBVIOUS
  <1>3. CASE CondCAS(t)
    <2>1. PICK a : a = Addr(f)
      OBVIOUS
    <2>2. /\ f.d \in Descs /\ f.i \in DOMAIN words[f.d] /\ a \in Addresses
          /\ Store(a, CondPtr(f.d, f.i)) \/ UNCHANGED memVars
      BY <1>2, <1>3, <2>1, CondCASEffect
    <2>3. CondPtr(f.d, f.i) \in Words
      BY <2>2, StoredWords
    <2> QED
      BY <1>1, <2>2, <2>3, StoreType
  <1>4. CASE InstallOverCond(t)
    <2>1. f.pc = "install" /\ FrameOK(f) /\ CAS(Addr(f), f.ret, f.new)
      BY <1>2, <1>4, InstallEffect
    <2>2. Addr(f) \in Addresses /\ f.new \in Words
      BY <2>1, FrameKinds
    <2> QED
      BY <1>1, <2>1, <2>2, StoreType
  <1>5. CASE Swap(t)
    <2>1. PICK val : val = Flag(Final(f.d, f.i))
      OBVIOUS
    <2>2. /\ FrameOK(f) /\ val \in Words
          /\ \E x : CAS(Addr(f), x, val)
      BY <1>2, <1>5, <2>1, SwapEffect
    <2>3. Addr(f) \in Addresses
      BY <2>2, FrameKinds
    <2> QED
      BY <1>1, <2>2, <2>3, StoreType
  <1>6. CASE FlushWord(t)
    <2>1. FrameOK(f) /\ PersistAddress(Addr(f))
      BY <1>2, <1>6, FlushWordEffect DEF FlushWord
    <2>2. Addr(f) \in Addresses
      BY <2>1, FrameKinds
    <2>3. mem[Addr(f)] \in Words
      BY <1>1, <2>2 DEF MemType
    <2> QED
      BY <1>1, <2>1, <2>2, <2>3, StoreType
  <1>7. CASE CleanWord(t)
    <2>1. f.pc = "clean" /\ FrameOK(f) /\ CAS(Addr(f), f.ret, Clean(f.ret))
      BY <1>2, <1>7, CleanWordEffect
    <2>2. Addr(f) \in Addresses /\ f.ret \in Words
      BY <2>1, FrameKinds DEF DirtyPCs
    <2>3. Clean(f.ret) \in Words
      BY <2>2, CleanedWords
    <2> QED
      BY <1>1, <2>1, <2>2, <2>3, StoreType
  <1>8. CASE UNCHANGED memVars
    BY <1>1, <1>8 DEF MemType, memVars
  <1> QED
    BY <1>3, <1>4, <1>5, <1>6, <1>7, <1>8
       DEF Continue, FlushDescriptor, ReadStatus, FlushStatus, CleanStatus, CondStatus,
           CondRecheck, ReadCondStatus, Precommit, Decide, ReturnOwner, ReturnHelper,
           Load, ReturnWithFailure

LEMMA StatusTypeStep ==
  ASSUME TypeInv, NEW t \in Threads, Continue(t)
  PROVE  StatusType'
  <1>1. StatusType
    BY DEF TypeInv
  <1>2. PICK f : f = Top(t)
    OBVIOUS
  <1>3. CASE FlushDescriptor(t) \/ FlushStatus(t)
    <2>1. f.d \in Descs /\ PersistStatus(f.d)
      BY <1>2, <1>3, FlushDescriptorEffect, FlushStatusEffect DEF FlushDescriptor, FlushStatus
    <2>2. Status("Finished") \in [s : States, dirty : 0 .. 1]
      BY StatusForms DEF States
    <2> QED
      BY <1>1, <2>1, <2>2, StatusStoreType
  <1>4. CASE CleanStatus(t)
    <2>1. f.d \in Descs /\ StoreStatus(f.d, Clean(status[f.d]))
      BY <1>2, <1>4, CleanStatusEffect DEF CleanStatus
    <2>2. status[f.d] \in [s : States, dirty : 0 .. 1]
      BY <1>1, <2>1 DEF StatusType
    <2>3. Clean(status[f.d]) \in [s : States, dirty : 0 .. 1]
      BY <2>2, StatusForms
    <2> QED
      BY <1>1, <2>1, <2>3, StatusStoreType
  <1>5. CASE Decide(t)
    <2>1. f.d \in Descs /\ f.my_status \in {"Succeeded", "Failed"}
      BY <1>2, <1>5, DecideEffect
    <2>2. StoreStatus(f.d, Flag(Status(f.my_status))) \/ UNCHANGED statusVars
      BY <1>2, <1>5 DEF Decide
    <2>3. f.my_status \in States
      BY <2>1 DEF States
    <2>4. Flag(Status(f.my_status)) \in [s : States, dirty : 0 .. 1]
      BY <2>3, DecidedStatus
    <2> QED
      BY <1>1, <2>1, <2>2, <2>4, StatusStoreType
  <1>6. CASE UNCHANGED statusVars
    BY <1>1, <1>6 DEF StatusType, statusVars
  <1> QED
    BY <1>3, <1>4, <1>5, <1>6
       DEF Continue, ReadStatus, CondCAS, CondStatus, CondRecheck, ReadCondStatus,
           InstallOverCond, Precommit, Swap, ReturnOwner, ReturnHelper, Load, FlushWord,
           CleanWord, ReturnWithFailure

LEMMA DecideHistory ==
  ASSUME TypeInv, NEW t \in Threads, Decide(t)
  PROVE  /\ hist' \in Seq(Descs) /\ acked' = acked /\ next' = next
         /\ Lasts(hist)' /\ Range(hist) \subseteq Range(hist')
         /\ hist' = hist \/ Range(hist') = Range(hist) \union {Top(t).d}
  <1>1. hist \in Seq(Descs) /\ Lasts(hist)
    BY DEF TypeInv
  <1>2. PICK d : d = Top(t).d
    OBVIOUS
  <1>3. d \in Descs
    BY <1>2, DecideEffect
  <1>4. hist' = hist \/ hist' = Append(hist, d)
    BY <1>2 DEF Decide
  <1>5. Range(Append(hist, d)) = Range(hist) \union {d} /\ Append(hist, d) \in Seq(Descs)
    BY <1>1, <1>3, AppendRange
  <1>6. acked' = acked /\ next' = next
    BY DEF Decide
  <1>7. Lasts(hist)'
    <2>1. Lasts(Append(hist, d))
      BY <1>1, LastsAppend
    <2> QED
      BY <1>1, <1>4, <2>1 DEF Lasts
  <1> QED
    BY <1>1, <1>2, <1>4, <1>5, <1>6, <1>7

LEMMA TypeStep ==
  ASSUME TypeInv, NEW t \in Threads, Step(t)
  PROVE  TypeInv'
  <1>1. /\ MemType /\ StatusType /\ acked \subseteq Range(hist) /\ hist \in Seq(Descs)
        /\ build \in {"pmem", "volatile"} /\ next \in [Threads -> Nat \ {0}]
    BY DEF TypeInv
  <1>2. CASE BeginMwCAS(t)
    <2>1. PICK d : d = Script[t][next[t]].d
      OBVIOUS
    <2>2. PICK p : p = IF build = "pmem" THEN "flush" ELSE "status"
      OBVIOUS
    <2>3. d \in Descs /\ next' \in [Threads -> Nat \ {0}]
      BY <1>2, <2>1, BeginMwCASEffect
    <2>4. PICK g : Changed({g}) /\ FrameOK(g) /\ Fresh(g, d, 1, p)
      BY <1>2, <2>1, <2>2, BeginMwCASEffect
    <2>5. g.saw \in {0} \union Range(hist)
      BY <2>4, FreshSaw
    <2>6. /\ UNCHANGED memVars /\ build' = build /\ hist' = hist /\ acked' = acked
          /\ StoreStatus(d, Status("Undecided"))
      BY <1>2, <2>1 DEF BeginMwCAS, Begin, history
    <2>7. Status("Undecided") \in [s : States, dirty : 0 .. 1]
      BY StatusForms DEF States
    <2>8. StatusType'
      BY <1>1, <2>3, <2>6, <2>7, StatusStoreType
    <2>9. MemType'
      BY <1>1, <2>6 DEF MemType, memVars
    <2> QED
      BY <1>1, <2>3, <2>4, <2>5, <2>6, <2>8, <2>9, TypeKept
  <1>3. CASE BeginRead(t)
    <2>1. next' \in [Threads -> Nat \ {0}]
      BY <1>3, BeginReadEffect
    <2>2. PICK g : Changed({g}) /\ FrameOK(g) /\ Fresh(g, 0, g.i, "load")
      BY <1>3, BeginReadEffect
    <2>3. g.saw \in {0} \union Range(hist)
      BY <2>2, FreshSaw
    <2>4. /\ UNCHANGED <<memVars, statusVars>> /\ build' = build
          /\ hist' = hist /\ acked' = acked
      BY <1>3 DEF BeginRead, Begin, history
    <2>5. MemType' /\ StatusType'
      BY <1>1, <2>4 DEF MemType, StatusType, memVars, statusVars
    <2> QED
      BY <1>1, <2>1, <2>2, <2>3, <2>4, <2>5, TypeKept
  <1>4. CASE Continue(t) /\ build' = build /\ ~Decide(t)
    <2>1. PICK S : Advances(S)
      BY <1>4, OtherSteps
    <2>2. acked' \subseteq Range(hist) /\ hist' = hist /\ next' = next
      BY <1>4, OtherSteps
    <2>3. MemType' /\ StatusType'
      BY <1>4, MemTypeStep, StatusTypeStep
    <2> QED
      BY <1>4, <2>1, <2>2, <2>3, TypeKept DEF Advances
  <1>5. CASE Decide(t) /\ build' = build
    <2>1. Continue(t)
      BY <1>5 DEF Continue
    <2>2. MemType' /\ StatusType'
      BY <2>1, MemTypeStep, StatusTypeStep
    <2>3. PICK f : f = Top(t)
      OBVIOUS
    <2>4. PICK g : Changed({g}) /\ FrameOK(g) /\ Fresh(g, f.d, 1, AfterDecision)
      BY <1>5, <2>3, DecideEffect
    <2>5. g.saw = 0
      BY <2>4 DEF Fresh
    <2>6. /\ hist' \in Seq(Descs) /\ acked' = acked /\ next' = next
          /\ Lasts(hist)' /\ Range(hist) \subseteq Range(hist')
      BY <1>5, DecideHistory
    <2>7. /\ stack' \in [Threads -> Seq(Frame)]
          /\ \A u \in Threads : StackOK(stack'[u]) /\ SawOK(stack[u])'
      BY <2>4, <2>5, <2>6, StacksOK
    <2>8. \A u \in Threads : StackOK(stack[u])'
      BY <2>7 DEF StackOK
    <2>9. Range(hist)' = Range(hist')
      BY DEF Range
    <2> QED
      BY <1>1, <1>5, <2>2, <2>6, <2>7, <2>8, <2>9 DEF TypeInv
  <1> QED
    BY <1>2, <1>3, <1>4, <1>5 DEF Step

LEMMA TypeInit ==
  ASSUME OpInit
  PROVE  TypeInv
  <1>1. build \in {"pmem", "volatile"}
    BY ConstantsAssumption DEF OpInit
  <1>2. MemType
    <2>1. mem = [a \in Addresses |-> Val(InitValue[a])]
          /\ nvram = [a \in Addresses |-> {mem[a]}]
      BY DEF OpInit
    <2>2. mem \in [Addresses -> Words]
      BY <2>1, StoredWords
    <2> QED
      BY <2>1, <2>2 DEF MemType
  <1>3. StatusType
    <2>1. status \in [Descs -> [s : States, dirty : 0 .. 1]]
      BY StatusForms DEF OpInit, States
    <2>2. nvstatus \in [Descs -> SUBSET States]
      BY DEF OpInit, States
    <2> QED
      BY <2>1, <2>2 DEF StatusType
  <1>4. /\ stack = [t \in Threads |-> <<>>] /\ next = [t \in Threads |-> 1]
        /\ hist = <<>> /\ acked = {}
    BY DEF OpInit
  <1>5. \A t \in Threads : StackOK(stack[t]) /\ SawOK(stack[t])
    BY <1>4 DEF StackOK, SawOK
  <1>6. Lasts(hist)
    BY <1>4 DEF Lasts
  <1> QED
    BY <1>1, <1>2, <1>3, <1>4, <1>5, <1>6 DEF TypeInv

LEMMA TypeStutter ==
  ASSUME TypeInv, UNCHANGED opVars
  PROVE  TypeInv'
  <1>1. /\ build' = build /\ mem' = mem /\ nvram' = nvram /\ status' = status
        /\ nvstatus' = nvstatus /\ stack' = stack /\ next' = next /\ hist' = hist
        /\ acked' = acked
    BY DEF opVars, memVars, statusVars, history
  <1>2. MemType' /\ StatusType'
    BY <1>1 DEF MemType, StatusType, TypeInv
  <1>3. \A t \in Threads : StackOK(stack[t])' /\ SawOK(stack[t])'
    BY <1>1 DEF StackOK, SawOK, TypeInv
  <1>4. Lasts(hist)'
    BY <1>1 DEF Lasts, TypeInv
  <1> QED
    BY <1>1, <1>2, <1>3, <1>4 DEF TypeInv

LEMMA TypeInvOK ==
  ASSUME TypeInv
  PROVE  TypeOK
  <1>1. \A t \in Threads : \A k \in DOMAIN stack[t] :
          IF stack[t][k].d = 0 THEN k = 1 /\ stack[t][k].i \in Addresses
          ELSE stack[t][k].d \in Descs /\ stack[t][k].i \in DOMAIN words[stack[t][k].d]
    <2>1. SUFFICES ASSUME NEW t \in Threads, NEW k \in DOMAIN stack[t]
                   PROVE  IF stack[t][k].d = 0 THEN k = 1 /\ stack[t][k].i \in Addresses
                          ELSE /\ stack[t][k].d \in Descs
                               /\ stack[t][k].i \in DOMAIN words[stack[t][k].d]
      OBVIOUS
    <2>2. FrameOK(stack[t][k]) /\ (stack[t][k].d = 0 => k = 1)
      BY DEF TypeInv, StackOK
    <2> QED
      BY <2>2, FrameKinds
  <1>2. Range(hist) \subseteq Descs
    BY DEF TypeInv, Range
  <1> QED
    BY <1>1, <1>2 DEF TypeInv, TypeOK, MemType, StatusType

-----------------------------------------------------------------------------

(* The invariant *)

LEMMA OpInvInit ==
  ASSUME OpInit
  PROVE  OpInv
  <1>1. TypeInv
    BY TypeInit
  <1>2. /\ mem = [a \in Addresses |-> Val(InitValue[a])] /\ hist = <<>>
        /\ status = [d \in Descs |-> Status("Finished")]
        /\ stack = [t \in Threads |-> <<>>]
    BY DEF OpInit
  <1>3. StatusInv
    <2>1. \A d \in Descs : status[d] = Status("Finished") /\ status[d].s # "Succeeded"
      BY <1>2, StatusForms
    <2>2. Range(hist) = {}
      BY <1>2 DEF Range
    <2>3. \A u \in Threads : \A k \in DOMAIN Script[u] :
            Script[u][k].op = "mwcas" => Script[u][k].d \in Descs
      BY ScriptedDescs
    <2> QED
      BY <2>1, <2>2, <2>3 DEF StatusInv
  <1>4. MemInv
    <2>1. \A a \in Addresses : mem[a].tag = "val"
      BY <1>2, Forms
    <2>2. \A a \in Addresses : \A d : mem[a] # MwCASPtr(d)
      BY <2>1, Forms
    <2> QED
      BY <2>1, <2>2 DEF MemInv
  <1>5. FramesInv
    BY <1>2 DEF FramesInv, Range
  <1> QED
    BY <1>1, <1>3, <1>4, <1>5 DEF OpInv

LEMMA OpInvStutter ==
  ASSUME OpInv, UNCHANGED opVars
  PROVE  OpInv'
  <1>1. /\ build' = build /\ UNCHANGED memVars /\ status' = status /\ stack' = stack
        /\ next' = next /\ hist' = hist
    BY DEF opVars, statusVars, history
  <1>2. TypeInv /\ StatusInv /\ MemInv /\ FramesInv
    BY DEF OpInv
  <1>3. TypeInv'
    BY <1>2, TypeStutter
  <1>4. next \in [Threads -> Nat \ {0}] /\ stack \in [Threads -> Seq(Frame)]
    BY <1>2 DEF TypeInv
  <1>5. StatusInv'
    <2>1. \A u \in Threads : next'[u] >= next[u]
      BY <1>1, <1>4
    <2> QED
      BY <1>1, <1>2, <1>4, <2>1, StatusSame
  <1>6. Evolves /\ MemInv'
    BY <1>1, <1>2, NothingKeeps
  <1>7. Changed({})
    BY <1>1, <1>4 DEF Changed
  <1>8. FramesInv'
    BY <1>2, <1>6, <1>7, NothingContinues, FramesKept
  <1> QED
    BY <1>3, <1>5, <1>6, <1>8 DEF OpInv

LEMMA OpInvStep ==
  ASSUME OpInv, [OpNext]_opVars
  PROVE  OpInv'
  <1>1. CASE UNCHANGED opVars
    BY <1>1, OpInvStutter
  <1>2. ASSUME NEW t \in Threads, Step(t)
        PROVE  OpInv'
    <2>1. TypeInv /\ FramesInv
      BY DEF OpInv
    <2>2. TypeInv'
      BY <1>2, <2>1, TypeStep
    <2>3. StatusInv'
      BY <1>2, StatusStep
    <2>4. Evolves /\ MemInv' /\ Continues
      BY <1>2, StepKeeps DEF Keeps
    <2>5. FramesInv'
      BY <2>1, <2>4, FramesKept
    <2> QED
      BY <2>2, <2>3, <2>4, <2>5 DEF OpInv
  <1> QED
    BY <1>1, <1>2 DEF OpNext, Done

-----------------------------------------------------------------------------

(***************************************************************************)
(* Words, statuses and frames have the forms the code gives them, for any  *)
(* number of threads, descriptors and words: no loop of PersistentMwCAS    *)
(* leaves the words of its descriptor, no target word ever holds anything  *)
(* but a value or a pointer to a descriptor or word descriptor of the      *)
(* pool, and a read is only ever at the bottom of its thread's stack.      *)
(***************************************************************************)
THEOREM TypeCorrect == OpSpec => []TypeOK
  <1>1. OpInit => TypeInv
    BY TypeInit
  <1>2. TypeInv /\ [OpNext]_opVars => TypeInv'
    BY TypeStep, TypeStutter DEF OpNext, Done
  <1>3. TypeInv => TypeOK
    BY TypeInvOK
  <1> QED
    BY <1>1, <1>2, <1>3, PTL DEF OpSpec

(***************************************************************************)
(* PersistentMwCAS: "Need to persist all fields (which point to            *)
(* descriptors) before switching to final status".  For any number of      *)
(* threads, operations and words, with helpers, readers and calls that     *)
(* stop half way: whoever decides an operation as successful, NVRAM holds  *)
(* its pointer in all its target words at that moment.                     *)
(***************************************************************************)
THEOREM PersistedBeforeDecided == OpSpec => PersistBeforeDecide
  <1>1. OpInit => OpInv
    BY OpInvInit
  <1>2. OpInv /\ [OpNext]_opVars => OpInv'
    BY OpInvStep
  <1>3. ASSUME OpInv, NEW t \in Threads, Step(t), NEW d \in Descs, build = "pmem",
               status[d].s = "Undecided", status'[d].s = "Succeeded"
        PROVE  \A e \in Range(words[d]) :
                 nvram[e.address] \subseteq {MwCASPtr(d), Dirty(MwCASPtr(d))}
    <2>1. TypeInv /\ StatusInv /\ status \in [Descs -> [s : States, dirty : 0 .. 1]]
      BY <1>3 DEF OpInv, TypeInv, StatusType
    <2>2. PICK f : f = Top(t)
      OBVIOUS
    <2>3. Decide(t) /\ Undecided(f.d) /\ f.d = d /\ f.my_status = "Succeeded"
      <3>1. CASE status' = status
        BY <1>3, <3>1
      <3>2. CASE BeginMwCAS(t)
        <4>1. PICK c : c = Script[t][next[t]].d
          OBVIOUS
        <4>2. c \in Descs /\ status' = [status EXCEPT ![c] = Status("Undecided")]
          BY <2>1, <3>2, <4>1, BeginMwCASEffect DEF BeginMwCAS, StoreStatus
        <4>3. status'[d] = status[d] \/ status'[d] = Status("Undecided")
          BY <2>1, <4>2
        <4> QED
          BY <1>3, <4>3, StatusForms
      <3>3. CASE CleanStatus(t)
        <4>1. f.d \in Descs /\ status' = [status EXCEPT ![f.d] = Clean(status[f.d])]
          BY <2>1, <2>2, <3>3, CleanStatusEffect DEF CleanStatus, StoreStatus
        <4>2. status'[d] = status[d] \/ status'[d] = Clean(status[d])
          BY <2>1, <4>1
        <4>3. Clean(status[d]).s = status[d].s
          BY <2>1, StatusForms
        <4> QED
          BY <1>3, <4>2, <4>3
      <3>4. CASE Decide(t) /\ Undecided(f.d)
        <4>1. /\ f.d \in Descs /\ status'[f.d].s = f.my_status
              /\ status' = [status EXCEPT ![f.d] = Flag(Status(f.my_status))]
          BY <2>1, <2>2, <3>4, StatusDecided
        <4>2. f.d = d
          BY <1>3, <2>1, <4>1
        <4> QED
          BY <1>3, <3>4, <4>1, <4>2
      <3> QED
        BY <1>3, <2>2, <3>1, <3>2, <3>3, <3>4, StatusEffect
    <2>4. \A j \in DOMAIN words[d] : Persisted(d, j)
      BY <1>3, <2>2, <2>3, DecideFinds
    <2> QED
      BY <1>3, <2>4 DEF Persisted, Ptrs, Range
  <1>4. OpInv /\ [OpNext]_opVars =>
          [\A d \in Descs :
             build = "pmem" /\ status[d].s = "Undecided" /\ status'[d].s = "Succeeded" =>
               \A e \in Range(words[d]) :
                 nvram[e.address] \subseteq {MwCASPtr(d), Dirty(MwCASPtr(d))}]_opVars
    BY <1>3 DEF OpNext, Done
  <1> QED
    BY <1>1, <1>2, <1>4, PTL DEF OpSpec, PersistBeforeDecide

-----------------------------------------------------------------------------

(* Atomicity *)

LEMMA SinceOrder ==
  ASSUME NEW rank \in Ranks, NEW a \in Addresses, NEW u \in Int, NEW v \in Int, NEW w \in Int
  PROVE  /\ Since(rank, a, u, v) /\ Since(rank, a, v, w) => Since(rank, a, u, w)
         /\ Since(rank, a, u, v) /\ Since(rank, a, v, u) => u = v
  <1>1. rank[a] \in [Int -> Int]
    BY DEF Ranks
  <1>2. rank[a][u] \in Int /\ rank[a][v] \in Int /\ rank[a][w] \in Int
    BY <1>1
  <1> QED
    BY <1>2 DEF Since

(* What word x at address a stands for when the statuses are st. *)
Means(x, st, a) ==
  CASE x.tag = "val" -> x.v
    [] x.tag = "cond" -> words[x.d][x.i].old
    [] x.tag = "mwcas" ->
         IF st[x.d].s = "Succeeded" THEN EntryAt(x.d, a).new ELSE EntryAt(x.d, a).old

LEMMA LogicalMeans ==
  ASSUME NEW a
  PROVE  Logical(a) = Means(mem[a], status, a) /\ Logical(a)' = Means(mem'[a], status', a)
  BY DEF Logical, Means, EntryAt

LEMMA ValueMeanings ==
  ASSUME NEW st, NEW d, NEW i, NEW a
  PROVE  /\ Means(Old(d, i), st, a) = words[d][i].old
         /\ Means(New(d, i), st, a) = words[d][i].new
         /\ Means(Dirty(Old(d, i)), st, a) = words[d][i].old
         /\ Means(Dirty(New(d, i)), st, a) = words[d][i].new
  <1>1. \A x : x.tag = "val" => Means(x, st, a) = x.v
    BY DEF Means
  <1> QED
    BY <1>1, Forms DEF Old, New

LEMMA CondMeaning ==
  ASSUME NEW st, NEW d, NEW i, NEW a
  PROVE  Means(CondPtr(d, i), st, a) = words[d][i].old
  BY CondFields DEF Means

(* A pointer stands for the old or for the new value of its descriptor. *)
LEMMA PtrMeaning ==
  ASSUME NEW st, NEW d \in Descs, NEW i \in DOMAIN words[d], NEW a,
         a = words[d][i].address, NEW x \in Ptrs(d)
  PROVE  Means(x, st, a) =
           IF st[d].s = "Succeeded" THEN words[d][i].new ELSE words[d][i].old
  <1>1. EntryAt(d, a) = words[d][i]
    BY EntryOf DEF EntryAt
  <1>2. x.tag = "mwcas" /\ x.d = d
    BY PtrForms
  <1> QED
    BY <1>1, <1>2 DEF Means

LEMMA SameMeaning ==
  ASSUME NEW st, NEW su, NEW d \in Descs, NEW i \in DOMAIN words[d], NEW a,
         words[d][i].address = a, NEW x, x = CondPtr(d, i) \/ x \in Ptrs(d),
         su[d].s = "Succeeded" <=> st[d].s = "Succeeded"
  PROVE  Means(x, su, a) = Means(x, st, a)
  <1>1. CASE x = CondPtr(d, i)
    BY <1>1, CondMeaning
  <1>2. CASE x \in Ptrs(d)
    <2>1. PICK old, new : old = words[d][i].old /\ new = words[d][i].new
      OBVIOUS
    <2>2. /\ Means(x, st, a) = IF st[d].s = "Succeeded" THEN new ELSE old
          /\ Means(x, su, a) = IF su[d].s = "Succeeded" THEN new ELSE old
      BY <1>2, <2>1, PtrMeaning
    <2> QED
      BY <2>2
  <1> QED
    BY <1>1, <1>2

(* The forms of a word in memory, with what they stand for. *)
LEMMA MemForms ==
  ASSUME TypeInv, MemInv, NEW a \in Addresses
  PROVE  \/ mem[a].tag = "val" /\ mem[a].v \in Int
         \/ \E d \in Descs : \E i \in DOMAIN words[d] :
              words[d][i].address = a /\ Active(d) /\
              (mem[a] = CondPtr(d, i) \/ mem[a] \in Ptrs(d))
  <1>1. mem[a] \in Words
    BY DEF TypeInv, MemType
  <1>2. WordForm(mem[a])
    BY <1>1, WordsHaveForm
  <1>3. CASE mem[a].tag = "cond"
    BY <1>2, <1>3, Forms DEF WordForm, MemInv
  <1>4. CASE mem[a].tag = "mwcas"
    <2>1. mem[a].d \in Descs /\ mem[a] \in Ptrs(mem[a].d)
      BY <1>1, <1>4, MwCASForm
    <2>2. Targets(mem[a].d, a) /\ Active(mem[a].d)
      BY <1>4 DEF MemInv
    <2> QED
      BY <2>1, <2>2 DEF Targets
  <1> QED
    BY <1>2, <1>3, <1>4 DEF WordForm

LEMMA LogicalInt ==
  ASSUME TypeInv, MemInv, NEW a \in Addresses
  PROVE  Logical(a) \in Int
  <1>1. CASE mem[a].tag = "val" /\ mem[a].v \in Int
    BY <1>1 DEF Logical
  <1>2. ASSUME NEW d \in Descs, NEW i \in DOMAIN words[d], words[d][i].address = a,
               mem[a] = CondPtr(d, i) \/ mem[a] \in Ptrs(d)
        PROVE  Logical(a) \in Int
    <2>1. words[d][i].old \in Int /\ words[d][i].new \in Int
      BY WordsFacts
    <2>2. Means(mem[a], status, a) \in {words[d][i].old, words[d][i].new}
      <3>1. CASE mem[a] = CondPtr(d, i)
        BY <3>1, CondMeaning
      <3>2. CASE mem[a] \in Ptrs(d)
        BY <1>2, <3>2, PtrMeaning
      <3> QED
        BY <1>2, <3>1, <3>2
    <2> QED
      BY <2>1, <2>2, LogicalMeans
  <1> QED
    BY <1>1, <1>2, MemForms

(* Steps that leave memory alone and decide nothing. *)
LEMMA LogicalSame ==
  ASSUME TypeInv, MemInv, mem' = mem,
         \A d \in Descs : Active(d) => status'[d].s = status[d].s,
         NEW a \in Addresses
  PROVE  Logical(a)' = Logical(a)
  <1>1. CASE mem[a].tag = "val"
    BY <1>1 DEF Logical
  <1>2. ASSUME NEW d \in Descs, NEW i \in DOMAIN words[d], words[d][i].address = a,
               Active(d), mem[a] = CondPtr(d, i) \/ mem[a] \in Ptrs(d)
        PROVE  Logical(a)' = Logical(a)
    <2>1. status'[d].s = status[d].s
      BY <1>2
    <2>2. Means(mem[a], status', a) = Means(mem[a], status, a)
      BY <1>2, <2>1, SameMeaning
    <2> QED
      BY <2>2, LogicalMeans
  <1> QED
    BY <1>1, <1>2, MemForms

(* A store of a word that stands for the same value. *)
LEMMA LogicalStored ==
  ASSUME TypeInv, status' = status, NEW b \in Addresses, NEW x, Store(b, x),
         Means(x, status, b) = Means(mem[b], status, b), NEW a \in Addresses
  PROVE  Logical(a)' = Logical(a)
  <1>1. mem' = [mem EXCEPT ![b] = x] /\ mem \in [Addresses -> Words]
    BY DEF Store, TypeInv, MemType
  <1>2. mem'[a] = IF a = b THEN x ELSE mem[a]
    BY <1>1
  <1> QED
    BY <1>2, LogicalMeans

(* No step but a decision changes what a word stands for. *)
LEMMA CondCASLogical ==
  ASSUME OpInv, NEW t \in Threads, CondCAS(t), NEW a \in Addresses
  PROVE  Logical(a)' = Logical(a)
  <1>1. TypeInv /\ MemInv /\ status' = status
    BY DEF OpInv, CondCAS, statusVars
  <1>2. PICK f : f = Top(t)
    OBVIOUS
  <1>3. PICK b : b = Addr(f)
    OBVIOUS
  <1>4. /\ f.d \in Descs /\ f.i \in DOMAIN words[f.d] /\ b = words[f.d][f.i].address
        /\ b \in Addresses
        /\ \/ mem[b] = Old(f.d, f.i) /\ Store(b, CondPtr(f.d, f.i))
           \/ UNCHANGED memVars
    BY <1>1, <1>2, <1>3, CondCASEffect
  <1>5. CASE mem[b] = Old(f.d, f.i) /\ Store(b, CondPtr(f.d, f.i))
    <2>1. Means(CondPtr(f.d, f.i), status, b) = Means(mem[b], status, b)
      <3>1. Means(CondPtr(f.d, f.i), status, b) = words[f.d][f.i].old
        BY CondMeaning
      <3>2. Means(Old(f.d, f.i), status, b) = words[f.d][f.i].old
        BY ValueMeanings
      <3> QED
        BY <1>5, <3>1, <3>2
    <2> QED
      BY <1>1, <1>4, <1>5, <2>1, LogicalStored
  <1>6. CASE UNCHANGED memVars
    BY <1>1, <1>6, LogicalSame DEF memVars
  <1> QED
    BY <1>4, <1>5, <1>6

LEMMA InstallLogical ==
  ASSUME NEW rank \in Ranks, Raises(rank), OpInv, RaisedInv(rank),
         NEW t \in Threads, InstallOverCond(t), NEW a \in Addresses
  PROVE  Logical(a)' = Logical(a)
  <1>1. TypeInv /\ MemInv /\ status' = status
    BY DEF OpInv, InstallOverCond, statusVars
  <1>2. PICK f : f = Top(t)
    OBVIOUS
  <1>3. stack[t] # <<>> /\ f.pc = "install" /\ CAS(Addr(f), f.ret, f.new)
    BY <1>1, <1>2, InstallEffect DEF InstallOverCond, At
  <1>4. FrameOK(f) /\ PointerInv(f)
    BY <1>2, <1>3, Here DEF FrameInv
  <1>5. Addr(f) \in Addresses /\ f.ret \in Words /\ f.ret.tag = "cond"
    BY <1>3, <1>4, FrameKinds DEF CondPCs
  <1>6. PICK b, d, i : b = Addr(f) /\ d = f.ret.d /\ i = f.ret.i
    OBVIOUS
  <1>7. d \in Descs /\ i \in DOMAIN words[d] /\ f.ret = CondPtr(d, i)
    BY <1>5, <1>6, CondForm
  <1>8. /\ b = words[d][i].address
        /\ f.new = Flag(MwCASPtr(d)) \/ f.new = Old(d, i)
    BY <1>3, <1>4, <1>6 DEF PointerInv, CondPCs
  <1>9. CASE mem[b] # f.ret
    BY <1>1, <1>3, <1>6, <1>9, LogicalSame DEF CAS, memVars
  <1>10. CASE mem[b] = f.ret
    <2>1. Store(b, f.new)
      BY <1>3, <1>6, <1>10 DEF CAS
    <2>2. Means(mem[b], status, b) = words[d][i].old
      BY <1>7, <1>10, CondMeaning
    <2>3. CASE f.new = Old(d, i)
      <3>1. Means(f.new, status, b) = words[d][i].old
        BY <2>3, ValueMeanings
      <3> QED
        BY <1>1, <1>5, <1>6, <2>1, <2>2, <3>1, LogicalStored
    <2>4. CASE f.new = Flag(MwCASPtr(d))
      <3>1. f.new \in Ptrs(d)
        BY <1>7, <2>4, FlaggedPtr
      <3>2. Means(f.new, status, b) =
              IF status[d].s = "Succeeded" THEN words[d][i].new ELSE words[d][i].old
        BY <1>7, <1>8, <3>1, PtrMeaning
      <3>3. ASSUME status[d].s = "Succeeded"
            PROVE  words[d][i].new = words[d][i].old
        <4>1. Since(rank, b, Logical(b), words[d][i].new)
          BY <1>7, <1>8, <3>3 DEF RaisedInv
        <4>2. Logical(b) = words[d][i].old
          BY <2>2, LogicalMeans
        <4>3. Since(rank, b, words[d][i].new, words[d][i].old)
          BY <1>7, <1>8 DEF Raises
        <4>4. words[d][i].old \in Int /\ words[d][i].new \in Int
          BY <1>7, WordsFacts
        <4>5. Since(rank, b, words[d][i].old, words[d][i].new)
          BY <4>1, <4>2
        <4>6. b \in Addresses
          BY <1>5, <1>6
        <4> QED
          BY <4>3, <4>4, <4>5, <4>6, SinceOrder
      <3>4. Means(f.new, status, b) = Means(mem[b], status, b)
        BY <2>2, <3>2, <3>3
      <3> QED
        BY <1>1, <1>5, <1>6, <2>1, <3>4, LogicalStored
    <2> QED
      BY <1>8, <2>3, <2>4
  <1> QED
    BY <1>9, <1>10

LEMMA SwapLogical ==
  ASSUME OpInv, NEW t \in Threads, Swap(t), NEW a \in Addresses
  PROVE  Logical(a)' = Logical(a)
  <1>1. TypeInv /\ MemInv /\ status' = status /\ build \in {"pmem", "volatile"}
    BY DEF OpInv, TypeInv, Swap, statusVars
  <1>2. PICK f : f = Top(t)
    OBVIOUS
  <1>3. PICK val, x, b : /\ val = Flag(Final(f.d, f.i)) /\ b = Addr(f)
                         /\ x = IF f.pc = "swap" THEN Flag(MwCASPtr(f.d)) ELSE MwCASPtr(f.d)
    OBVIOUS
  <1>4. FrameOK(f) /\ f.d \in Descs /\ f.d # 0 /\ CAS(b, x, val)
    BY <1>1, <1>2, <1>3, SwapEffect
  <1>5. f.i \in DOMAIN words[f.d] /\ b = words[f.d][f.i].address /\ b \in Addresses
    BY <1>3, <1>4, FrameKinds
  <1>6. CASE mem[b] # x
    BY <1>1, <1>4, <1>6, LogicalSame DEF CAS, memVars
  <1>7. CASE mem[b] = x
    <2>1. Store(b, val)
      BY <1>4, <1>7 DEF CAS
    <2>2. x \in Ptrs(f.d)
      BY <1>3, <1>4, FlaggedPtr DEF Ptrs
    <2>3. val \in {Final(f.d, f.i), Dirty(Final(f.d, f.i))}
      BY <1>3 DEF Flag
    <2>4. Means(val, status, b) =
            IF status[f.d].s = "Succeeded" THEN words[f.d][f.i].new ELSE words[f.d][f.i].old
      <3>1. /\ Means(Old(f.d, f.i), status, b) = words[f.d][f.i].old
            /\ Means(Dirty(Old(f.d, f.i)), status, b) = words[f.d][f.i].old
            /\ Means(New(f.d, f.i), status, b) = words[f.d][f.i].new
            /\ Means(Dirty(New(f.d, f.i)), status, b) = words[f.d][f.i].new
        <4>1. PICK d, i : d = f.d /\ i = f.i
          OBVIOUS
        <4>2. /\ Means(Old(d, i), status, b) = words[d][i].old
              /\ Means(Dirty(Old(d, i)), status, b) = words[d][i].old
              /\ Means(New(d, i), status, b) = words[d][i].new
              /\ Means(Dirty(New(d, i)), status, b) = words[d][i].new
          BY ValueMeanings
        <4> QED
          BY <4>1, <4>2
      <3> QED
        BY <2>3, <3>1 DEF Final
    <2>5. Means(val, status, b) = Means(mem[b], status, b)
      <3>1. Means(x, status, b) =
              IF status[f.d].s = "Succeeded" THEN words[f.d][f.i].new ELSE words[f.d][f.i].old
        <4>1. PICK d, i : d = f.d /\ i = f.i
          OBVIOUS
        <4>2. d \in Descs /\ i \in DOMAIN words[d] /\ b = words[d][i].address /\ x \in Ptrs(d)
          BY <1>4, <1>5, <2>2, <4>1
        <4>3. Means(x, status, b) =
                IF status[d].s = "Succeeded" THEN words[d][i].new ELSE words[d][i].old
          BY <4>2, PtrMeaning
        <4> QED
          BY <4>1, <4>3
      <3> QED
        BY <1>7, <2>4, <3>1
    <2> QED
      BY <1>1, <1>5, <2>1, <2>5, LogicalStored
  <1> QED
    BY <1>6, <1>7

LEMMA CleanWordLogical ==
  ASSUME OpInv, NEW t \in Threads, CleanWord(t), NEW a \in Addresses
  PROVE  Logical(a)' = Logical(a)
  <1>1. TypeInv /\ MemInv /\ status' = status
    BY DEF OpInv, CleanWord, statusVars
  <1>2. PICK f : f = Top(t)
    OBVIOUS
  <1>3. PICK b : b = Addr(f)
    OBVIOUS
  <1>4. f.pc = "clean" /\ FrameOK(f) /\ CAS(b, f.ret, Clean(f.ret))
    BY <1>1, <1>2, <1>3, CleanWordEffect
  <1>5. b \in Addresses /\ f.ret \in Words /\ IsDirty(f.ret)
    BY <1>3, <1>4, FrameKinds DEF DirtyPCs
  <1>6. CASE mem[b] # f.ret
    BY <1>1, <1>4, <1>6, LogicalSame DEF CAS, memVars
  <1>7. CASE mem[b] = f.ret
    <2>1. Store(b, Clean(f.ret))
      BY <1>4, <1>7 DEF CAS
    <2>2. Means(Clean(f.ret), status, b) = Means(f.ret, status, b)
      <3>1. CASE f.ret.tag = "val"
        <4>1. Clean(f.ret).tag = "val" /\ Clean(f.ret).v = f.ret.v
          BY <1>5, <3>1, DirtyForm, Forms
        <4> QED
          BY <3>1, <4>1 DEF Means
      <3>2. CASE f.ret.tag = "mwcas"
        <4>1. Clean(f.ret).tag = "mwcas" /\ Clean(f.ret).d = f.ret.d
          BY <1>5, <3>2, DirtyForm, Forms
        <4> QED
          BY <3>2, <4>1 DEF Means
      <3> QED
        BY <1>5, <3>1, <3>2, DirtyForm
    <2> QED
      BY <1>1, <1>5, <1>7, <2>1, <2>2, LogicalStored
  <1> QED
    BY <1>6, <1>7

(* Neither does what happens to statuses outside a decision. *)
Deciding(t) == Decide(t) /\ Undecided(Top(t).d)

LEMMA QuietStatus ==
  ASSUME OpInv, NEW t \in Threads, Step(t), ~Deciding(t), NEW d \in Descs
  PROVE  /\ Active(d) => status'[d].s = status[d].s
         /\ ~Active(d) => status'[d].s \in {"Finished", "Undecided"}
  <1>1. TypeInv /\ StatusInv /\ status \in [Descs -> [s : States, dirty : 0 .. 1]]
    BY DEF OpInv, TypeInv, StatusType
  <1>2. CASE status' = status
    BY <1>2 DEF Active
  <1>3. CASE BeginMwCAS(t)
    <2>1. PICK c : c = Script[t][next[t]].d
      OBVIOUS
    <2>2. /\ c \in Descs /\ status' = [status EXCEPT ![c] = Status("Undecided")]
          /\ next[t] \in DOMAIN Script[t] /\ Script[t][next[t]].op = "mwcas"
      BY <1>1, <1>3, <2>1, BeginMwCASEffect DEF BeginMwCAS, StoreStatus
    <2>3. status[c] = Status("Finished")
      <3>1. next[t] \in Nat
        BY <2>2, ScriptedDescs
      <3> QED
        <4>1. PICK k : k = next[t]
          OBVIOUS
        <4>2. k \in DOMAIN Script[t] /\ Script[t][k].op = "mwcas" /\ k >= next[t]
          BY <2>2, <3>1, <4>1
        <4>3. status[Script[t][k].d] = Status("Finished")
          BY <1>1, <4>2 DEF StatusInv
        <4> QED
          BY <2>1, <4>1, <4>3
    <2>4. ~Active(c) /\ status'[c] = Status("Undecided")
      BY <1>1, <2>2, <2>3, StatusForms DEF Active
    <2>5. d # c => status'[d] = status[d]
      BY <1>1, <2>2
    <2> QED
      BY <2>4, <2>5, StatusForms DEF Active
  <1>4. CASE CleanStatus(t)
    <2>1. PICK c : c = Top(t).d
      OBVIOUS
    <2>2. c \in Descs /\ status' = [status EXCEPT ![c] = Clean(status[c])]
      BY <1>1, <1>4, <2>1, CleanStatusEffect DEF CleanStatus, StoreStatus
    <2>3. status'[d] \in {status[d], Clean(status[d])}
      BY <1>1, <2>2
    <2>4. Clean(status[d]).s = status[d].s
      BY <1>1, StatusForms
    <2> QED
      BY <2>3, <2>4 DEF Active
  <1> QED
    BY <1>2, <1>3, <1>4, StatusEffect DEF Deciding

LEMMA QuietStep ==
  ASSUME NEW rank \in Ranks, Raises(rank), OpInv, RaisedInv(rank),
         NEW t \in Threads, Step(t), ~Deciding(t), NEW a \in Addresses
  PROVE  Logical(a)' = Logical(a)
  <1>1. TypeInv /\ MemInv
    BY DEF OpInv
  <1>2. CASE mem' = mem
    BY <1>1, <1>2, QuietStatus, LogicalSame
  <1>3. CASE CondCAS(t) \/ InstallOverCond(t) \/ Swap(t) \/ CleanWord(t)
    BY <1>3, CondCASLogical, InstallLogical, SwapLogical, CleanWordLogical
  <1>4. CASE BeginMwCAS(t) \/ BeginRead(t) \/ ReadStatus(t) \/ FlushDescriptor(t)
    BY <1>2, <1>4 DEF BeginMwCAS, BeginRead, ReadStatus, FlushDescriptor, memVars
  <1>5. CASE FlushStatus(t) \/ CleanStatus(t) \/ CondStatus(t) \/ CondRecheck(t)
    BY <1>2, <1>5 DEF FlushStatus, CleanStatus, CondStatus, CondRecheck, memVars
  <1>6. CASE ReadCondStatus(t) \/ Precommit(t) \/ Decide(t) \/ FlushWord(t) \/ Load(t)
    BY <1>2, <1>6 DEF ReadCondStatus, Precommit, Decide, FlushWord, PersistAddress, Load,
                      memVars
  <1>7. CASE ReturnOwner(t) \/ ReturnHelper(t) \/ ReturnWithFailure(t)
    BY <1>2, <1>7 DEF ReturnOwner, ReturnHelper, ReturnWithFailure, memVars
  <1> QED
    BY <1>3, <1>4, <1>5, <1>6, <1>7 DEF Step, Continue

(* A decision changes the words of its operation, all of them, or none. *)
LEMMA DecidedOnly ==
  ASSUME OpInv, NEW t \in Threads, Deciding(t), NEW f, f = Top(t)
  PROVE  /\ f.d \in Descs /\ f.my_status \in {"Succeeded", "Failed"}
         /\ status[f.d].s = "Undecided" /\ status'[f.d].s = f.my_status
         /\ \A d \in Descs : d # f.d => status'[d] = status[d]
  <1>1. TypeInv /\ StatusInv /\ status \in [Descs -> [s : States, dirty : 0 .. 1]]
    BY DEF OpInv, TypeInv, StatusType
  <1>2. Decide(t) /\ Undecided(f.d)
    BY DEF Deciding
  <1>3. /\ f.d \in Descs /\ f.my_status \in {"Succeeded", "Failed"}
        /\ status' = [status EXCEPT ![f.d] = Flag(Status(f.my_status))]
        /\ status'[f.d].s = f.my_status
    BY <1>1, <1>2, StatusDecided
  <1>4. \A d \in Descs : d # f.d => status'[d] = status[d]
    BY <1>1, <1>3
  <1> QED
    BY <1>2, <1>3, <1>4, StatusForms DEF Undecided

LEMMA DecidedElsewhere ==
  ASSUME OpInv, NEW t \in Threads, Deciding(t), NEW f, f = Top(t), NEW a \in Addresses,
         f.my_status = "Failed" \/ ~Targets(f.d, a)
  PROVE  Logical(a)' = Logical(a)
  <1>1. TypeInv /\ MemInv /\ mem' = mem
    BY DEF OpInv, Deciding, Decide, memVars
  <1>2. CASE mem[a].tag = "val"
    BY <1>1, <1>2 DEF Logical
  <1>3. ASSUME NEW d \in Descs, NEW i \in DOMAIN words[d], words[d][i].address = a,
               mem[a] = CondPtr(d, i) \/ mem[a] \in Ptrs(d)
        PROVE  Logical(a)' = Logical(a)
    <2>1. status'[d].s = "Succeeded" <=> status[d].s = "Succeeded"
      <3>1. d = f.d => f.my_status = "Failed"
        BY <1>3 DEF Targets
      <3> QED
        BY <3>1, DecidedOnly
    <2>2. Means(mem[a], status', a) = Means(mem[a], status, a)
      <3>1. PICK x, su : x = mem[a] /\ su = status'
        OBVIOUS
      <3>2. /\ x = CondPtr(d, i) \/ x \in Ptrs(d)
            /\ su[d].s = "Succeeded" <=> status[d].s = "Succeeded"
        BY <1>3, <2>1, <3>1
      <3>3. Means(x, su, a) = Means(x, status, a)
        BY <1>3, <3>2, SameMeaning
      <3> QED
        BY <3>1, <3>3
    <2> QED
      BY <1>1, <2>2, LogicalMeans
  <1> QED
    BY <1>1, <1>2, <1>3, MemForms

LEMMA DecidedWords ==
  ASSUME OpInv, NEW t \in Threads, Deciding(t), NEW f, f = Top(t),
         f.my_status = "Succeeded", NEW i \in DOMAIN words[f.d], NEW a,
         a = words[f.d][i].address
  PROVE  Logical(a) = words[f.d][i].old /\ Logical(a)' = words[f.d][i].new
  <1>1. f.d \in Descs /\ status[f.d].s = "Undecided" /\ status'[f.d].s = "Succeeded"
    BY DecidedOnly
  <1>2. Decide(t) /\ Undecided(f.d) /\ mem' = mem
    BY DEF Deciding, Decide, memVars
  <1>3. mem[a] \in Ptrs(f.d)
    BY <1>2, DecideFinds DEF Installed
  <1>4. Logical(a) = Means(mem[a], status, a) /\ Logical(a)' = Means(mem[a], status', a)
    BY <1>2, LogicalMeans
  <1>5. PICK d, su : d = f.d /\ su = status'
    OBVIOUS
  <1>6. d \in Descs /\ status[d].s = "Undecided" /\ su[d].s = "Succeeded"
    BY <1>1, <1>5
  <1>7. i \in DOMAIN words[d] /\ a = words[d][i].address /\ mem[a] \in Ptrs(d)
    BY <1>3, <1>5
  <1>8. Means(mem[a], status, a) = words[d][i].old
    BY <1>6, <1>7, PtrMeaning
  <1>9. Means(mem[a], su, a) = words[d][i].new
    BY <1>6, <1>7, PtrMeaning
  <1> QED
    BY <1>4, <1>5, <1>8, <1>9

LEMMA DecidedSince ==
  ASSUME NEW rank \in Ranks, Raises(rank), OpInv, NEW t \in Threads, Deciding(t),
         NEW a \in Addresses
  PROVE  Since(rank, a, Logical(a)', Logical(a))
  <1>1. PICK f : f = Top(t)
    OBVIOUS
  <1>2. CASE f.my_status = "Failed" \/ ~Targets(f.d, a)
    BY <1>1, <1>2, DecidedElsewhere DEF Since
  <1>3. ASSUME NEW i \in DOMAIN words[f.d], words[f.d][i].address = a,
               f.my_status = "Succeeded"
        PROVE  Since(rank, a, Logical(a)', Logical(a))
    <2>1. Logical(a) = words[f.d][i].old /\ Logical(a)' = words[f.d][i].new
      BY <1>1, <1>3, DecidedWords
    <2>2. f.d \in Descs
      BY <1>1, DecidedOnly
    <2> QED
      BY <1>3, <2>1, <2>2 DEF Raises
  <1>4. f.my_status \in {"Succeeded", "Failed"}
    BY <1>1, DecidedOnly
  <1> QED
    BY <1>2, <1>3, <1>4 DEF Targets

LEMMA RaisedInit ==
  ASSUME NEW rank, OpInit
  PROVE  RaisedInv(rank)
  <1>1. \A d \in Descs : status[d] = Status("Finished")
    BY DEF OpInit
  <1> QED
    BY <1>1, StatusForms DEF RaisedInv

LEMMA RaisedStep ==
  ASSUME NEW rank \in Ranks, Raises(rank), OpInv, RaisedInv(rank), OpInv',
         NEW t \in Threads, Step(t)
  PROVE  RaisedInv(rank)'
  <1> SUFFICES ASSUME NEW d \in Descs, status'[d].s = "Succeeded",
                      NEW i \in DOMAIN words[d], NEW a, a = words[d][i].address
               PROVE  Since(rank, a, Logical(a)', words[d][i].new)
    BY DEF RaisedInv
  <1>1. a \in Addresses /\ words[d][i].new \in Int
    BY WordsFacts
  <1>2. TypeInv /\ MemInv
    BY DEF OpInv
  <1>3. CASE ~Deciding(t)
    <2>1. status[d].s = "Succeeded"
      BY <1>3, QuietStatus
    <2>2. Logical(a)' = Logical(a)
      BY <1>1, <1>3, QuietStep
    <2> QED
      BY <2>1, <2>2 DEF RaisedInv
  <1>4. CASE Deciding(t)
    <2>1. PICK f : f = Top(t)
      OBVIOUS
    <2>2. CASE d = f.d
      <3>1. f.my_status = "Succeeded"
        BY <1>4, <2>1, <2>2, DecidedOnly
      <3> QED
        BY <1>4, <2>1, <2>2, <3>1, DecidedWords DEF Since
    <2>3. CASE d # f.d
      <3>1. status[d].s = "Succeeded"
        BY <1>4, <2>1, <2>3, DecidedOnly
      <3>2. Since(rank, a, Logical(a), words[d][i].new)
        BY <3>1 DEF RaisedInv
      <3>3. Since(rank, a, Logical(a)', Logical(a))
        BY <1>1, <1>4, DecidedSince
      <3>4. Logical(a) \in Int
        BY <1>1, <1>2, LogicalInt
      <3>5. Logical(a)' \in Int
        <4>1. \/ Logical(a)' = Logical(a)
              \/ \E j \in DOMAIN words[f.d] : f.d \in Descs /\ Logical(a)' = words[f.d][j].new
          BY <1>1, <1>4, <2>1, DecidedElsewhere, DecidedWords, DecidedOnly DEF Targets
        <4> QED
          BY <3>4, <4>1, WordsFacts
      <3> QED
        BY <1>1, <3>2, <3>3, <3>4, <3>5, SinceOrder
    <2> QED
      BY <2>2, <2>3
  <1> QED
    BY <1>3, <1>4

LEMMA RaisedStutter ==
  ASSUME NEW rank, RaisedInv(rank), UNCHANGED opVars
  PROVE  RaisedInv(rank)'
  <1>1. mem' = mem /\ status' = status
    BY DEF opVars, memVars, statusVars
  <1>2. \A a : Logical(a)' = Logical(a)
    BY <1>1, LogicalMeans
  <1> QED
    BY <1>1, <1>2 DEF RaisedInv

-----------------------------------------------------------------------------

(* The refinement *)

Outcome(d) == IF status[d].s \in {"Succeeded", "Failed"} THEN status[d].s ELSE "pending"

LEMMA AtomicInit ==
  ASSUME OpInit
  PROVE  Atomic!Init
  <1>1. /\ mem = [a \in Addresses |-> Val(InitValue[a])]
        /\ status = [d \in Descs |-> Status("Finished")]
    BY DEF OpInit
  <1>2. \A a \in Addresses : Logical(a) = InitValue[a]
    BY <1>1, Forms DEF Logical
  <1>3. \A d \in Descs : status[d].s = "Finished"
    BY <1>1, StatusForms
  <1> QED
    BY <1>2, <1>3 DEF Atomic!Init

(* Two ways to take a step of the abstract specification, or none. *)
LEMMA AtomicQuiet ==
  ASSUME \A a \in Addresses : Logical(a)' = Logical(a),
         \A d \in Descs : Outcome(d)' = Outcome(d)
  PROVE  UNCHANGED <<[a \in Addresses |-> Logical(a)],
                     [d \in Descs |-> IF status[d].s \in {"Succeeded", "Failed"}
                                      THEN status[d].s ELSE "pending"]>>
  BY DEF Outcome

LEMMA AtomicFail ==
  ASSUME NEW c \in Descs, Outcome(c) = "pending", Outcome(c)' = "Failed",
         \A d \in Descs \ {c} : Outcome(d)' = Outcome(d),
         \A a \in Addresses : Logical(a)' = Logical(a)
  PROVE  Atomic!Fail(c)
  BY DEF Atomic!Fail, Outcome

LEMMA AtomicSucceed ==
  ASSUME NEW c \in Descs, Outcome(c) = "pending", Outcome(c)' = "Succeeded",
         \A d \in Descs \ {c} : Outcome(d)' = Outcome(d),
         \A i \in DOMAIN words[c] :
           /\ Logical(words[c][i].address) = words[c][i].old
           /\ Logical(words[c][i].address)' = words[c][i].new,
         \A a \in Addresses : ~Targets(c, a) => Logical(a)' = Logical(a)
  PROVE  Atomic!Succeed(c)
  <1>1. Atomic!Entry(c) = Range(words[c])
    BY DEF Atomic!Entry, Range
  <1>2. \A i \in DOMAIN words[c] : words[c][i].address \in Addresses
    BY WordsFacts
  <1>3. \A e \in Range(words[c]) :
          /\ e.address \in Addresses /\ Logical(e.address) = e.old
    BY <1>2 DEF Range
  <1>4. ASSUME NEW a \in Addresses
        PROVE  Logical(a)' = IF \E e \in Range(words[c]) : e.address = a
                             THEN EntryAt(c, a).new ELSE Logical(a)
    <2>1. CASE ~Targets(c, a)
      BY <2>1 DEF Targets, Range
    <2>2. ASSUME NEW i \in DOMAIN words[c], words[c][i].address = a
          PROVE  Logical(a)' = EntryAt(c, a).new /\ \E e \in Range(words[c]) : e.address = a
      BY <2>2, EntryOf DEF EntryAt, Range
    <2> QED
      BY <2>1, <2>2 DEF Targets
  <1>5. [a \in Addresses |-> Logical(a)]' =
          [a \in Addresses |->
             IF \E e \in Atomic!Entry(c) : e.address = a
             THEN (CHOOSE e \in Atomic!Entry(c) : e.address = a).new
             ELSE [b \in Addresses |-> Logical(b)][a]]
    BY <1>1, <1>4 DEF EntryAt
  <1>6. \A e \in Atomic!Entry(c) : [a \in Addresses |-> Logical(a)][e.address] = e.old
    BY <1>1, <1>3
  <1> QED
    BY <1>5, <1>6 DEF Atomic!Succeed, Outcome

LEMMA AtomicStep ==
  ASSUME NEW rank \in Ranks, Raises(rank), OpInv, RaisedInv(rank), NEW t \in Threads, Step(t)
  PROVE  \/ Atomic!Next
         \/ /\ \A a \in Addresses : Logical(a)' = Logical(a)
            /\ \A d \in Descs : Outcome(d)' = Outcome(d)
  <1>1. CASE ~Deciding(t)
    <2>1. \A a \in Addresses : Logical(a)' = Logical(a)
      BY <1>1, QuietStep
    <2>2. ASSUME NEW d \in Descs
          PROVE  Outcome(d)' = Outcome(d)
      <3>1. CASE Active(d)
        BY <1>1, <3>1, QuietStatus DEF Outcome
      <3>2. CASE ~Active(d)
        BY <1>1, <3>2, QuietStatus DEF Outcome, Active
      <3> QED
        BY <3>1, <3>2
    <2> QED
      BY <2>1, <2>2
  <1>2. CASE Deciding(t)
    <2>1. PICK f : f = Top(t)
      OBVIOUS
    <2>2. PICK c : c = f.d
      OBVIOUS
    <2>3. /\ c \in Descs /\ f.my_status \in {"Succeeded", "Failed"}
          /\ Outcome(c) = "pending" /\ Outcome(c)' = f.my_status
          /\ \A d \in Descs \ {c} : Outcome(d)' = Outcome(d)
      BY <1>2, <2>1, <2>2, DecidedOnly DEF Outcome
    <2>4. CASE f.my_status = "Failed"
      <3>1. \A a \in Addresses : Logical(a)' = Logical(a)
        BY <1>2, <2>1, <2>4, DecidedElsewhere
      <3>2. Atomic!Fail(c)
        BY <2>3, <2>4, <3>1, AtomicFail
      <3> QED
        BY <2>3, <3>2 DEF Atomic!Next
    <2>5. CASE f.my_status = "Succeeded"
      <3>1. \A a \in Addresses : ~Targets(c, a) => Logical(a)' = Logical(a)
        BY <1>2, <2>1, <2>2, DecidedElsewhere
      <3>2. \A i \in DOMAIN words[c] :
              /\ Logical(words[c][i].address) = words[c][i].old
              /\ Logical(words[c][i].address)' = words[c][i].new
        BY <1>2, <2>1, <2>2, <2>5, DecidedWords
      <3>3. Atomic!Succeed(c)
        BY <2>3, <2>5, <3>1, <3>2, AtomicSucceed
      <3> QED
        BY <2>3, <3>3 DEF Atomic!Next
    <2> QED
      BY <2>3, <2>4, <2>5
  <1> QED
    BY <1>1, <1>2

(***************************************************************************)
(* MwCAS() in either build is an atomic multi-word compare-and-swap, for   *)
(* any number of threads, operations and words, with any nesting of        *)
(* helpers and with owners that stop half way, as long as no word takes    *)
(* back a value that an operation has replaced.  The compare-exchange of   *)
(* status_ in PersistentMwCAS and VolatileMwCAS is the step of the         *)
(* abstract specification; every other step stutters.                      *)
(***************************************************************************)
THEOREM Atomicity ==
  ASSUME NeverRestored
  PROVE  OpSpec => AtomicSpec
  <1>1. PICK rank \in Ranks : Raises(rank)
    BY DEF NeverRestored
  <1>2. OpInit => OpInv /\ RaisedInv(rank)
    BY OpInvInit, RaisedInit
  <1>3. OpInv /\ RaisedInv(rank) /\ [OpNext]_opVars => OpInv' /\ RaisedInv(rank)'
    BY <1>1, OpInvStep, RaisedStep, RaisedStutter DEF OpNext, Done
  <1>4. OpInit => Atomic!Init
    BY AtomicInit
  <1>5. OpInv /\ RaisedInv(rank) /\ [OpNext]_opVars =>
          [Atomic!Next]_<<[a \in Addresses |-> Logical(a)],
                          [d \in Descs |-> IF status[d].s \in {"Succeeded", "Failed"}
                                           THEN status[d].s ELSE "pending"]>>
    <2> SUFFICES ASSUME OpInv, RaisedInv(rank), [OpNext]_opVars, ~Atomic!Next
                 PROVE  /\ \A a \in Addresses : Logical(a)' = Logical(a)
                        /\ \A d \in Descs : Outcome(d)' = Outcome(d)
      BY AtomicQuiet
    <2>1. CASE UNCHANGED opVars
      <3>1. mem' = mem /\ status' = status
        BY <2>1 DEF opVars, memVars, statusVars
      <3> QED
        BY <3>1, LogicalMeans DEF Outcome
    <2>2. CASE \E t \in Threads : Step(t)
      BY <1>1, <2>2, AtomicStep
    <2> QED
      BY <2>1, <2>2 DEF OpNext, Done
  <1> QED
    BY <1>2, <1>3, <1>4, <1>5, PTL DEF OpSpec, AtomicSpec, Atomic!Spec

=============================================================================
