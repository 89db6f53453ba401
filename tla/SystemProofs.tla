---------------------------- MODULE SystemProofs ----------------------------
(***************************************************************************)
(* PMwCAS with crashes and recovery: linearizable while threads run, and   *)
(* durably linearizable.                                                   *)
(***************************************************************************)
EXTENDS PMwCASProofs, NvramProofs

(* Time for the longest leaves. *)
USE ZenonT(4), SMTT(10), ZenonT(40), SMTT(60), ZenonT(150)

-----------------------------------------------------------------------------

(* Types *)

LEMMA SystemTypeStep ==
  ASSUME TypeInv, PoolType, [Next]_vars
  PROVE  TypeInv' /\ PoolType'
  <1>1. MemType /\ StatusType
    BY DEF TypeInv
  <1>2. CASE UNCHANGED vars
    <2>1. UNCHANGED opVars /\ PoolType'
      BY <1>2 DEF vars, poolVars, systemVars, PoolType
    <2> QED
      BY <2>1, TypeStutter
  <1>3. ASSUME NEW t \in Threads, Run(t)
        PROVE  TypeInv' /\ PoolType'
    BY <1>3, RunPool, TypeStep DEF Run
  <1>4. ASSUME NEW d \in Descs, FreeDescriptor(d)
        PROVE  TypeInv' /\ PoolType'
    <2>1. StatusType'
      <3>1. Status("Finished") \in [s : States, dirty : 0 .. 1]
        BY StatusForms DEF States
      <3> QED
        BY <1>1, <1>4, <3>1, StatusStoreType DEF FreeDescriptor
    <2>2. UNCHANGED <<build, next, history, stack>> /\ MemType'
      BY <1>1, <1>4 DEF FreeDescriptor, memVars, MemType
    <2>3. PoolType'
      BY <1>4 DEF FreeDescriptor, PoolType, systemVars
    <2> QED
      BY <2>1, <2>2, <2>3, TypeOutside
  <1>5. CASE Crash
    <2>1. MemType' /\ StatusType'
      BY <1>5, CrashEffect
    <2>2. UNCHANGED <<build, next, history>> /\ stack' = [t \in Threads |-> <<>>]
      BY <1>5 DEF Crash
    <2>3. PoolType'
      <3>1. /\ retired' = {} /\ grace' = [d \in Descs |-> {}] /\ phase' = "recover"
            /\ recovery' = <<1, 1>> /\ crashes < MaxCrashes /\ crashes' = crashes + 1
        BY <1>5 DEF Crash
      <3>2. crashes' \in 0 .. MaxCrashes
        BY <3>1, SystemAssumption DEF PoolType
      <3>3. <<1, 1>> \in (1 .. PoolSize + 1) \X (1 .. kMaxCount + 1)
        BY ConstantsAssumption DEF kMaxCount
      <3> QED
        BY <3>1, <3>2, <3>3 DEF PoolType
    <2> QED
      BY <2>1, <2>2, <2>3, TypeOutside
  <1>6. CASE Recover
    <2>1. ASSUME NEW d \in Descs, RecoverInvalid(d)
          PROVE  TypeInv' /\ PoolType'
      <3>1. UNCHANGED <<build, next, history, stack>> /\ MemType' /\ StatusType'
        BY <1>1, <2>1 DEF RecoverInvalid, Recovering, memVars, statusVars, MemType, StatusType
      <3>2. PoolType'
        <4>1. <<PoolSize + 1, 1>> \in (1 .. PoolSize + 1) \X (1 .. kMaxCount + 1)
          BY ConstantsAssumption DEF kMaxCount
        <4> QED
          BY <2>1, <4>1 DEF RecoverInvalid, Recovering, poolVars, PoolType
      <3> QED
        BY <3>1, <3>2, TypeOutside
    <2>2. ASSUME NEW d \in Descs, NEW i \in 1 .. kMaxCount + 1, RecoverNext(d, i)
          PROVE  TypeInv' /\ PoolType'
      <3>1. UNCHANGED <<build, next, history, stack>> /\ MemType' /\ StatusType'
        BY <1>1, <2>2 DEF RecoverNext, Recovering, memVars, statusVars, MemType, StatusType
      <3>2. PoolType'
        <4>1. <<d + 1, 1>> \in (1 .. PoolSize + 1) \X (1 .. kMaxCount + 1)
          BY ConstantsAssumption DEF kMaxCount, Descs
        <4> QED
          BY <2>2, <4>1 DEF RecoverNext, Recovering, poolVars, PoolType
      <3> QED
        BY <3>1, <3>2, TypeOutside
    <2>3. ASSUME NEW d \in Descs, NEW i \in 1 .. kMaxCount + 1, RecoverWord(d, i)
          PROVE  TypeInv' /\ PoolType'
      <3>1. PICK a : a = words[d][i].address
        OBVIOUS
      <3>2. UNCHANGED <<build, next, history, stack, poolVars, crashes>> /\ StatusType'
        BY <1>1, <2>3 DEF RecoverWord, Recovering, statusVars, StatusType
      <3>3. /\ i \in DOMAIN words[d] /\ phase = "recover"
            /\ \/ UNCHANGED <<memVars, recovery>> /\ phase' = "invalid_field_value"
               \/ /\ RecoveredWord(d, i, mem[a]) \in Words
                  /\ mem' = [mem EXCEPT ![a] = RecoveredWord(d, i, mem[a])]
                  /\ nvram' = [nvram EXCEPT ![a] = {RecoveredWord(d, i, mem[a])}]
                  /\ recovery' = <<d, i + 1>> /\ phase' = phase
        <4>1. RecoverWord(d, i)
          BY <2>3
        <4>2. /\ i \in DOMAIN words[d] /\ phase = "recover"
              /\ \/ phase' = "invalid_field_value" /\ UNCHANGED <<memVars, recovery>>
                 \/ /\ RecoveredWord(d, i, mem[a]) \in Words
                    /\ mem' = [mem EXCEPT ![a] = RecoveredWord(d, i, mem[a])]
                    /\ nvram' = [nvram EXCEPT ![a] = {RecoveredWord(d, i, mem[a])}]
                    /\ recovery' = <<d, i + 1>> /\ phase' = phase
          BY <3>1, <4>1, RecoverWordEffect
        <4> QED
          BY <4>2
      <3>4. MemType'
        BY <1>1, <3>3 DEF MemType, memVars
      <3>5. PoolType'
        <4>1. <<d, i + 1>> \in (1 .. PoolSize + 1) \X (1 .. kMaxCount + 1)
          <5>1. PICK n \in 1 .. kMaxCount : n = Len(words[d]) /\ DOMAIN words[d] = 1 .. n
            BY WordsFacts
          <5>2. i + 1 \in 1 .. kMaxCount + 1
            <6>1. i \in 1 .. n
              BY <3>3, <5>1
            <6> QED
              BY <6>1 DEF kMaxCount
          <5>3. d \in 1 .. PoolSize + 1
            BY ConstantsAssumption DEF Descs
          <5> QED
            BY <5>2, <5>3
        <4> QED
          BY <3>2, <3>3, <4>1 DEF PoolType, poolVars
      <3> QED
        BY <3>2, <3>4, <3>5, TypeOutside
    <2>4. ASSUME Reinitialize
          PROVE  TypeInv' /\ PoolType'
      <3>1. UNCHANGED <<build, next, history, stack>> /\ MemType'
        BY <1>1, <2>4 DEF Reinitialize, memVars, MemType
      <3>2. StatusType'
        <4>1. Status("Finished") \in [s : States, dirty : 0 .. 1]
          BY StatusForms DEF States
        <4> QED
          BY <1>1, <2>4, <4>1 DEF Reinitialize, StatusType, States
      <3>3. PoolType'
        BY <2>4 DEF Reinitialize, poolVars, PoolType
      <3> QED
        BY <3>1, <3>2, <3>3, TypeOutside
    <2> QED
      BY <1>6, <2>1, <2>2, <2>3, <2>4 DEF Recover
  <1>7. CASE Halt
    BY <1>2, <1>7 DEF Halt
  <1> QED
    BY <1>2, <1>3, <1>4, <1>5, <1>6, <1>7 DEF Next

LEMMA SystemTypeInit ==
  ASSUME Init
  PROVE  TypeInv /\ PoolType
  <1>1. OpInit /\ retired = {} /\ grace = [d \in Descs |-> {}] /\ phase = "run"
        /\ recovery = <<1, 1>> /\ crashes = 0
    BY DEF Init
  <1>2. <<1, 1>> \in (1 .. PoolSize + 1) \X (1 .. kMaxCount + 1) /\ 0 \in 0 .. MaxCrashes
    BY ConstantsAssumption, SystemAssumption DEF kMaxCount
  <1> QED
    BY <1>1, <1>2, TypeInit DEF PoolType

(***************************************************************************)
(* Words, statuses, frames, the garbage list and the place that recovery   *)
(* has reached keep their types, with recycling, crashes during operation  *)
(* and crashes during recovery, for all constants.                         *)
(***************************************************************************)
THEOREM SystemTypeCorrect == Spec => []SystemTypeOK
  <1>1. Init => TypeInv /\ PoolType
    BY SystemTypeInit
  <1>2. TypeInv /\ PoolType /\ [Next]_vars => TypeInv' /\ PoolType'
    BY SystemTypeStep
  <1>3. TypeInv /\ PoolType => SystemTypeOK
    BY TypeInvOK DEF PoolType, SystemTypeOK
  <1> QED
    BY <1>1, <1>2, <1>3, PTL DEF Spec

-----------------------------------------------------------------------------

(* Linearizability *)

LEMMA HistStep ==
  ASSUME OpInv, NEW t \in Threads, Step(t), NEW f, f = Top(t)
  PROVE  /\ ~Deciding(t) => hist' = hist
         /\ Deciding(t) =>
              hist' = IF f.my_status = "Succeeded" THEN Append(hist, f.d) ELSE hist
  <1>1. ~Deciding(t) => hist' = hist
    BY StatusEffect DEF Deciding, BeginMwCAS, CleanStatus, history
  <1>2. Deciding(t) => hist' = IF f.my_status = "Succeeded" THEN Append(hist, f.d) ELSE hist
    BY DEF Deciding, Decide, Undecided
  <1> QED
    BY <1>1, <1>2

LEMMA LinStep ==
  ASSUME NEW rank \in Ranks, Raises(rank), OpInv, RaisedInv(rank), LinInv,
         NEW t \in Threads, Step(t)
  PROVE  LinInv'
  <1>1. PICK f : f = Top(t)
    OBVIOUS
  <1>2. hist \in Seq(Descs) /\ Lasts(hist) /\ Legal(hist, Descs)
    BY DEF OpInv, TypeInv, LinInv
  <1>3. CASE ~Deciding(t)
    <2>1. hist' = hist /\ \A a \in Addresses : Logical(a)' = Logical(a)
      BY <1>1, <1>3, HistStep, QuietStep
    <2> QED
      BY <2>1 DEF LinInv, Value
  <1>4. CASE Deciding(t) /\ f.my_status # "Succeeded"
    <2>1. f.my_status = "Failed"
      BY <1>1, <1>4, DecidedOnly
    <2>2. hist' = hist /\ \A a \in Addresses : Logical(a)' = Logical(a)
      BY <1>1, <1>4, <2>1, HistStep, DecidedElsewhere
    <2> QED
      BY <2>2 DEF LinInv, Value
  <1>5. CASE Deciding(t) /\ f.my_status = "Succeeded"
    <2>1. f.d \in Descs /\ hist' = Append(hist, f.d)
      BY <1>1, <1>5, HistStep, DecidedOnly
    <2>2. \A i \in DOMAIN words[f.d] :
            /\ words[f.d][i].address \in Addresses
            /\ Logical(words[f.d][i].address) = words[f.d][i].old
            /\ Logical(words[f.d][i].address)' = words[f.d][i].new
      <3>1. f.d \in Descs
        BY <2>1
      <3>2. \A i \in DOMAIN words[f.d] : words[f.d][i].address \in Addresses
        BY <3>1, WordsFacts
      <3> QED
        BY <1>1, <1>5, <3>2, DecidedWords
    <2>3. Legal(Append(hist, f.d), Descs)
      <3>1. \A i \in DOMAIN words[f.d] :
              Replay(hist, Descs)[words[f.d][i].address] = words[f.d][i].old
        BY <2>2 DEF LinInv, Value
      <3> QED
        BY <1>2, <2>1, <3>1, LegalAppend
    <2>4. ASSUME NEW a \in Addresses
          PROVE  Logical(a)' = Replay(Append(hist, f.d), Descs)[a]
      <3>1. CASE ~Targets(f.d, a)
        <4>1. Logical(a)' = Logical(a)
          BY <1>1, <1>5, <3>1, DecidedElsewhere
        <4>2. Replay(Append(hist, f.d), Descs)[a] = Replay(hist, Descs)[a]
          BY <1>2, <2>1, <3>1, ReplayAppend
        <4> QED
          BY <4>1, <4>2 DEF LinInv, Value
      <3>2. ASSUME NEW i \in DOMAIN words[f.d], words[f.d][i].address = a
            PROVE  Logical(a)' = Replay(Append(hist, f.d), Descs)[a]
        <4>1. Logical(a)' = words[f.d][i].new
          BY <2>2, <3>2
        <4>2. f.d \in Descs /\ hist \in Seq(Descs) /\ Lasts(hist)
          BY <1>2, <2>1
        <4>3. Replay(Append(hist, f.d), Descs)[a] = words[f.d][i].new
          BY <3>2, <4>2, ReplayAppend
        <4> QED
          BY <4>1, <4>3
      <3> QED
        BY <3>1, <3>2 DEF Targets
    <2> QED
      BY <2>1, <2>3, <2>4 DEF LinInv, Value
  <1> QED
    BY <1>3, <1>4, <1>5

LEMMA LinStutter ==
  ASSUME LinInv, UNCHANGED opVars
  PROVE  LinInv'
  <1>1. mem' = mem /\ status' = status /\ hist' = hist
    BY DEF opVars, memVars, statusVars, history
  <1>2. \A a : Logical(a)' = Logical(a)
    BY <1>1, LogicalMeans
  <1> QED
    BY <1>1, <1>2 DEF LinInv, Value

(* Where descriptors are not recycled, only steps of threads lead to a run. *)
LEMMA RunsOnly ==
  ASSUME Recycle = FALSE, [Next]_vars, phase' = "run"
  PROVE  phase = "run" /\ ((\E t \in Threads : Step(t)) \/ UNCHANGED opVars)
  <1>1. CASE UNCHANGED vars
    BY <1>1 DEF vars, systemVars
  <1>2. CASE \E t \in Threads : Run(t)
    BY <1>2 DEF Run
  <1>3. CASE Crash
    BY <1>3 DEF Crash
  <1>4. CASE Recover
    <2>1. \A d, i : Recovering(d, i) => phase = "recover"
      BY DEF Recovering
    <2>2. \A d : RecoverInvalid(d) => phase' # "run"
      BY <2>1 DEF RecoverInvalid
    <2>3. \A d, i : RecoverNext(d, i) => phase' # "run"
      BY <2>1 DEF RecoverNext
    <2>4. \A d, i : RecoverWord(d, i) => phase' # "run"
      BY <2>1 DEF RecoverWord
    <2>5. Reinitialize => phase' # "run"
      BY DEF Reinitialize
    <2> QED
      BY <1>4, <2>2, <2>3, <2>4, <2>5 DEF Recover
  <1>5. CASE Halt
    BY <1>1, <1>5 DEF Halt
  <1>6. ~ \E d \in Descs : FreeDescriptor(d)
    BY DEF FreeDescriptor
  <1> QED
    BY <1>1, <1>2, <1>3, <1>4, <1>5, <1>6 DEF Next

LEMMA RunInvInit ==
  ASSUME NEW rank, Init
  PROVE  RunInv(rank)
  BY OpInvInit, RaisedInit, LinInit DEF Init, RunInv

LEMMA RunInvStep ==
  ASSUME NEW rank \in Ranks, Raises(rank), Recycle = FALSE, RunInv(rank), [Next]_vars
  PROVE  RunInv(rank)'
  <1> SUFFICES ASSUME phase' = "run"
               PROVE  OpInv' /\ RaisedInv(rank)' /\ LinInv'
    BY DEF RunInv
  <1>1. phase = "run" /\ ((\E t \in Threads : Step(t)) \/ UNCHANGED opVars)
    BY RunsOnly
  <1>2. OpInv /\ RaisedInv(rank) /\ LinInv
    BY <1>1 DEF RunInv
  <1>3. CASE UNCHANGED opVars
    BY <1>2, <1>3, OpInvStutter, RaisedStutter, LinStutter
  <1>4. ASSUME NEW t \in Threads, Step(t)
        PROVE  OpInv' /\ RaisedInv(rank)' /\ LinInv'
    <2>1. OpInv'
      BY <1>2, <1>4, OpInvStep DEF OpNext
    <2> QED
      BY <1>2, <1>4, <2>1, RaisedStep, LinStep
  <1> QED
    BY <1>1, <1>3, <1>4

(***************************************************************************)
(* Linearizability of MwCAS() and of both reads, up to the first crash:    *)
(* what the words stand for is what the successful operations produce in   *)
(* the order of their compare-exchange of status_, and each of them found  *)
(* all its old values.  For all constants, where no word takes back a      *)
(* replaced value and descriptors are not recycled.                        *)
(***************************************************************************)
THEOREM Linearized ==
  ASSUME NeverRestored, Recycle = FALSE
  PROVE  Spec => []Linearizable
  <1>1. PICK rank \in Ranks : Raises(rank)
    BY DEF NeverRestored
  <1>2. Init => RunInv(rank)
    BY RunInvInit
  <1>3. RunInv(rank) /\ [Next]_vars => RunInv(rank)'
    BY <1>1, RunInvStep
  <1>4. RunInv(rank) => Linearizable
    BY DEF RunInv, LinInv, Value, Linearizable
  <1> QED
    BY <1>2, <1>3, <1>4, PTL DEF Spec

-----------------------------------------------------------------------------

(* Durable linearizability *)

LEMMA DurableRun ==
  ASSUME NEW rank \in Ranks, Increases(rank), Recycle = FALSE, DurableInv(rank),
         [Next]_vars, RunInv(rank)', phase' = "run", build' = "pmem"
  PROVE  NvInv'
  <1>1. phase = "run" /\ ((\E t \in Threads : Step(t)) \/ UNCHANGED opVars)
    BY RunsOnly
  <1>2. OpInv /\ OpInv' /\ RaisedInv(rank) /\ LinInv
    BY <1>1 DEF RunInv, DurableInv
  <1>3. CASE UNCHANGED opVars
    <2>1. build = "pmem"
      BY <1>3 DEF opVars
    <2> QED
      BY <1>1, <1>3, <2>1, NvStutter DEF DurableInv
  <1>4. ASSUME NEW t \in Threads, Step(t)
        PROVE  NvInv'
    <2>1. build = "pmem"
      BY <1>4 DEF Step, BeginMwCAS, BeginRead, Begin
    <2>2. NvInv /\ Superseded
      BY <1>1, <1>2, <2>1, IncreasesSupersedes DEF DurableInv
    <2> QED
      BY <1>2, <1>4, <2>1, <2>2, NvStep
  <1> QED
    BY <1>1, <1>3, <1>4

LEMMA DurableAfter ==
  ASSUME NEW rank, Recycle = FALSE, DurableInv(rank), [Next]_vars, phase' # "run"
  PROVE  Recoverable' /\ phase' # "invalid_field_value"
  <1>1. CASE UNCHANGED vars
    <2>1. phase' = phase
      BY <1>1 DEF vars, systemVars
    <2> QED
      BY <1>1, <2>1, RecStutter DEF DurableInv
  <1>2. ASSUME NEW t \in Threads, Run(t)
        PROVE  FALSE
    BY <1>2 DEF Run, systemVars
  <1>3. ~ \E d \in Descs : FreeDescriptor(d)
    BY DEF FreeDescriptor
  <1>4. CASE Crash
    <2>1. build = "pmem" /\ phase' = "recover"
      BY <1>4 DEF Crash
    <2>2. CASE phase = "run"
      <3>1. OpInv /\ LinInv /\ NvInv
        BY <2>1, <2>2 DEF DurableInv, RunInv
      <3> QED
        BY <1>4, <2>1, <3>1, CrashRunning
    <2>3. CASE phase # "run"
      <3>1. PICK done \in SUBSET Descs : RecInv(done)
        BY <2>3 DEF DurableInv, Recoverable
      <3>2. RecInv(done)'
        BY <1>4, <3>1, CrashRecovering DEF DurableInv
      <3> QED
        BY <2>1, <3>2 DEF Recoverable
    <2> QED
      BY <2>2, <2>3
  <1>5. CASE Recover
    <2>1. phase = "recover"
      BY <1>5 DEF Recover, RecoverInvalid, RecoverNext, RecoverWord, Recovering, Reinitialize
    <2> QED
      BY <1>5, <2>1, RecoverRec DEF DurableInv
  <1>6. CASE Halt
    BY <1>1, <1>6 DEF Halt
  <1> QED
    BY <1>1, <1>2, <1>3, <1>4, <1>5, <1>6 DEF Next

LEMMA DurableStep ==
  ASSUME NEW rank \in Ranks, Increases(rank), Recycle = FALSE, DurableInv(rank), [Next]_vars
  PROVE  DurableInv(rank)'
  <1>1. TypeInv' /\ PoolType'
    BY SystemTypeStep DEF DurableInv
  <1>2. RunInv(rank)'
    BY IncreasesRaises, RunInvStep DEF DurableInv
  <1>3. phase' = "run" /\ build' = "pmem" => NvInv'
    BY <1>2, DurableRun
  <1>4. phase' # "run" => Recoverable' /\ phase' # "invalid_field_value"
    BY DurableAfter
  <1> QED
    BY <1>1, <1>2, <1>3, <1>4 DEF DurableInv

LEMMA DurableInit ==
  ASSUME NEW rank, PoolPersisted = TRUE, Init
  PROVE  DurableInv(rank)
  <1>1. phase = "run" /\ OpInit
    BY DEF Init
  <1> QED
    BY <1>1, SystemTypeInit, RunInvInit, NvInit DEF DurableInv

(***************************************************************************)
(* Durable linearizability, for all constants and any number of crashes,   *)
(* during recovery too: once the DescriptorPool constructor has rolled the *)
(* operations forward or back, the words hold what some of the successful  *)
(* operations produce, each with all its words, and among them is every    *)
(* one that a caller or a reader had been told of.  Where every operation  *)
(* gives its words values that come after those it replaces, descriptors   *)
(* are not recycled and the pool had reached NVRAM before the first call.  *)
(***************************************************************************)
THEOREM Durable ==
  ASSUME AlwaysIncreasing, Recycle = FALSE, PoolPersisted = TRUE
  PROVE  Spec => []DurablyLinearizable
  <1>1. PICK rank \in Ranks : Increases(rank)
    BY DEF AlwaysIncreasing
  <1>2. Init => DurableInv(rank)
    BY DurableInit
  <1>3. DurableInv(rank) /\ [Next]_vars => DurableInv(rank)'
    BY <1>1, DurableStep
  <1>4. DurableInv(rank) => DurablyLinearizable
    BY RecoveredDurable DEF DurableInv, DurablyLinearizable
  <1> QED
    BY <1>2, <1>3, <1>4, PTL DEF Spec

(***************************************************************************)
(* Under the same hypotheses no crash leaves the CondCAS pointer of an     *)
(* operation that NVRAM knows as successful: RAW_CHECK "invalid field      *)
(* value" in the recovery loop never fails.                                *)
(***************************************************************************)
THEOREM RecoveryFindsValidFields ==
  ASSUME AlwaysIncreasing, Recycle = FALSE, PoolPersisted = TRUE
  PROVE  Spec => []FieldValuesValid
  <1>1. PICK rank \in Ranks : Increases(rank)
    BY DEF AlwaysIncreasing
  <1>2. Init => DurableInv(rank)
    BY DurableInit
  <1>3. DurableInv(rank) /\ [Next]_vars => DurableInv(rank)'
    BY <1>1, DurableStep
  <1>4. DurableInv(rank) => FieldValuesValid
    BY DEF DurableInv, FieldValuesValid
  <1> QED
    BY <1>2, <1>3, <1>4, PTL DEF Spec

=============================================================================
