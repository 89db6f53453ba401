---------------------------- MODULE FASASSystem ----------------------------
(***************************************************************************)
(* Either implementation of fetch-and-store-and-store under its callers    *)
(* and with power failures, and what both promise.                         *)
(***************************************************************************)
EXTENDS FASAS, OptFASAS

Init ==
  /\ kind \in Kinds
  /\ PlainInit \/ OptInit
  /\ local = [t \in Threads |-> Idle]
  /\ next = [t \in Threads |-> 1]
  /\ hist = <<>>
  /\ told = 0
  /\ phase = "run"
  /\ recovery = <<1, "check">>
  /\ crashes = 0

Step(t) == PlainStep(t) \/ OptStep(t)

Recover == recover \/ recoverDescriptor

Next == (\E t \in Threads : Step(t)) \/ PlainCrash \/ OptCrash \/ Recover \/ Halt

(* Threads are scheduled, and a restarted program runs its recovery. *)
Spec ==
  /\ Init /\ [][Next]_vars
  /\ \A t \in Threads : WF_vars(Step(t))
  /\ WF_vars(Recover)

-----------------------------------------------------------------------------
(* Properties *)

(* Words, descriptor lines and what NVRAM may hold of them fit together. *)
FASASTypeOK ==
  /\ shared \in nv.shared
  /\ \A t \in Threads : private[t] \in nv.private[t]
  /\ \A d \in DOMAIN desc : desc[d] \in nv.desc[d]
  /\ kind = "plain" => DOMAIN desc = Descs /\ shared.tag \in {"val", "ptr"}
  /\ kind = "opt" => /\ DOMAIN desc = Threads
                     /\ shared.pid \in Threads \union {0}
                     /\ shared.seq \in SeqIds /\ \A t \in Threads : desc[t].seq \in SeqIds

(* The value of the shared word: a pointer stands for the new value. *)
Logical ==
  IF kind = "plain" /\ shared.tag = "ptr" THEN desc[shared.d].op.new ELSE shared.v

(* Has t's operation taken effect while its private word is not written? *)
Owes(t) == local[t].pc \in {"flush_word", "status", "flush_status", "swap", "private",
                            "flush_cas", "read_status", "store_status", "share_var",
                            "store_private"}
           /\ local[t].res # None

Atomic == INSTANCE AtomicFASAS WITH
  Ops <- LAMBDA t : Range(Script[t]),
  value <- Logical,
  private <- [t \in Threads |->
               IF Owes(t) THEN Stored(local[t].op, local[t].old) ELSE private[t]],
  result <- [t \in Threads |-> local[t].res]

(***************************************************************************)
(* "support both fetch store store and dcas": as long as the power is on,  *)
(* every step of every owner and helper is a step of the atomic operation  *)
(* or changes nothing: shared word, private word and result change         *)
(* together, and a fetch-and-store returns the value it replaced.          *)
(***************************************************************************)
RunsAtomically ==
  /\ Atomic!Init
  /\ [][phase = "run" /\ phase' = "run" => Atomic!Steps]_vars

(***************************************************************************)
(* After recovery the shared word holds a value, the one that a prefix of  *)
(* the operations leaves, every private word is what that prefix stored in *)
(* it, and the prefix has every operation that a caller or a reader had    *)
(* been told of: "requires no custom recovery logic from the application". *)
(***************************************************************************)
Durable ==
  \E k \in told .. Len(hist) :
    /\ shared = (IF kind = "plain" THEN Val(ValueAfter(k)) ELSE shared)
    /\ Logical = ValueAfter(k)
    /\ \A t \in Threads : private[t] = PrivateAfter(t, k)

DurablyLinearizable == phase = "recovered" => Durable

(* FASASDescriptor: NVRAM says "succeeded", and work remains to be done. *)
Unfinished(d) ==
  desc[d].priv = 1 /\ desc[d].succ = 1 /\ (desc[d].set = 0 \/ shared = Ptr(d))


(***************************************************************************)
(* "the order can't change. When set private value, make sure status is    *)
(* already set": what NVRAM holds is enough to finish or to undo every     *)
(* operation.  One whose pointer has left the word is there as successful; *)
(* none is there as successful that did not take effect; and none is there *)
(* as complete before its private word is.                                 *)
(***************************************************************************)
RecoveryCanDecide ==
  kind = "plain" /\ phase = "run" =>
    /\ \A k \in DOMAIN hist :
         shared # Ptr(hist[k].id) =>
           \A line \in nv.desc[hist[k].id] : line.succ = 1
    /\ \A d \in Descs : \A line \in nv.desc[d] :
         /\ line.succ = 1 => \E k \in DOMAIN hist : hist[k].id = d /\
                           \A w \in nv.shared :
                             w # Val(0) /\ \A j \in 1 .. k - 1 : w # Ptr(hist[j].id)
         /\ line.set = 1 => \E k \in DOMAIN hist :
              /\ hist[k].id = d
              /\ (~\E j \in k + 1 .. Len(hist) : hist[j].t = d[1]) =>
                   nv.private[d[1]] = {PrivateAfter(d[1], k)}

(***************************************************************************)
(* With every thread scheduled and finitely many power failures, all       *)
(* operations return and recovery ends.                                    *)
(***************************************************************************)
AllReturn == <>[](AllDone \/ phase \notin {"run", "recover"})

=============================================================================
