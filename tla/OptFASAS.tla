------------------------------ MODULE OptFASAS ------------------------------
(***************************************************************************)
(* OptmizedFASASDescriptor and its pool: every process has one descriptor  *)
(* for the shared word, and the word itself carries, beside its value, the *)
(* process that wrote it last and a four-bit sequence number.  Who wants   *)
(* to overwrite a word of another process first persists the word and the  *)
(* status of that process's descriptor; who only reads it persists the     *)
(* word.  One action is one access to shared memory.                       *)
(***************************************************************************)
EXTENDS FASASMemory

CONSTANT FirstSeq  \* sequence number that the descriptors have reached

(* A shared word: ActualValueFlg, ProcessIdFlg (0: none), SeqIdFlg. *)
Word(v, pid, seq) == [v |-> v, pid |-> pid, seq |-> seq]

SeqIds == 0 .. 15

(***************************************************************************)
(* A descriptor.  used: sharedAddress_ is not null; status and seq: the    *)
(* two parts of statusInfo_; pset: isPrivateAddrSet_; sset: isShareVarSet_.*)
(***************************************************************************)
New == [used |-> FALSE, op |-> [op |-> "fasas", new |-> 0], old |-> 0, new |-> 0,
        seq |-> FirstSeq, succ |-> FALSE, pset |-> FALSE, sset |-> FALSE]

OptInit ==
  /\ kind = "opt"
  /\ shared = Word(0, 0, 0)
  /\ private = [t \in Threads |-> 0]
  /\ desc = [t \in Threads |-> New]
  /\ nv = [shared |-> {shared}, desc |-> [t \in Threads |-> {New}],
           private |-> [t \in Threads |-> {0}]]

(* Was val written by somebody else, whose descriptor needs a look? *)
Other(t, val) == val.pid \notin {0, t}

(* The descriptor of the process, whose id counts from 1, for this word. *)
getDescriptor(pid) == desc[pid]

-----------------------------------------------------------------------------
(* The callers: FetchStoreStore::fasas, dcas, recoverCas and read *)

OptLocal(op) ==
  [pc |-> IF op.op \in {"fasas", "read"} THEN "get" ELSE "val", op |-> op,
   old |-> IF op.op \in {"dcas", "rcas"} THEN op.old ELSE 0,
   reading |-> FALSE, val |-> Word(0, 0, 0), act |-> 0, tmp |-> 0,
   saw |-> 0, res |-> None]

setSharedAddress(line) == [line EXCEPT !.used = TRUE]

(* setSharedAddress, and but for a read setPrivateAddress and setOpType. *)
OptBegin(t) ==
  LET op == Script[t][next[t]]
      used == setSharedAddress(desc[t])
  IN /\ Call(t, OptLocal(op))
     /\ StoreDesc(t, IF op.op = "read" THEN <<used>>
                     ELSE <<used, [used EXCEPT !.op = op]>>)
     /\ UNCHANGED words

(* getValueProtectedOfSharedVar of val is done. *)
Got(l) ==
  IF l.op.op = "read" THEN [l EXCEPT !.pc = "return"]
                      ELSE [l EXCEPT !.pc = "val", !.old = l.val.v]

(* The load of getValueProtectedOfSharedVar. *)
getValueProtectedOfSharedVar(t) ==
  LET l == [local[t] EXCEPT !.val = shared, !.reading = TRUE, !.saw = Len(hist),
              !.res = IF local[t].op.op = "read" THEN Value(shared.v) ELSE None] IN
  /\ At(t, "get")
  /\ Goto(t, IF Other(t, shared) THEN [l EXCEPT !.pc = "share_set"] ELSE Got(l))
  /\ UNCHANGED <<words, desc, nv>>

(* process(): the word is read, and read again for its actual value. *)
ReadVal(t) ==
  Look(t, "val", [local[t] EXCEPT !.pc = "actual", !.val = shared, !.reading = FALSE])

(* Mutant: the value is left to the compare-exchange to check. *)
HelpedUnchecked(l) == [l EXCEPT !.pc = "values"]

(* After helping: another value than expected is a failure. *)
Helped(l) ==
  IF l.act = l.old THEN [l EXCEPT !.pc = "values"]
  ELSE IF l.op.op = "fasas" THEN [l EXCEPT !.pc = "get"]
  ELSE [l EXCEPT !.pc = "return", !.res = False, !.saw = 0]

ReadActual(t) ==
  LET l == [local[t] EXCEPT !.act = shared.v] IN
  /\ At(t, "actual")
  /\ Goto(t, IF Other(t, l.val) THEN [l EXCEPT !.pc = "share_set"] ELSE Helped(l))
  /\ UNCHANGED <<words, desc, nv>>

-----------------------------------------------------------------------------
(* helpWithShareValue, by a reader, and helpProcess, by an overwriter *)

(* The helper is done. *)
Leave(l) == IF l.reading THEN Got(l) ELSE Helped(l)

(***************************************************************************)
(* isShareVarSet_, which the helper looks at before each of its steps: the *)
(* owner has persisted the word and its status.                            *)
(***************************************************************************)
CheckShareVarSet(t, pc, then) ==
  LET l == local[t] IN
  /\ At(t, pc)
  /\ Goto(t, IF getDescriptor(l.val.pid).sset THEN Leave(l) ELSE [l EXCEPT !.pc = then])
  /\ UNCHANGED <<words, desc, nv>>

(* The owner may have gone on to another operation. *)
CheckSeqId(t) ==
  LET l == local[t] IN
  /\ At(t, "seq")
  /\ Goto(t, IF getDescriptor(l.val.pid).seq # l.val.seq THEN Leave(l)
             ELSE [l EXCEPT !.pc = "share_set_again"])
  /\ UNCHANGED <<words, desc, nv>>

(* A reader is done with that, and so is who is going to fail. *)
AfterHelpFlush(l) ==
  IF l.reading \/ l.old # l.act THEN Leave(l) ELSE [l EXCEPT !.pc = "help_status"]

HelpFlushShared(t) ==
  FlushStep(t, "help_flush", FlushShared, AfterHelpFlush(local[t]))

(* The compare-exchange of statusInfo_ from (seq, failed) to (seq, succ). *)
HelpStatus(t) ==
  LET l == local[t]
      d == getDescriptor(l.val.pid)
  IN /\ At(t, "help_status")
     /\ IF d.seq = l.val.seq /\ ~d.succ
        THEN StoreDesc(l.val.pid, <<[d EXCEPT !.succ = TRUE]>>)
        ELSE UNCHANGED <<desc, nv>>
     /\ Goto(t, [l EXCEPT !.pc = "share_set_last"])
     /\ UNCHANGED words

HelpFlushStatus(t) ==
  FlushStep(t, "help_flush_status", FlushDesc(local[t].val.pid), Helped(local[t]))

HelpProcess(t) ==
  \/ CheckShareVarSet(t, "share_set", "seq") \/ CheckSeqId(t)
  \/ CheckShareVarSet(t, "share_set_again", "help_flush") \/ HelpFlushShared(t)
  \/ HelpStatus(t) \/ CheckShareVarSet(t, "share_set_last", "help_flush_status")
  \/ HelpFlushStatus(t)

-----------------------------------------------------------------------------
(* process(), after helping *)

(* oldShareVarValue_ and newShareVarValue_ are stored one after the other. *)
StoreValues(t) ==
  LET l == local[t]
      one == [desc[t] EXCEPT !.old = l.old]
  IN /\ At(t, "values")
     /\ StoreDesc(t, <<one, [one EXCEPT !.new = l.op.new]>>)
     /\ Goto(t, [l EXCEPT !.pc = "new_status"])
     /\ UNCHANGED words

(* Mutant: the sequence number is not cut off at four bits. *)
NewStatusUnbounded(t) ==
  StoreStep(t, "new_status", t, <<[desc[t] EXCEPT !.seq = @ + 1, !.succ = FALSE]>>,
            To(t, "reset"))

(* statusInfo_: the next sequence number, modulo 16, and not successful. *)
NewStatus(t) ==
  StoreStep(t, "new_status", t, <<[desc[t] EXCEPT !.seq = (@ + 1) % 16, !.succ = FALSE]>>,
            To(t, "reset"))

(* isPrivateAddrSet_ and isShareVarSet_ become false. *)
ResetFlags(t) ==
  LET one == [desc[t] EXCEPT !.pset = FALSE] IN
  /\ At(t, "reset")
  /\ StoreDesc(t, <<one, [one EXCEPT !.sset = FALSE]>>)
  /\ Goto(t, [local[t] EXCEPT !.pc = "flush_new"])
  /\ UNCHANGED words

FlushNew(t) == FlushStep(t, "flush_new", FlushDesc(t), To(t, "cas"))

(***************************************************************************)
(* addDescriptorToShareVar: the compare-exchange from the word that was    *)
(* read, with process and sequence number, to the new value with one's     *)
(* own.  If it fails, so does process(), and a fetch-and-store starts over.*)
(***************************************************************************)
OptAddDescriptorToShareVar(t) ==
  LET l == local[t]
      new == Word(desc[t].new, t, desc[t].seq)
  IN /\ At(t, "cas")
     /\ IF shared = l.val
        THEN /\ StoreShared(new)
             /\ TakeEffect(t, new, l.old, [l EXCEPT !.pc = "flush_cas"])
        ELSE /\ Goto(t, IF l.op.op = "fasas" THEN [l EXCEPT !.pc = "get"]
                        ELSE [l EXCEPT !.pc = "return", !.res = False, !.saw = 0])
             /\ UNCHANGED <<shared, nv>>
     /\ UNCHANGED <<private, desc>>

FlushCAS(t) == FlushStep(t, "flush_cas", FlushShared, To(t, "read_status"))

(* tmpStatus = statusInfo_; statusInfo_ = tmpStatus | SuccStatus *)
ReadStatusInfo(t) ==
  Look(t, "read_status", [local[t] EXCEPT !.pc = "store_status", !.tmp = desc[t].seq])

StoreStatusInfo(t) ==
  StoreStep(t, "store_status", t, <<[desc[t] EXCEPT !.seq = local[t].tmp, !.succ = TRUE]>>,
            To(t, "flush_status"))

FlushStatusInfo(t) ==
  FlushStep(t, "flush_status", FlushDesc(t), To(t, "share_var"))

(* isShareVarSet_ = true: nobody needs to help any more. *)
SetShareVarSet(t) ==
  StoreStep(t, "share_var", t, <<[desc[t] EXCEPT !.sset = TRUE]>>,
            To(t, "store_private"))

(* changePrivateValueSucc: the private word, ... *)
OptStorePrivate(t) ==
  /\ At(t, "store_private")
  /\ StorePrivate(t, Stored(desc[t].op, desc[t].old))
  /\ Goto(t, [local[t] EXCEPT !.pc = "flush_private"])
  /\ UNCHANGED <<shared, desc>>

OptFlushPrivate(t) ==
  FlushStep(t, "flush_private", FlushPrivate(t), To(t, "private_set"))

(* ... then isPrivateAddrSet_, each followed by a flush. *)
SetPrivateAddrSet(t) ==
  StoreStep(t, "private_set", t, <<[desc[t] EXCEPT !.pset = TRUE]>>,
            To(t, "flush_private_set"))

FlushPrivateAddrSet(t) ==
  FlushStep(t, "flush_private_set", FlushDesc(t), To(t, "return"))

OptReturn(t) ==
  /\ At(t, "return")
  /\ Return(t)
  /\ UNCHANGED <<words, desc, nv>>

OptStep(t) ==
  /\ kind = "opt"
  /\ \/ OptBegin(t) \/ getValueProtectedOfSharedVar(t) \/ ReadVal(t)
     \/ ReadActual(t) \/ HelpProcess(t) \/ StoreValues(t) \/ NewStatus(t)
     \/ ResetFlags(t) \/ FlushNew(t) \/ OptAddDescriptorToShareVar(t)
     \/ FlushCAS(t) \/ ReadStatusInfo(t) \/ StoreStatusInfo(t)
     \/ FlushStatusInfo(t) \/ SetShareVarSet(t) \/ OptStorePrivate(t)
     \/ OptFlushPrivate(t) \/ SetPrivateAddrSet(t) \/ FlushPrivateAddrSet(t)
     \/ OptReturn(t)

-----------------------------------------------------------------------------
(* recoverDescriptor(): recoverOneDescriptor on one descriptor at a time *)

OptCrash ==
  /\ kind = "opt"
  /\ PowerFailure([k \in DOMAIN hist |-> {hist[k].id}])

Recovering(t, step) ==
  /\ kind = "opt" /\ phase = "recover" /\ recovery = <<t, step>>
  /\ UNCHANGED <<shared, callers, kind, crashes>>

RecoverAt(t, step) == recovery' = <<t, step>> /\ UNCHANGED phase

(* The next descriptor, or the pool is ready for use. *)
RecoverNext(t) ==
  /\ recovery' = <<t + 1, "check">>
  /\ phase' = IF t + 1 \in Threads THEN phase ELSE "run"

Matches(t) == shared.pid = t /\ shared.seq = desc[t].seq


(***************************************************************************)
(* A descriptor that is in the word must have the word's value, or         *)
(* RAW_CHECK "value not match" fails.  Then: a complete operation is left  *)
(* alone; one that succeeded, or is in the word, gets its private value;   *)
(* for any other only isShareVarSet_ is set.                               *)
(***************************************************************************)
RecoverCheck(t) ==
  LET d == desc[t] IN
  /\ Recovering(t, "check")
  /\ IF d.used /\ Matches(t) /\ shared.v # d.new
     THEN phase' = "value_not_match" /\ UNCHANGED <<recovery, desc, nv>>
     ELSE IF ~d.used \/ d.pset
     THEN RecoverNext(t) /\ UNCHANGED <<desc, nv>>
     ELSE IF d.succ \/ Matches(t)
     THEN RecoverAt(t, "private") /\ StoreDesc(t, <<[d EXCEPT !.succ = TRUE]>>)
     ELSE RecoverNext(t) /\ StoreDesc(t, <<[d EXCEPT !.sset = TRUE]>>)
  /\ UNCHANGED private

(* doRecoverPrivateAddrSucc: the private word, after the status's flush, *)
RecoverPrivate(t) ==
  /\ Recovering(t, "private")
  /\ private' = [private EXCEPT ![t] = Stored(desc[t].op, desc[t].old)]
  /\ nv' = [nv EXCEPT !.desc[t] = {desc[t]}, !.private[t] = @ \union {private'[t]}]
  /\ RecoverAt(t, "private_set")
  /\ UNCHANGED desc

(* then, after its flush, isPrivateAddrSet_, *)
RecoverPrivateSet(t) ==
  /\ Recovering(t, "private_set")
  /\ desc' = [desc EXCEPT ![t].pset = TRUE]
  /\ nv' = [nv EXCEPT !.private[t] = {private[t]}, !.desc[t] = @ \union {desc'[t]}]
  /\ RecoverAt(t, "share_var")
  /\ UNCHANGED private

(* and, after the last flush, isShareVarSet_. *)
RecoverShareVar(t) ==
  /\ Recovering(t, "share_var")
  /\ desc' = [desc EXCEPT ![t].sset = TRUE]
  /\ nv' = [nv EXCEPT !.desc[t] = {desc[t], desc'[t]}]
  /\ RecoverNext(t)
  /\ UNCHANGED private

recoverDescriptor ==
  \E t \in Threads : \/ RecoverCheck(t) \/ RecoverPrivate(t)
                     \/ RecoverPrivateSet(t) \/ RecoverShareVar(t)

=============================================================================
