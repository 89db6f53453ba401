------------------------------- MODULE FASAS -------------------------------
(***************************************************************************)
(* FASASDescriptor and its pool (src/mwcas/FASASDescriptor.{h,cc}): the    *)
(* owner installs a pointer to its descriptor in the shared word; from     *)
(* then on owner and helpers persist the word, persist the success status, *)
(* and put the new value in place; the owner alone writes the private      *)
(* word.  Every attempt has a descriptor of its own: that a descriptor is  *)
(* not reused while somebody can reach it is the subject of EpochReclaim   *)
(* and DescriptorPool.  One action is one access to shared memory.         *)
(***************************************************************************)
EXTENDS FASASMemory

CONSTANT MaxAttempts  \* bound: attempts of one thread

Val(v) == [tag |-> "val", v |-> v]
Ptr(d) == [tag |-> "ptr", d |-> d]

(* Three of the bits of privateAddress_ and of opType_, scaled down. *)
SuccStatus == 1
FailedStatus == 0
IsPrivateValueSetFlg == 2
StatusFlg == 4

(***************************************************************************)
(* A descriptor after Initialize(): privateAddress_ is null, and recovery  *)
(* skips it.  priv says whether privateAddress_ is set; succ and set are   *)
(* its StatusFlg and IsPrivateValueSetFlg.                                 *)
(***************************************************************************)
Fresh == [priv |-> 0, succ |-> 0, set |-> 0,
          old |-> 0, op |-> [op |-> "fasas", new |-> 0]]

isPrivateValueSet(line) == line.set * IsPrivateValueSetFlg
getStatus(line) == line.succ * StatusFlg

Descs == Threads \X (1 .. MaxAttempts)

PlainInit ==
  /\ kind = "plain"
  /\ shared = Val(0)
  /\ private = [t \in Threads |-> 0]
  /\ desc = [d \in Descs |-> Fresh]
  /\ nv = [shared |-> {shared}, desc |-> [d \in Descs |-> {Fresh}],
           private |-> [t \in Threads |-> {0}]]

-----------------------------------------------------------------------------
(* The callers, and the read getValueProtectedOfSharedVar *)

(* h is the descriptor being worked on, back where a helper goes on. *)
PlainLocal(t, op) ==
  [pc |-> IF op.op \in {"fasas", "read"} THEN "load" ELSE "prepare",
   op |-> op, old |-> IF op.op \in {"dcas", "rcas"} THEN op.old ELSE 0,
   d |-> <<t, 1>>, h |-> <<t, 1>>, back |-> "none", saw |-> 0, res |-> None]

PlainBegin(t) ==
  /\ Call(t, PlainLocal(t, Script[t][next[t]]))
  /\ UNCHANGED <<words, desc, nv>>

(* helpProcess on descriptor d begins; l goes on at pc back. *)
Help(t, l, d, back) == Goto(t, [l EXCEPT !.pc = "help", !.h = d, !.back = back])

(***************************************************************************)
(* A pointer is helped and the word read again.  No word ever has the      *)
(* dirty flag, so a value is returned as it is.                            *)
(***************************************************************************)
Load(t) ==
  /\ At(t, "load")
  /\ LET l == local[t] IN
       CASE shared.tag = "ptr" -> Help(t, l, shared.d, "load")
         [] shared.tag = "val" /\ l.op.op = "read" ->
              Goto(t, [l EXCEPT !.pc = "return", !.res = Value(shared.v),
                                !.saw = Len(hist)])
         [] OTHER -> Goto(t, [l EXCEPT !.pc = "prepare", !.old = shared.v])
  /\ UNCHANGED <<words, desc, nv>>

-----------------------------------------------------------------------------
(* process() *)

(* addSharedWord, then setPrivateAddress. *)
addSharedWord(line, old, op) == [line EXCEPT !.old = old, !.op = op]
setPrivateAddress(line) == [line EXCEPT !.priv = 1]

(***************************************************************************)
(* AllocateDescriptor, setOpType, addSharedWord and setPrivateAddress.     *)
(* Recovery skips all lines of this sequence but the last.                 *)
(***************************************************************************)
Prepare(t) ==
  /\ At(t, "prepare")
  /\ \E n \in 1 .. MaxAttempts :
       /\ desc[<<t, n>>] = Fresh /\ \A m \in 1 .. n - 1 : desc[<<t, m>>] # Fresh
       /\ StoreDesc(<<t, n>>, <<setPrivateAddress(
                                  addSharedWord(Fresh, local[t].old, local[t].op))>>)
       /\ Goto(t, [local[t] EXCEPT !.pc = "flush_desc", !.d = <<t, n>>,
                                   !.h = <<t, n>>])
  /\ UNCHANGED words

(* "persist before making the descriptor visible" *)
FlushDescriptor(t) ==
  FlushStep(t, "flush_desc", FlushDesc(local[t].d), To(t, "install"))

(***************************************************************************)
(* addDescriptorToShareVar: the compare-exchange that installs the         *)
(* pointer.  Another pointer is helped first, another value is a failure:  *)
(* the descriptor is given away, and a fetch-and-store starts over.        *)
(***************************************************************************)
addDescriptorToShareVar(t) ==
  /\ At(t, "install")
  /\ LET l == local[t] IN
       CASE shared = Val(l.old) ->
              /\ StoreShared(Ptr(l.d))
              /\ TakeEffect(t, l.d, l.old, [l EXCEPT !.pc = "flush_word"])
         [] shared.tag = "ptr" -> Help(t, l, shared.d, "install") /\ UNCHANGED <<shared, nv>>
         [] OTHER ->
              /\ Goto(t, IF l.op.op = "fasas" THEN [l EXCEPT !.pc = "load"]
                         ELSE [l EXCEPT !.pc = "return", !.res = False,
                                        !.saw = Len(hist)])
              /\ UNCHANGED <<shared, nv>>
  /\ UNCHANGED <<private, desc>>

-----------------------------------------------------------------------------
(* What owner and helper do to the descriptor h *)

(* A helper leaves when isPrivateValueSet() is 1; it is 0 or bit 61. *)
Unless(t, pc) ==
  Goto(t, [local[t] EXCEPT !.pc = IF /\ isPrivateValueSet(desc[local[t].h]) = 1
                                     /\ local[t].back # "none"
                                  THEN local[t].back ELSE pc])

helpProcess(t) ==
  /\ At(t, "help")
  /\ Unless(t, "flush_word")
  /\ UNCHANGED <<words, desc, nv>>

(* Mutant: the word is not flushed before the status is set. *)
FlushWordSkipped(t) == Look(t, "flush_word", To(t, "status"))

FlushWord(t) == FlushStep(t, "flush_word", FlushShared, To(t, "status"))

(* persistSuccStatus: a compare-exchange, if no flag is set yet ... *)
SetStatus(t) ==
  /\ At(t, "status")
  /\ LET d == local[t].h IN
       IF desc[d].succ = 0 /\ desc[d].set = 0
       THEN StoreDesc(d, <<[desc[d] EXCEPT !.succ = 1]>>)
       ELSE UNCHANGED <<desc, nv>>
  /\ Goto(t, [local[t] EXCEPT !.pc = "flush_status"])
  /\ UNCHANGED words

(* ... and a flush, unless isPrivateValueSet() is 1. *)
FlushStatus(t) ==
  /\ At(t, "flush_status")
  /\ IF isPrivateValueSet(desc[local[t].h]) = 1 THEN UNCHANGED nv
                                                ELSE FlushDesc(local[t].h)
  /\ Unless(t, "swap")
  /\ UNCHANGED <<words, desc>>

(* Mutant: the word is compared with another form of the pointer. *)
changeShareValueNever(t) ==
  LET l == local[t] IN
  /\ At(t, "swap")
  /\ Goto(t, IF l.back = "none" THEN [l EXCEPT !.pc = "private"]
             ELSE [l EXCEPT !.pc = l.back, !.back = "none", !.h = l.d])
  /\ UNCHANGED <<words, desc, nv>>

(* The new value replaces the pointer; nobody flushes it. *)
changeShareValueWithoutFlush(t) ==
  LET l == local[t] IN
  /\ At(t, "swap")
  /\ IF shared = Ptr(l.h) THEN StoreShared(Val(desc[l.h].op.new))
                          ELSE UNCHANGED <<shared, nv>>
  /\ Goto(t, IF l.back = "none" THEN [l EXCEPT !.pc = "private"]
             ELSE [l EXCEPT !.pc = l.back, !.back = "none", !.h = l.d])
  /\ UNCHANGED <<private, desc>>

-----------------------------------------------------------------------------
(* changePrivateValueSucc, by the owner *)

StorePrivateValue(t) ==
  LET d == local[t].d IN
  /\ At(t, "private")
  /\ StorePrivate(t, Stored(desc[d].op, desc[d].old))
  /\ Goto(t, [local[t] EXCEPT !.pc = "flush_private"])
  /\ UNCHANGED <<shared, desc>>

FlushPrivateValue(t) ==
  FlushStep(t, "flush_private", FlushPrivate(t), To(t, "set_flag"))

(* privateAddress_ is stored with both flags, without a compare-exchange. *)
SetFlag(t) ==
  LET d == local[t].d IN
  /\ At(t, "set_flag")
  /\ StoreDesc(d, <<[desc[d] EXCEPT !.succ = 1, !.set = 1]>>)
  /\ Goto(t, [local[t] EXCEPT !.pc = "flush_flag"])
  /\ UNCHANGED words

FlushFlag(t) ==
  FlushStep(t, "flush_flag", FlushDesc(local[t].d), To(t, "return"))

(* Cleanup and the return to the caller. *)
PlainReturn(t) ==
  /\ At(t, "return")
  /\ Return(t)
  /\ UNCHANGED <<words, desc, nv>>

-----------------------------------------------------------------------------
(* The pool constructor after a power failure *)

PlainCrash ==
  /\ kind = "plain"
  /\ PowerFailure([k \in DOMAIN hist |-> {Ptr(hist[k].id), Val(hist[k].op.new)}])

(***************************************************************************)
(* recoverForFASAS on every descriptor whose privateAddress_ is not null,  *)
(* in the order of the pool; then all descriptors are constructed anew.    *)
(***************************************************************************)
recover ==
  LET used == {d \in Descs : desc[d].priv = 1}
      forward == {d \in used : getStatus(desc[d]) = SuccStatus}
      back == {d \in used : getStatus(desc[d]) = FailedStatus /\ shared = Ptr(d)}
      redo == {d \in forward : isPrivateValueSet(desc[d]) = 0}
      val(d) == Stored(desc[d].op, desc[d].old)
  IN /\ kind = "plain" /\ phase = "recover"
     /\ private' = [t \in Threads |->
          LET mine == {d \in redo : d[1] = t}
          IN IF mine = {} THEN private[t] ELSE val(CHOOSE d \in mine : TRUE)]
     /\ shared' = IF shared.tag = "ptr" /\ shared.d \in forward
                  THEN Val(desc[shared.d].op.new)
                  ELSE IF shared.tag = "ptr" /\ shared.d \in back
                  THEN Val(desc[shared.d].old) ELSE shared
     /\ nv' = [nv EXCEPT !.shared = {shared'},
                 !.private = [t \in Threads |-> {private'[t]}],
                 !.desc = [d \in Descs |-> @[d] \union {Fresh}]]
     /\ desc' = [d \in Descs |-> Fresh]
     /\ phase' = "recovered"
     /\ UNCHANGED <<callers, kind, recovery, crashes>>

PlainStep(t) ==
  /\ kind = "plain"
  /\ \/ PlainBegin(t) \/ Load(t) \/ Prepare(t) \/ FlushDescriptor(t)
     \/ addDescriptorToShareVar(t) \/ helpProcess(t) \/ FlushWord(t)
     \/ SetStatus(t) \/ FlushStatus(t) \/ changeShareValueWithoutFlush(t)
     \/ StorePrivateValue(t) \/ FlushPrivateValue(t) \/ SetFlag(t)
     \/ FlushFlag(t) \/ PlainReturn(t)

=============================================================================
