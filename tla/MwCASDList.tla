----------------------------- MODULE MwCASDList -----------------------------
(***************************************************************************)
(* src/double-linked-list: class MwCASDList, whose links change only by a  *)
(* multi-word CAS.  Its reads go through GetValueProtected and its writes  *)
(* through Descriptor::MwCAS, which are single steps here (PMwCAS models   *)
(* how they come to be); each is one action.                               *)
(***************************************************************************)
EXTENDS DList

Mw(t, pc) == kind = "mwcas" /\ At(t, pc)

(* The call took effect, and returns. *)
Took(l) == [Idle EXCEPT !.pc = "return", !.op = l.op, !.took = TRUE]

(* Where a call starts; nothing is before the head or after the tail. *)
MwStart(op) ==
  IF op.op \in {"walk", "walk back"} THEN Walk(op)
  ELSE IF op.op = "delete" THEN [Idle EXCEPT !.pc = "delete", !.op = op]
  ELSE IF (op.op = "before" /\ op.anchor # head_) \/ op.anchor = tail_
         THEN [Idle EXCEPT !.pc = "before", !.op = op, !.nxt = op.anchor]
  ELSE [Idle EXCEPT !.pc = "after", !.op = op, !.prev = op.anchor]

(* Mutant: the call retries with the deleted node. *)
FastForwardNot(l, n) == l

(* "If the guy supposed to be behind me got deleted, fast forward to its next node". *)
FastForward(l, n) == [l EXCEPT !.nxt = n]

(* GetNext and GetPrev follow a link, whether or not it is marked. *)
MwGetNext(t) ==
  \/ Mw(t, "walk") /\ Read(t, Visit(local[t], nx[local[t].gn].n))
  \/ Mw(t, "next") /\ Read(t, FastForward(To(t, "before"), nx[local[t].nxt].n))

MwGetPrev(t) ==
  \/ Mw(t, "walk back") /\ Read(t, Visit(local[t], pv[local[t].gn].n))
  \/ Mw(t, "prev") /\ Read(t, [To(t, "after") EXCEPT !.prev = pv[@].n])

-----------------------------------------------------------------------------
(* Mutant: the insert leaves next's prev pointer out of its CAS. *)
MwCASInsertOneWord(t, again) ==
  LET l == local[t] IN
  IF nx[l.prev] = Ptr(l.nxt)
    THEN /\ nx' = [nx EXCEPT ![l.op.node] = Ptr(l.nxt), ![l.prev] = Ptr(l.op.node)]
         /\ pv' = [pv EXCEPT ![l.op.node] = Ptr(l.prev)]
         /\ Goto(t, Took(l))
    ELSE Read(t, To(t, again))

(***************************************************************************)
(* The two-word CAS of the inserts: node between prev and next, provided   *)
(* they still are neighbours.                                              *)
(***************************************************************************)
MwCASInsert(t, again) ==
  LET l == local[t] IN
  IF nx[l.prev] = Ptr(l.nxt) /\ pv[l.nxt] = Ptr(l.prev)
    THEN /\ nx' = [nx EXCEPT ![l.op.node] = Ptr(l.nxt), ![l.prev] = Ptr(l.op.node)]
         /\ pv' = [pv EXCEPT ![l.op.node] = Ptr(l.prev), ![l.nxt] = Ptr(l.op.node)]
         /\ Goto(t, Took(l))
    ELSE Read(t, To(t, again))

MwInsertBefore(t) ==
  LET l == local[t] IN
  \/ Mw(t, "before") /\ Read(t, [To(t, "next next") EXCEPT !.prev = pv[l.nxt].n])
  \/ Mw(t, "next next") /\ Read(t, To(t, IF nx[l.nxt].del THEN "next" ELSE "prev next"))
  \/ Mw(t, "prev next") /\ Read(t, To(t, IF nx[l.prev].del THEN "before" ELSE "insert before"))
  \/ Mw(t, "insert before") /\ MwCASInsert(t, "before")

MwInsertAfter(t) ==
  LET l == local[t] IN
  \/ Mw(t, "after") /\ Read(t, IF nx[l.prev].del THEN To(t, "prev")
                               ELSE [To(t, "behind") EXCEPT !.nxt = nx[l.prev].n])
  \/ Mw(t, "behind") /\ Read(t, To(t, IF nx[l.nxt].del THEN "after" ELSE "insert after"))
  \/ Mw(t, "insert after") /\ MwCASInsert(t, "after")

(***************************************************************************)
(* The neighbours are read one by one; the three-word CAS unlinks node and *)
(* marks it, provided all three are as they were read.  next->prev is read *)
(* through a pointer that must not be marked.                              *)
(***************************************************************************)
MwCASDelete(t) ==
  LET l == local[t]
      n == l.op.node
  IN IF nx[l.prev] = Ptr(n) /\ pv[l.val.n] = Ptr(n) /\ nx[n] = l.val
       THEN /\ nx' = [nx EXCEPT ![l.prev] = l.val, ![n] = Marked(l.val)]
            /\ pv' = [pv EXCEPT ![l.val.n] = Ptr(l.prev)]
            /\ Goto(t, Took(l))
       ELSE Read(t, To(t, "delete"))

(* Mutant: prev->next is not looked at. *)
CheckPrevSkipped(t) == Read(t, To(t, "check next"))

CheckPrev(t) ==
  Read(t, To(t, IF nx[local[t].prev] # Ptr(local[t].op.node) THEN "delete" ELSE "check next"))

MwDelete(t) ==
  LET l == local[t]
      n == l.op.node
  IN \/ /\ Mw(t, "delete")
        /\ Read(t, IF nx[n].del \/ n \in {head_, tail_} THEN Took(l) ELSE To(t, "get prev"))
     \/ Mw(t, "get prev") /\ Read(t, [To(t, "get next") EXCEPT !.prev = pv[n].n])
     \/ Mw(t, "get next") /\ Read(t, [To(t, "check prev") EXCEPT !.val = nx[n]])
     \/ Mw(t, "check prev") /\ CheckPrev(t)
     \/ /\ Mw(t, "check next")
        /\ Read(t, To(t, IF l.val.del THEN "fault"
                         ELSE IF pv[l.val.n] # Ptr(n) THEN "delete" ELSE "unlink"))
     \/ Mw(t, "unlink") /\ MwCASDelete(t)

MwStep(t) ==
  MwGetNext(t) \/ MwGetPrev(t) \/ MwInsertBefore(t) \/ MwInsertAfter(t) \/ MwDelete(t)

=============================================================================
