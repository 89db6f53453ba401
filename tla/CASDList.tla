------------------------------ MODULE CASDList ------------------------------
(***************************************************************************)
(* src/double-linked-list: class CASDList, which builds the same list from *)
(* single-word CAS: a node is deleted once its next pointer is marked, and *)
(* whoever meets it helps to unlink it.  An action is one access to a      *)
(* link.  GetNext and CorrectPrev are called from several places: ret and  *)
(* cret are where they go on.  MarkNodePointer, a loop that ends when the  *)
(* mark is set, is one step.  Dirty flags are left out: a CAS that fails   *)
(* because of one is followed by a retry that clears it.                   *)
(***************************************************************************)
EXTENDS MwCASDList

Cas(t, pc) == kind = "cas" /\ At(t, pc)

(* Unless the CAS of node n's next succeeds, the links stay as they are. *)
CasNext(n, old, new) ==
  nx' = IF nx[n] = old THEN [nx EXCEPT ![n] = new] ELSE nx

MarkNodePointer(n) == pv' = [pv EXCEPT ![n].del = TRUE]

-----------------------------------------------------------------------------
CallGetNext(l, n, ret) == [l EXCEPT !.pc = "gn next", !.gn = n, !.gnext = head_, !.ret = ret]

CallCorrectPrev(l, prev, node, cret) ==
  [l EXCEPT !.pc = "cp link", !.cp = prev, !.cn = node, !.last = -1, !.val = Null, !.cret = cret]

(* GetNext returns n, to Next of the cursor, to GetPrev or to InsertBefore. *)
GotNext(l, n) ==
  LET k == [l EXCEPT !.gn = head_, !.gnext = head_, !.val = Null, !.ret = ""] IN
  CASE l.ret = "walk" -> IF n = tail_ THEN Visit(k, n) ELSE CallGetNext(Visit(k, n), n, "walk")
    [] l.ret = "walk back" -> [k EXCEPT !.pc = "walk back", !.nxt = n]
    [] l.ret = "before" -> CallCorrectPrev(FastForward(k, n), Ptr(k.prev), n, "before")

(* GetNext: the first node after gn that is not deleted, unlinking those that are. *)
GetNext(t) ==
  LET l == local[t] IN
  \/ /\ Cas(t, "gn next")
     /\ Read(t, IF l.gn = tail_ THEN GotNext(l, -1)
                ELSE [To(t, "gn next next") EXCEPT !.gnext = nx[l.gn].n])
  \/ /\ Cas(t, "gn next next")
     /\ Read(t, IF nx[l.gnext].del THEN [To(t, "gn again") EXCEPT !.val = nx[l.gnext]]
                ELSE GotNext(l, l.gnext))
  \/ /\ Cas(t, "gn again")
     /\ Read(t, IF nx[l.gn] # Marked(Ptr(l.gnext)) THEN To(t, "gn mark")
                ELSE [To(t, "gn next") EXCEPT !.gn = l.gnext])
  \/ /\ Cas(t, "gn mark")
     /\ MarkNodePointer(l.gnext) /\ UNCHANGED nx
     /\ Goto(t, To(t, "gn unlink"))
  \/ /\ Cas(t, "gn unlink")
     /\ CasNext(l.gn, Ptr(l.gnext), Clear(l.val)) /\ UNCHANGED pv
     /\ Goto(t, To(t, "gn next"))

-----------------------------------------------------------------------------
(* CorrectPrev(prev, node): find node's predecessor from prev on, and store it *)

Corrected(l) ==
  IF l.cret = "return" THEN Took(l)
  ELSE [l EXCEPT !.pc = l.cret, !.cp = Null, !.cn = head_, !.last = -1, !.link = Null,
                 !.val = Null, !.cret = ""]

(* Go on from prev, which must not be null. *)
TryPrev(l, prev, last) ==
  [l EXCEPT !.pc = IF prev = Null THEN "fault" ELSE "cp link", !.cp = prev, !.last = last,
            !.val = Null]

CorrectPrev(t) ==
  LET l == local[t]
      p == l.cp.n
  IN \/ /\ Cas(t, "cp link")
        /\ Read(t, IF pv[l.cn].del THEN Corrected(l)
                   ELSE [To(t, "cp next") EXCEPT !.link = pv[l.cn]])
     \/ /\ Cas(t, "cp next")
        /\ Read(t, IF nx[p].del /\ l.last # -1 THEN [To(t, "cp mark") EXCEPT !.val = nx[p]]
                   ELSE IF nx[p].del THEN To(t, "cp back")
                   ELSE IF nx[p] # Ptr(l.cn) THEN TryPrev(l, nx[p], p)
                   ELSE To(t, "cp store"))
     \/ /\ Cas(t, "cp mark")
        /\ MarkNodePointer(p) /\ UNCHANGED nx
        /\ Goto(t, To(t, "cp unlink"))
     \/ /\ Cas(t, "cp unlink")
        /\ CasNext(l.last, l.cp, Clear(l.val)) /\ UNCHANGED pv
        /\ Goto(t, TryPrev(l, Ptr(l.last), -1))
     \/ Cas(t, "cp back") /\ Read(t, TryPrev(l, pv[p], -1))
     \/ /\ Cas(t, "cp store")
        /\ IF pv[l.cn] = l.link
             THEN /\ pv' = [pv EXCEPT ![l.cn] = Ptr(p)] /\ UNCHANGED nx
                  /\ Goto(t, To(t, "cp check"))
             ELSE Read(t, To(t, "cp link"))
     \/ /\ Cas(t, "cp check")
        /\ Read(t, IF pv[p].del THEN To(t, "cp link") ELSE Corrected(l))

-----------------------------------------------------------------------------
(* GetPrev, from the cursor at nxt *)

(* Mutant: prev is not looked at again. *)
IsPredecessorUnchecked(l) == ~nx[l.nxt].del

(* prev, whose next pointer was read as val, is right before nxt. *)
IsPredecessor(l) == l.val = Ptr(l.nxt) /\ ~nx[l.nxt].del

GetPrev(t) ==
  LET l == local[t] IN
  \/ Cas(t, "walk back") /\ Read(t, [To(t, "gp prev next") EXCEPT !.prev = pv[l.nxt].n])
  \/ Cas(t, "gp prev next") /\ Read(t, [To(t, "gp next") EXCEPT !.val = nx[l.prev]])
  \/ /\ Cas(t, "gp next")
     /\ Read(t, IF IsPredecessor(l) THEN [Visit(l, l.prev) EXCEPT !.val = Null]
                ELSE IF nx[l.nxt].del THEN CallGetNext(l, l.nxt, "walk back")
                ELSE CallCorrectPrev(l, Ptr(l.prev), l.nxt, "walk back"))

-----------------------------------------------------------------------------
(* InsertBefore, InsertAfter and Delete *)

(* node's own links, which no one sees until it is installed. *)
SetNode(n, prev, nxt) ==
  /\ nx' = [nx EXCEPT ![n] = Ptr(nxt)]
  /\ pv' = [pv EXCEPT ![n] = Ptr(prev)]

(* Mutant: the CAS does not mind the deleted mark. *)
InstallUnmarked(t, then, else) ==
  LET l == local[t] IN
  IF nx[l.prev].n = l.nxt
    THEN /\ nx' = [nx EXCEPT ![l.prev] = Ptr(l.op.node)]
         /\ UNCHANGED pv
         /\ Goto(t, [then EXCEPT !.took = TRUE])
    ELSE Read(t, else)

(* The CAS that installs node between prev and nxt; then or else is next. *)
Install(t, then, else) ==
  LET l == local[t] IN
  IF nx[l.prev] = Ptr(l.nxt)
    THEN /\ nx' = [nx EXCEPT ![l.prev] = Ptr(l.op.node)]
         /\ UNCHANGED pv
         /\ Goto(t, [then EXCEPT !.took = TRUE])
    ELSE Read(t, else)

InsertBefore(t) ==
  LET l == local[t] IN
  \/ Cas(t, "before") /\ Read(t, [To(t, "ib next") EXCEPT !.prev = pv[l.nxt].n])
  \/ /\ Cas(t, "ib next")
     /\ IF nx[l.nxt].del THEN Read(t, CallGetNext(l, l.nxt, "before"))
        ELSE SetNode(l.op.node, l.prev, l.nxt) /\ Goto(t, To(t, "ib install"))
  \/ /\ Cas(t, "ib install")
     /\ Install(t, CallCorrectPrev(l, Ptr(l.prev), l.nxt, "return"),
                   CallCorrectPrev(l, Ptr(l.prev), l.nxt, "before"))

InsertAfter(t) ==
  LET l == local[t] IN
  \/ /\ Cas(t, "after")
     /\ SetNode(l.op.node, l.prev, nx[l.prev].n)
     /\ Goto(t, [To(t, "ia install") EXCEPT !.val = nx[l.prev], !.nxt = nx[l.prev].n])
  \/ /\ Cas(t, "ia install")
     /\ Install(t, CallCorrectPrev(l, Ptr(l.prev), l.nxt, "return"),
          IF l.val.del THEN [l EXCEPT !.pc = "delete", !.dret = "before", !.nxt = l.prev]
          ELSE To(t, "after"))

(* Delete marks next, which decides, then prev, and has the links repaired. *)
Delete(t) ==
  LET l == local[t]
      n == l.op.node
  IN \/ /\ Cas(t, "delete")
        /\ Read(t, IF n \in {head_, tail_} \/ nx[n].del
                     THEN [l EXCEPT !.pc = l.dret, !.took = l.dret = "return"]
                   ELSE [To(t, "mark next") EXCEPT !.val = nx[n]])
     \/ /\ Cas(t, "mark next")
        /\ CasNext(n, l.val, Marked(l.val)) /\ UNCHANGED pv
        /\ Goto(t, IF nx[n] # l.val THEN To(t, "delete")
                   ELSE [To(t, "mark prev") EXCEPT !.took = l.dret = "return"])
     \/ /\ Cas(t, "mark prev")
        /\ MarkNodePointer(n) /\ UNCHANGED nx
        /\ Goto(t, CallCorrectPrev(l, Clear(pv[n]), l.val.n, l.dret))

CasStart(op) ==
  IF op.op = "walk" THEN CallGetNext(Walk(op), head_, "walk")
  ELSE [MwStart(op) EXCEPT !.dret = IF op.op = "delete" THEN "return" ELSE ""]

CasStep(t) ==
  GetNext(t) \/ CorrectPrev(t) \/ GetPrev(t) \/ InsertBefore(t)
    \/ InsertAfter(t) \/ Delete(t)

=============================================================================
