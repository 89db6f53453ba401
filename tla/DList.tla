-------------------------------- MODULE DList --------------------------------
(***************************************************************************)
(* src/double-linked-list: the nodes of a doubly linked list, the callers  *)
(* of IDList, and DListCursor.  MwCASDList and CASDList extend this module *)
(* with the two implementations; kind, which never changes, is the one in  *)
(* use.                                                                    *)
(***************************************************************************)
EXTENDS Integers, Sequences, FiniteSets

CONSTANTS
  Threads,
  Kinds,      \* the implementations to explore: "mwcas", "cas"
  Initial,    \* the nodes in the list at first
  Programs    \* what the threads may run: per thread, its calls

VARIABLES
  kind,
  script,     \* the program that runs, which never changes
  nx, pv,     \* per node: next and prev, pointers with a deleted mark
  local,      \* per thread: where it is in its call
  next        \* per thread: its next call

vars == <<kind, script, nx, pv, local, next>>

head_ == 0
tail_ == 99
Null == [n |-> -1, del |-> FALSE]
Ptr(n) == [n |-> n, del |-> FALSE]
Marked(p) == [p EXCEPT !.del = TRUE]    \* | kNodeDeleted
Clear(p) == [p EXCEPT !.del = FALSE]    \* & ~kNodeDeleted

NoOp == [op |-> "none"]
CallsOf(t) == UNION {{p[t][i] : i \in DOMAIN p[t]} : p \in Programs}
Calls == UNION {CallsOf(t) : t \in Threads}
Nodes == {head_, tail_} \union {Initial[i] : i \in DOMAIN Initial}
           \union {c.node : c \in {d \in Calls : d.op \in {"before", "after"}}}

(***************************************************************************)
(* The locals of a call, named as in the code, and of the procedures it    *)
(* may be in: gn, gnext and ret of GetNext; cp, cn, last, link and cret of *)
(* CorrectPrev; dret of Delete.  seen are the nodes a cursor has visited,  *)
(* and present the nodes that have been in the list ever since it started. *)
(***************************************************************************)
Idle ==
  [pc |-> "idle", op |-> NoOp, took |-> FALSE, prev |-> head_, nxt |-> head_, val |-> Null,
   gn |-> head_, gnext |-> head_, ret |-> "", cp |-> Null, cn |-> head_, last |-> -1,
   link |-> Null, cret |-> "", dret |-> "", seen |-> {}, present |-> {}]

(* The constructor, and the insertion of the initial nodes. *)
Init ==
  LET all == <<head_>> \o Initial \o <<tail_>> IN
  /\ kind \in Kinds /\ script \in Programs
  /\ nx = [n \in Nodes |-> IF \E i \in 1 .. Len(all) - 1 : all[i] = n
             THEN Ptr(all[1 + CHOOSE i \in DOMAIN all : all[i] = n]) ELSE Null]
  /\ pv = [n \in Nodes |-> IF \E i \in 2 .. Len(all) : all[i] = n
             THEN Ptr(all[(CHOOSE i \in DOMAIN all : all[i] = n) - 1]) ELSE Null]
  /\ local = [t \in Threads |-> Idle]
  /\ next = [t \in Threads |-> 1]

(* The nodes from n on whose next pointer is not marked. *)
RECURSIVE LiveAfter(_)
LiveAfter(n) ==
  LET m == nx[n].n IN
  IF m \in {tail_, -1} THEN <<>>
  ELSE (IF nx[m].del THEN <<>> ELSE <<m>>) \o LiveAfter(m)

list == LiveAfter(head_)
InList == {list[i] : i \in DOMAIN list}

At(t, pc) == local[t].pc = pc

(***************************************************************************)
(* A step of t, whose locals become l.  A cursor's present nodes lose what *)
(* the step deletes.                                                       *)
(***************************************************************************)
Goto(t, l) ==
  /\ local' = [u \in Threads |->
       LET k == IF u = t THEN l ELSE local[u] IN
       IF k.present = {} THEN k ELSE [k EXCEPT !.present = {n \in @ : ~nx'[n].del}]]
  /\ UNCHANGED <<kind, script, next>>

Read(t, l) == UNCHANGED <<nx, pv>> /\ Goto(t, l)
To(t, pc) == [local[t] EXCEPT !.pc = pc]

(* The nodes t has met: those in the list now or at first, and its own. *)
Known(t) ==
  {head_, tail_} \union InList \union {Initial[i] : i \in DOMAIN Initial}
    \union {script[t][i].node : i \in {j \in 1 .. next[t] - 1 :
                                        script[t][j].op \in {"before", "after"}}}

(* The first step of a call, chosen by the operation and the implementation. *)
Call(t, start(_)) ==
  /\ At(t, "idle") /\ next[t] <= Len(script[t])
  /\ LET op == script[t][next[t]] IN
       /\ op.op \in {"before", "after"} => op.anchor \in Known(t)
       /\ op.op = "delete" => op.node \in Known(t)
  /\ Read(t, start(script[t][next[t]]))

Return(t) ==
  /\ At(t, "return")
  /\ local' = [local EXCEPT ![t] = Idle]
  /\ next' = [next EXCEPT ![t] = @ + 1]
  /\ UNCHANGED <<kind, script, nx, pv>>

AllDone == \A t \in Threads : next[t] > Len(script[t])

-----------------------------------------------------------------------------
(* DListCursor: Next() from the head, or Prev() from the tail *)

Walk(op) == [Idle EXCEPT !.pc = IF op.op = "walk" THEN "walk" ELSE "walk back", !.op = op,
               !.gn = IF op.op = "walk" THEN head_ ELSE tail_, !.nxt = tail_, !.present = InList]

(* The cursor is at n. *)
Visit(l, n) ==
  IF n \in {head_, tail_}
    THEN [Idle EXCEPT !.pc = "return", !.op = l.op, !.seen = l.seen, !.present = l.present]
  ELSE [l EXCEPT !.pc = IF l.op.op = "walk" THEN "walk" ELSE "walk back",
                 !.gn = n, !.nxt = n, !.seen = @ \union {n}]

=============================================================================
