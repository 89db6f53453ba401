---------------------------- MODULE AtomicDList ----------------------------
(***************************************************************************)
(* What a doubly linked list promises its callers: a list that every call  *)
(* changes at most once, in one step, somewhere between call and return.   *)
(***************************************************************************)
EXTENDS Sequences, SequencesExt

CONSTANTS Threads, head_, tail_, Ops(_)

VARIABLES
  list,   \* the nodes, without head and tail
  op,     \* per thread: its running call, or None
  took    \* per thread: has its call taken effect?

None == [op |-> "none"]
vars == <<list, op, took>>

AtomicInit(initial) ==
  list = initial /\ op = [t \in Threads |-> None] /\ took = [t \in Threads |-> FALSE]

Begin(t) ==
  /\ op[t] = None
  /\ \E o \in Ops(t) : op' = [op EXCEPT ![t] = o]
  /\ took' = [took EXCEPT ![t] = FALSE]
  /\ UNCHANGED list

(* x immediately precedes y in l, which includes head and tail. *)
Adjacent(x, y, l) == \E i \in 1 .. Len(l) - 1 : l[i] = x /\ l[i + 1] = y

(***************************************************************************)
(* "Insert [node] in front of [next] - [node] might end up before another  *)
(* node in case [prev] is being deleted": next to its anchor while that is *)
(* in the list, anywhere otherwise.  Nothing is in front of the head, or   *)
(* behind the tail.                                                        *)
(***************************************************************************)
Insert(t) ==
  LET o == op[t]
      all == <<head_>> \o list' \o <<tail_>>
      before == (o.op = "before" /\ o.anchor # head_) \/ o.anchor = tail_
  IN /\ o.op \in {"before", "after"} /\ ~took[t]
     /\ \E i \in 1 .. Len(list) + 1 : list' = InsertAt(list, i, o.node)
     /\ o.anchor \in {head_, tail_} \union {list[i] : i \in DOMAIN list} =>
          IF before THEN Adjacent(o.node, o.anchor, all)
                    ELSE Adjacent(o.anchor, o.node, all)
     /\ took' = [took EXCEPT ![t] = TRUE]
     /\ UNCHANGED op

(* The node is gone, and may have been before. *)
Delete(t) ==
  /\ op[t].op = "delete" /\ ~took[t]
  /\ list' = SelectSeq(list, LAMBDA n : n # op[t].node)
  /\ took' = [took EXCEPT ![t] = TRUE]
  /\ UNCHANGED op

Return(t) ==
  /\ op[t] # None
  /\ op[t].op \in {"before", "after", "delete"} => took[t]
  /\ op' = [op EXCEPT ![t] = None]
  /\ took' = [took EXCEPT ![t] = FALSE]
  /\ UNCHANGED list

Steps ==
  [][\E t \in Threads : Begin(t) \/ Insert(t) \/ Delete(t) \/ Return(t)]_vars

=============================================================================
