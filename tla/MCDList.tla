------------------------------- MODULE MCDList -------------------------------
(***************************************************************************)
(* Up to three threads on a list of two nodes, which are 1 and 2; the      *)
(* programs bring together, around the same nodes, the calls that can      *)
(* disturb one another.                                                    *)
(***************************************************************************)
EXTENDS DListSystem

Insert(where, anchor, node) == [op |-> where, anchor |-> anchor, node |-> node]
Remove(node) == [op |-> "delete", node |-> node]
Forward == [op |-> "walk"]
Backward == [op |-> "walk back"]

InitialNodes == <<1, 2>>

ListPrograms ==
  { \* the anchor is deleted, and so is its neighbour
    << <<Remove(1), Remove(head_), Insert("after", tail_, 5)>>,
       <<Insert("after", 1, 4), Remove(2), Backward>>, <<>> >>,
    \* a node is deleted while it is being inserted
    << <<Insert("before", 2, 4), Insert("after", 4, 5)>>,
       <<Remove(2), Remove(4), Forward>>, <<>> >>,
    \* adjacent deletes, and an insert between them
    << <<Remove(1)>>, <<Remove(2)>>, <<Insert("after", 1, 4)>> >>,
    \* the same node is deleted twice, under a cursor
    << <<Remove(1)>>, <<Remove(1)>>, <<Backward>> >>,
    << <<Remove(1), Insert("before", head_, 4)>>, <<Remove(1), Forward>>, <<>> >> }

=============================================================================
