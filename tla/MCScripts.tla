----------------------------- MODULE MCScripts -----------------------------
(* Small sets of operations that the instances of PMwCAS run. *)
EXTENDS Integers, Sequences

Entry(a, old, new) == [address |-> a, old |-> old, new |-> new]
RunMwCAS(d) == [op |-> "mwcas", d |-> d, stops |-> {"return"}]
RunWithFailure(d) == [op |-> "mwcas", d |-> d, stops |-> {"return", "decide", "swap"}]
RunRead(a) == [op |-> "read", a |-> a]

AllZero == [a \in 1 .. 2 |-> 0]

(* Two operations on the same two words, added in opposite orders. *)
CrossEntries == << <<Entry(1, 0, 1), Entry(2, 0, 1)>>,
                   <<Entry(2, 0, 2), Entry(1, 0, 2)>> >>
CrossScript == << <<RunMwCAS(1)>>, <<RunMwCAS(2)>> >>

(* The same, and a reader. *)
CrossReadScript == << <<RunMwCAS(1)>>, <<RunMwCAS(2)>>, <<RunRead(1)>> >>

(* After them, reads and a third operation that the first makes possible. *)
ThenEntries == CrossEntries \o << <<Entry(1, 1, 3)>> >>
ThenScript == << <<RunWithFailure(1), RunRead(2)>>,
                 <<RunMwCAS(2), RunRead(1), RunMwCAS(3)>> >>

(* The second operation follows on from the first. *)
ChainEntries == << <<Entry(1, 0, 1), Entry(2, 0, 1)>>,
                   <<Entry(2, 1, 2), Entry(1, 1, 2)>> >>

(* The second operation takes the word back to the value it had. *)
ABAEntries == << <<Entry(1, 0, 1)>>, <<Entry(1, 1, 0)>> >>
ABAScript == << <<RunMwCAS(1)>>, <<RunRead(1), RunMwCAS(2)>>, <<RunRead(1)>> >>

(* An operation that fails on its second word, and two readers. *)
FailEntries == << <<Entry(1, 0, 1), Entry(2, 5, 6)>> >>
FailScript == << <<RunMwCAS(1)>>, <<RunRead(1)>>, <<RunRead(1)>> >>
=============================================================================
