--------------------------- MODULE ThreadRegistry ---------------------------
(***************************************************************************)
(* Thread of src/common/environment_internal.{h,cc}: a std::thread with a  *)
(* registry of thread-local variables, so that they can be reset when what *)
(* they point to goes away.  A pointer to a variable is modelled by the    *)
(* thread whose copy it is: tls is a function from threads to values.      *)
(***************************************************************************)
EXTENDS Integers, SequencesExt

CONSTANT Threads

VARIABLE registry   \* registry_, per thread id: its TlsList

(* The id of a Thread object without a thread, such as one that is joined. *)
NoId == 0

RegistryInit == registry = [t \in Threads |-> <<>>]

(* By the thread itself; a missing TlsList is the same as an empty one. *)
RegisterTls(t, val) ==
  registry' = [registry EXCEPT ![t] = Append(@, [ptr |-> t, val |-> val])]

(* "*entry.first = entry.second" for each entry of a TlsList: the last one *)
(* for a variable stays.                                                   *)
Reset(tls, list) ==
  [t \in DOMAIN tls |->
     LET mine == {i \in DOMAIN list : list[i].ptr = t}
     IN IF mine = {} THEN tls[t] ELSE list[Max(mine)].val]

(***************************************************************************)
(* ClearTls() on a Thread object with this get_id(); tls becomes after.    *)
(***************************************************************************)
ClearTls(id, tls, after) ==
  IF id \in DOMAIN registry
  THEN after = Reset(tls, registry[id]) /\ registry' = [registry EXCEPT ![id] = <<>>]
  ELSE after = tls /\ UNCHANGED registry

(***************************************************************************)
(* join(), and later the destructor: ClearTls() comes after the            *)
(* std::thread::join() that leaves the object without a thread, and so     *)
(* finds no TlsList.  The entries stay behind.                             *)
(***************************************************************************)
join(tls, after) == ClearTls(NoId, tls, after)

(* Mutant: the lists are emptied and the variables left as they are. *)
ClearRegistryOnly(tls, after) ==
  /\ after = tls
  /\ registry' = [t \in Threads |-> <<>>]

(* ClearRegistry(): all lists, each with variables of its own thread only. *)
ClearRegistry(tls, after) ==
  /\ after = [t \in Threads |-> Reset(tls, registry[t])[t]]
  /\ registry' = [t \in Threads |-> <<>>]

=============================================================================
