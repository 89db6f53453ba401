---------------------------- MODULE FASASProofs ----------------------------
(***************************************************************************)
(* The plain FASAS descriptors are an atomic fetch-and-store-and-store, a  *)
(* double-word CAS and a recoverable CAS for as long as the power is on.   *)
(*                                                                         *)
(* The compare-exchange that installs the descriptor is the atomic step:   *)
(* from then on the pointer in the shared word stands for the new value,   *)
(* and the private word is owed by the owner.  Why helpers may put the new *)
(* value in place at any time: what a descriptor says of its operation     *)
(* does not change from its preparation on.                                *)
(***************************************************************************)
EXTENDS FASASSystem, TLAPS

(* Time for the longest leaves. *)
USE ZenonT(4), SMTT(10), ZenonT(40), SMTT(60), ZenonT(150)

-----------------------------------------------------------------------------

(* The local variables of an operation. *)
Locals(pc, op, old, d, h, back, saw, res) ==
  [pc |-> pc, op |-> op, old |-> old, d |-> d, h |-> h, back |-> back,
   saw |-> saw, res |-> res]

IsLocals(l) == l = Locals(l.pc, l.op, l.old, l.d, l.h, l.back, l.saw, l.res)

(* The places of an owner before its operation has taken effect, those of  *)
(* owner and helper at a descriptor, and those of the owner afterwards.    *)
Attempting == {"load", "prepare", "flush_desc", "install"}
Processing == {"help", "flush_word", "status", "flush_status", "swap"}
Storing == {"private", "flush_private", "set_flag", "flush_flag"}

Helps(l) == l.pc \in Processing /\ l.back # "none"

(* The operation has not taken effect. *)
Waits(l) == l.pc \in Attempting \/ Helps(l)

(* Its descriptor is filled in. *)
Prepared(l) ==
  \/ l.pc \in {"flush_desc", "install"} \union Storing
  \/ l.pc \in Processing /\ l.back # "load"

(* Descriptor d is that of operation op of thread t, for the value old. *)
Describes(d, t, op, old) ==
  d \in Descs /\ d[1] = t /\ desc[d].priv = 1 /\ desc[d].op = op /\ desc[d].old = old

OperationInv(t, l) ==
  /\ IsLocals(l) /\ l.op \in Range(Script[t])
  /\ l.pc \in Attempting \union Processing \union Storing \union {"return"}
  /\ l.back \in {"none", "load", "install"} /\ (l.back # "none" => l.pc \in Processing)
  /\ l.pc = "help" => l.back # "none"
  /\ l.op.op \in {"dcas", "rcas"} =>
       l.old = l.op.old /\ l.pc # "load" /\ l.back # "load"
  /\ l.op.op = "read" => l.pc \in {"load", "return"} \/ (Helps(l) /\ l.back = "load")
  /\ (l.res = None) <=> Waits(l)
  /\ Prepared(l) => Describes(l.d, t, l.op, l.old)
  /\ l.pc \in Processing => l.h \in Descs /\ (l.back = "none" => l.h = l.d)
  /\ l.pc \in {"flush_desc", "install"} => l.h = l.d

(* The shared word holds a value, or a descriptor that is filled in. *)
SharedInv ==
  \/ shared.tag = "val" /\ shared = Val(shared.v)
  \/ shared.tag = "ptr" /\ shared = Ptr(shared.d) /\ shared.d \in Descs /\ desc[shared.d].priv = 1

(* The line of a descriptor. *)
Line(p, s, f, o, op) == [priv |-> p, succ |-> s, set |-> f, old |-> o, op |-> op]

IsLine(line) ==
  line = Line(line.priv, line.succ, line.set, line.old, line.op) /\ line.set \in 0 .. 1

RunInv ==
  /\ SharedInv /\ \A d \in Descs : IsLine(desc[d])
  /\ desc = [d \in Descs |-> desc[d]] /\ private = [t \in Threads |-> private[t]]
  /\ local = [t \in Threads |-> local[t]] /\ next \in [Threads -> Nat \ {0}]
  /\ \A t \in Threads : local[t] = Idle \/ OperationInv(t, local[t])

PlainInv == kind = "plain" /\ (phase = "run" => RunInv)

-----------------------------------------------------------------------------

LEMMA FieldsOf ==
  ASSUME NEW p, NEW op, NEW o, NEW d, NEW h, NEW b, NEW s, NEW r, NEW l,
         l = Locals(p, op, o, d, h, b, s, r)
  PROVE  /\ IsLocals(l) /\ l.pc = p /\ l.op = op /\ l.old = o /\ l.d = d /\ l.h = h
         /\ l.back = b /\ l.saw = s /\ l.res = r
  BY DEF IsLocals, Locals

(* The updates that the steps use. *)
LEMMA Update ==
  ASSUME NEW l, IsLocals(l), NEW p
  PROVE  [l EXCEPT !.pc = p]
           = Locals(p, l.op, l.old, l.d, l.h, l.back, l.saw, l.res)
  <1>1. PICK q, op, v, e, k, c, n, a :
          /\ q = l.pc /\ op = l.op /\ v = l.old /\ e = l.d /\ k = l.h /\ c = l.back
          /\ n = l.saw /\ a = l.res
    OBVIOUS
  <1>2. l = Locals(q, op, v, e, k, c, n, a)
    BY <1>1 DEF IsLocals
  <1>3. [l EXCEPT !.pc = p] = Locals(p, op, v, e, k, c, n, a)
    BY SMT, <1>2 DEF Locals
  <1> QED
    BY <1>1, <1>3

LEMMA UpdateOld ==
  ASSUME NEW l, IsLocals(l), NEW p, NEW o
  PROVE  [l EXCEPT !.pc = p, !.old = o]
           = Locals(p, l.op, o, l.d, l.h, l.back, l.saw, l.res)
  <1>1. PICK q, op, v, e, k, c, n, a :
          /\ q = l.pc /\ op = l.op /\ v = l.old /\ e = l.d /\ k = l.h /\ c = l.back
          /\ n = l.saw /\ a = l.res
    OBVIOUS
  <1>2. l = Locals(q, op, v, e, k, c, n, a)
    BY <1>1 DEF IsLocals
  <1>3. PICK m : m = [l EXCEPT !.pc = p]
    OBVIOUS
  <1>4. m = Locals(p, op, v, e, k, c, n, a)
    BY SMT, <1>2, <1>3 DEF Locals
  <1>5. [m EXCEPT !.old = o] = Locals(p, op, o, e, k, c, n, a)
    BY SMT, <1>4 DEF Locals
  <1> QED
    BY <1>1, <1>3, <1>5

LEMMA UpdateDesc ==
  ASSUME NEW l, IsLocals(l), NEW p, NEW d, NEW h
  PROVE  [l EXCEPT !.pc = p, !.d = d, !.h = h]
           = Locals(p, l.op, l.old, d, h, l.back, l.saw, l.res)
  <1>1. PICK q, op, v, e, k, c, n, a :
          /\ q = l.pc /\ op = l.op /\ v = l.old /\ e = l.d /\ k = l.h /\ c = l.back
          /\ n = l.saw /\ a = l.res
    OBVIOUS
  <1>2. l = Locals(q, op, v, e, k, c, n, a)
    BY <1>1 DEF IsLocals
  <1>3. PICK m : m = [l EXCEPT !.pc = p]
    OBVIOUS
  <1>4. m = Locals(p, op, v, e, k, c, n, a)
    BY SMT, <1>2, <1>3 DEF Locals
  <1>5. PICK j : j = [m EXCEPT !.d = d]
    OBVIOUS
  <1>6. j = Locals(p, op, v, d, k, c, n, a)
    BY SMT, <1>4, <1>5 DEF Locals
  <1>7. [j EXCEPT !.h = h] = Locals(p, op, v, d, h, c, n, a)
    BY SMT, <1>6 DEF Locals
  <1> QED
    BY <1>1, <1>3, <1>5, <1>7

LEMMA UpdateHelp ==
  ASSUME NEW l, IsLocals(l), NEW p, NEW h, NEW b
  PROVE  [l EXCEPT !.pc = p, !.h = h, !.back = b]
           = Locals(p, l.op, l.old, l.d, h, b, l.saw, l.res)
  <1>1. PICK q, op, v, e, k, c, n, a :
          /\ q = l.pc /\ op = l.op /\ v = l.old /\ e = l.d /\ k = l.h /\ c = l.back
          /\ n = l.saw /\ a = l.res
    OBVIOUS
  <1>2. l = Locals(q, op, v, e, k, c, n, a)
    BY <1>1 DEF IsLocals
  <1>3. PICK m : m = [l EXCEPT !.pc = p]
    OBVIOUS
  <1>4. m = Locals(p, op, v, e, k, c, n, a)
    BY SMT, <1>2, <1>3 DEF Locals
  <1>5. PICK j : j = [m EXCEPT !.h = h]
    OBVIOUS
  <1>6. j = Locals(p, op, v, e, h, c, n, a)
    BY SMT, <1>4, <1>5 DEF Locals
  <1>7. [j EXCEPT !.back = b] = Locals(p, op, v, e, h, b, n, a)
    BY SMT, <1>6 DEF Locals
  <1> QED
    BY <1>1, <1>3, <1>5, <1>7

LEMMA UpdateBack ==
  ASSUME NEW l, IsLocals(l), NEW p, NEW b, NEW h
  PROVE  [l EXCEPT !.pc = p, !.back = b, !.h = h]
           = Locals(p, l.op, l.old, l.d, h, b, l.saw, l.res)
  <1>1. PICK q, op, v, e, k, c, n, a :
          /\ q = l.pc /\ op = l.op /\ v = l.old /\ e = l.d /\ k = l.h /\ c = l.back
          /\ n = l.saw /\ a = l.res
    OBVIOUS
  <1>2. l = Locals(q, op, v, e, k, c, n, a)
    BY <1>1 DEF IsLocals
  <1>3. PICK m : m = [l EXCEPT !.pc = p]
    OBVIOUS
  <1>4. m = Locals(p, op, v, e, k, c, n, a)
    BY SMT, <1>2, <1>3 DEF Locals
  <1>5. PICK j : j = [m EXCEPT !.back = b]
    OBVIOUS
  <1>6. j = Locals(p, op, v, e, k, b, n, a)
    BY SMT, <1>4, <1>5 DEF Locals
  <1>7. [j EXCEPT !.h = h] = Locals(p, op, v, e, h, b, n, a)
    BY SMT, <1>6 DEF Locals
  <1> QED
    BY <1>1, <1>3, <1>5, <1>7

LEMMA UpdateResult ==
  ASSUME NEW l, IsLocals(l), NEW p, NEW r, NEW w
  PROVE  [l EXCEPT !.pc = p, !.res = r, !.saw = w]
           = Locals(p, l.op, l.old, l.d, l.h, l.back, w, r)
  <1>1. PICK q, op, v, e, k, c, n, a :
          /\ q = l.pc /\ op = l.op /\ v = l.old /\ e = l.d /\ k = l.h /\ c = l.back
          /\ n = l.saw /\ a = l.res
    OBVIOUS
  <1>2. l = Locals(q, op, v, e, k, c, n, a)
    BY <1>1 DEF IsLocals
  <1>3. PICK m : m = [l EXCEPT !.pc = p]
    OBVIOUS
  <1>4. m = Locals(p, op, v, e, k, c, n, a)
    BY SMT, <1>2, <1>3 DEF Locals
  <1>5. PICK j : j = [m EXCEPT !.res = r]
    OBVIOUS
  <1>6. j = Locals(p, op, v, e, k, c, n, r)
    BY SMT, <1>4, <1>5 DEF Locals
  <1>7. [j EXCEPT !.saw = w] = Locals(p, op, v, e, k, c, w, r)
    BY SMT, <1>6 DEF Locals
  <1> QED
    BY <1>1, <1>3, <1>5, <1>7

LEMMA UpdateEffect ==
  ASSUME NEW l, IsLocals(l), NEW r, NEW w
  PROVE  [l EXCEPT !.res = r, !.saw = w]
           = Locals(l.pc, l.op, l.old, l.d, l.h, l.back, w, r)
  <1>1. PICK q, op, v, e, k, c, n, a :
          /\ q = l.pc /\ op = l.op /\ v = l.old /\ e = l.d /\ k = l.h /\ c = l.back
          /\ n = l.saw /\ a = l.res
    OBVIOUS
  <1>2. l = Locals(q, op, v, e, k, c, n, a)
    BY <1>1 DEF IsLocals
  <1>3. PICK m : m = [l EXCEPT !.res = r]
    OBVIOUS
  <1>4. m = Locals(q, op, v, e, k, c, n, r)
    BY SMT, <1>2, <1>3 DEF Locals
  <1>5. [m EXCEPT !.saw = w] = Locals(q, op, v, e, k, c, w, r)
    BY SMT, <1>4 DEF Locals
  <1> QED
    BY <1>1, <1>3, <1>5

(* What a line keeps when a flag is set. *)
LEMMA Flags ==
  ASSUME NEW line, IsLine(line), NEW new,
         \/ new = [line EXCEPT !.succ = 1]
         \/ new = [line EXCEPT !.succ = 1, !.set = 1]
  PROVE  IsLine(new) /\ new.priv = line.priv /\ new.op = line.op /\ new.old = line.old
  <1>1. PICK p, s, f, o, op : line = Line(p, s, f, o, op) /\ f \in 0 .. 1
    BY DEF IsLine
  <1>2. PICK one : one = [line EXCEPT !.succ = 1]
    OBVIOUS
  <1>3. one = Line(p, 1, f, o, op)
    BY SMT, <1>1, <1>2 DEF Line
  <1>4. new = one \/ new = [one EXCEPT !.set = 1]
    BY <1>2
  <1>5. new = Line(p, 1, f, o, op) \/ new = Line(p, 1, 1, o, op)
    BY SMT, <1>3, <1>4 DEF Line
  <1> QED
    BY SMT, <1>1, <1>5 DEF IsLine, Line

LEMMA Filled ==
  ASSUME NEW o, NEW op, NEW new, new = setPrivateAddress(addSharedWord(Fresh, o, op))
  PROVE  IsLine(new) /\ new.priv = 1 /\ new.op = op /\ new.old = o
  <1>1. PICK z, first : z = 0 /\ Fresh = Line(z, z, z, z, first)
    BY DEF Fresh, Line
  <1>2. PICK one : one = [Fresh EXCEPT !.old = o]
    OBVIOUS
  <1>3. PICK two : two = [one EXCEPT !.op = op]
    OBVIOUS
  <1>4. one = Line(z, z, z, o, first)
    BY SMT, <1>1, <1>2 DEF Line
  <1>5. two = Line(z, z, z, o, op)
    BY SMT, <1>3, <1>4 DEF Line
  <1>6. new = [two EXCEPT !.priv = 1]
    BY <1>2, <1>3 DEF setPrivateAddress, addSharedWord
  <1>7. new = Line(1, z, z, o, op)
    BY SMT, <1>5, <1>6 DEF Line
  <1> QED
    BY SMT, <1>1, <1>7 DEF IsLine, Line

LEMMA OneLine == ASSUME NEW x PROVE Last(<<x>>) = x
  BY DEF Last

-----------------------------------------------------------------------------

(* Has the operation with these variables taken effect, and not stored yet? *)
Owed(l) ==
  l.pc \in {"flush_word", "status", "flush_status", "swap", "private"} /\ l.res # None

(* Descriptors that are filled in keep what they say of their operation. *)
Keeps ==
  /\ desc' = [d \in Descs |-> desc'[d]]
  /\ \A d \in Descs :
       /\ IsLine(desc'[d])
       /\ desc[d].priv = 1 => /\ desc'[d].priv = 1 /\ desc'[d].op = desc[d].op
                              /\ desc'[d].old = desc[d].old

LEMMA OperationKept ==
  ASSUME NEW t \in Threads, NEW l, OperationInv(t, l), Keeps
  PROVE  OperationInv(t, l)'
  <1>1. \A d, op, old : Describes(d, t, op, old) => Describes(d, t, op, old)'
    BY DEF Describes, Keeps
  <1> QED
    BY <1>1 DEF OperationInv

LEMMA SharedKept ==
  ASSUME RunInv, Keeps, shared' = shared, kind = "plain", kind' = kind
  PROVE  SharedInv' /\ Logical' = Logical
  BY DEF RunInv, SharedInv, Keeps, Logical

(* A step of one thread keeps the invariant if it keeps it for the thread. *)
LEMMA RunStep ==
  ASSUME RunInv, Keeps, SharedInv', NEW t \in Threads, NEW g,
         local' = [local EXCEPT ![t] = g], g = Idle \/ OperationInv(t, g)',
         private' = [u \in Threads |-> private'[u]], next' \in [Threads -> Nat \ {0}]
  PROVE  RunInv'
  <1>1. local'[t] = g /\ \A u \in Threads : u # t => local'[u] = local[u]
    BY DEF RunInv
  <1>2. local' = [u \in Threads |-> local'[u]]
    BY DEF RunInv
  <1>3. ASSUME NEW u \in Threads PROVE local'[u] = Idle \/ OperationInv(u, local[u])' \/ u = t
    <2>1. CASE u # t /\ local[u] # Idle
      <3>1. PICK l : l = local[u]
        OBVIOUS
      <3>2. OperationInv(u, l)'
        BY <2>1, <3>1, OperationKept DEF RunInv
      <3> QED
        BY <1>1, <2>1, <3>1, <3>2
    <2> QED
      BY <1>1, <2>1
  <1> QED
    BY <1>1, <1>2, <1>3 DEF RunInv, Keeps

(* The abstract private word. *)
AbsPrivate(t) == IF Owes(t) THEN Stored(local[t].op, local[t].old) ELSE private[t]

LEMMA OwesOwed ==
  ASSUME NEW t \in Threads, NEW l, l = local[t], l = Idle \/ OperationInv(t, l)
  PROVE  Owes(t) <=> Owed(l)
  BY DEF Owes, Owed, OperationInv, Idle, Attempting, Processing, Storing

(* What a step of t from l to g means for the abstract variables. *)
LEMMA AbstractStep ==
  ASSUME RunInv, RunInv', NEW t \in Threads, NEW l, l = local[t], NEW g,
         local' = [local EXCEPT ![t] = g], \A u \in Threads : u # t => private'[u] = private[u]
  PROVE  /\ [u \in Threads |-> local'[u].res]
              = [[u \in Threads |-> local[u].res] EXCEPT ![t] = g.res]
         /\ [u \in Threads |-> AbsPrivate(u)']
              = [[u \in Threads |-> AbsPrivate(u)] EXCEPT ![t] = AbsPrivate(t)']
         /\ AbsPrivate(t) = IF Owed(l) THEN Stored(l.op, l.old) ELSE private[t]
         /\ AbsPrivate(t)' = IF Owed(g) THEN Stored(g.op, g.old) ELSE private'[t]
  <1>1. local'[t] = g /\ \A u \in Threads : u # t => local'[u] = local[u]
    BY DEF RunInv
  <1>2. Owes(t) <=> Owed(l)
    BY OwesOwed DEF RunInv
  <1>3. Owes(t)' <=> Owed(g)
    <2>1. g = Idle \/ OperationInv(t, g)'
      BY <1>1 DEF RunInv
    <2>2. g.pc \in {"idle", "return"} \union Attempting \union Processing \union Storing
      BY <2>1 DEF OperationInv, Idle
    <2> QED
      BY <1>1, <2>2 DEF Owes, Owed, Attempting, Processing, Storing
  <1>4. \A u \in Threads : u # t => (Owes(u)' <=> Owes(u))
    BY <1>1 DEF Owes
  <1>5. \A u \in Threads : u # t => AbsPrivate(u)' = AbsPrivate(u)
    BY <1>1, <1>4 DEF AbsPrivate
  <1>6. /\ AbsPrivate(t) = IF Owed(l) THEN Stored(l.op, l.old) ELSE private[t]
        /\ AbsPrivate(t)' = IF Owed(g) THEN Stored(g.op, g.old) ELSE private'[t]
    BY <1>1, <1>2, <1>3 DEF AbsPrivate
  <1>7. [u \in Threads |-> local'[u].res] = [[u \in Threads |-> local[u].res] EXCEPT ![t] = g.res]
    <2>1. PICK res, new : /\ res = [u \in Threads |-> local[u].res]
                          /\ new = [u \in Threads |-> local'[u].res]
      OBVIOUS
    <2>2. \A u \in Threads : u # t => new[u] = res[u]
      BY <1>1, <2>1
    <2>3. new[t] = g.res
      BY <1>1, <2>1
    <2>4. new = [res EXCEPT ![t] = g.res]
      BY <2>1, <2>2, <2>3
    <2> QED
      BY <2>1, <2>4
  <1>8. [u \in Threads |-> AbsPrivate(u)']
          = [[u \in Threads |-> AbsPrivate(u)] EXCEPT ![t] = AbsPrivate(t)']
    BY <1>5
  <1> QED
    BY <1>6, <1>7, <1>8

(* Steps that the atomic operation does not see. *)
LEMMA SilentStep ==
  ASSUME kind = "plain", kind' = kind, RunInv, RunInv', NEW t \in Threads, NEW l,
         l = local[t], NEW g, local' = [local EXCEPT ![t] = g], g.res = l.res,
         Logical' = Logical, private' = private, Owed(l) <=> Owed(g),
         Owed(l) => g.op = l.op /\ g.old = l.old
  PROVE  Atomic!Steps
  <1>1. /\ [u \in Threads |-> local'[u].res]
             = [[u \in Threads |-> local[u].res] EXCEPT ![t] = g.res]
        /\ [u \in Threads |-> AbsPrivate(u)']
             = [[u \in Threads |-> AbsPrivate(u)] EXCEPT ![t] = AbsPrivate(t)']
        /\ AbsPrivate(t) = IF Owed(l) THEN Stored(l.op, l.old) ELSE private[t]
        /\ AbsPrivate(t)' = IF Owed(g) THEN Stored(g.op, g.old) ELSE private'[t]
    BY AbstractStep
  <1>3. AbsPrivate(t)' = AbsPrivate(t)
    BY <1>1
  <1>2. /\ [u \in Threads |-> local'[u].res] = [u \in Threads |-> local[u].res]
        /\ [u \in Threads |-> AbsPrivate(u)'] = [u \in Threads |-> AbsPrivate(u)]
    BY <1>1, <1>3
  <1> QED
    BY <1>2 DEF Atomic!Steps, Atomic!vars, AbsPrivate

(* Most steps move one thread on, and leave both words alone. *)
LEMMA QuietStep ==
  ASSUME kind = "plain", kind' = kind, RunInv, Keeps, NEW t \in Threads, NEW l, l = local[t],
         NEW g, local' = [local EXCEPT ![t] = g], OperationInv(t, l), OperationInv(t, g)',
         g.res = l.res, g.op = l.op, UNCHANGED <<words, next>>, Owed(l) <=> Owed(g),
         Owed(l) => g.old = l.old
  PROVE  RunInv' /\ Atomic!Steps
  <1>1. shared' = shared /\ private' = private /\ next' = next
    BY DEF words
  <1>2. SharedInv' /\ Logical' = Logical
    BY <1>1, SharedKept
  <1>3. RunInv'
    <2>1. private' = [u \in Threads |-> private'[u]] /\ next' \in [Threads -> Nat \ {0}]
      BY <1>1 DEF RunInv
    <2> QED
      BY <1>2, <2>1, RunStep
  <1> QED
    BY <1>1, <1>2, <1>3, SilentStep

LEMMA Stays == ASSUME RunInv, desc' = desc PROVE Keeps
  BY DEF RunInv, Keeps

(* A thread that is not idle is in an operation. *)
LEMMA Working ==
  ASSUME RunInv, NEW t \in Threads, local[t].pc # "idle"
  PROVE  OperationInv(t, local[t])
  BY DEF RunInv, Idle

(* A step of t that only goes on to another place. *)
Onward == {<<"flush_desc", "install">>, <<"help", "flush_word">>, <<"flush_word", "status">>,
           <<"status", "flush_status">>, <<"flush_status", "swap">>,
           <<"flush_private", "set_flag">>, <<"set_flag", "flush_flag">>,
           <<"flush_flag", "return">>}

GoesTo(l, p) ==
  \/ <<l.pc, p>> \in Onward
  \/ l.pc = "private" /\ p = "flush_private"
  \/ l.pc = "swap" /\ p = "private" /\ l.back = "none"
  \/ l.pc = "install" /\ p = "load" /\ l.op.op = "fasas"

LEMMA GoesOn ==
  ASSUME NEW t \in Threads, NEW l, OperationInv(t, l), Keeps, NEW p,
         GoesTo(l, p), NEW g, g = [l EXCEPT !.pc = p]
  PROVE  /\ OperationInv(t, g)' /\ g.res = l.res /\ g.op = l.op /\ g.old = l.old /\ g.pc = p
         /\ l.pc # "private" => (Owed(l) <=> Owed(g))
  <1>1. g = Locals(p, l.op, l.old, l.d, l.h, l.back, l.saw, l.res)
    BY Update DEF OperationInv
  <1>2. /\ IsLocals(g) /\ g.pc = p /\ g.op = l.op /\ g.old = l.old /\ g.d = l.d /\ g.h = l.h
        /\ g.back = l.back /\ g.res = l.res
    BY <1>1, FieldsOf
  <1>3. OperationInv(t, l)'
    BY OperationKept
  <1>4. /\ p \in Attempting \union Processing \union Storing \union {"return"}
        /\ l.pc \in Processing /\ p \notin Processing => l.back = "none"
        /\ Waits(g) <=> Waits(l)
        /\ Prepared(g) => Prepared(l)
    BY <1>2 DEF GoesTo, Onward, OperationInv, Attempting, Processing, Storing, Waits, Helps, Prepared
  <1>5. OperationInv(t, g)'
    <2>1. /\ g.back \in {"none", "load", "install"} /\ (g.back # "none" => g.pc \in Processing)
          /\ g.pc = "help" => g.back # "none"
      BY <1>2, <1>4 DEF OperationInv, GoesTo, Onward, Processing
    <2>2. /\ g.op.op \in {"dcas", "rcas"} =>
               g.old = g.op.old /\ g.pc # "load" /\ g.back # "load"
          /\ g.op.op = "read" => g.pc \in {"load", "return"} \/ (Helps(g) /\ g.back = "load")
      BY <1>2, <1>4 DEF OperationInv, GoesTo, Onward, Processing, Helps
    <2>3. (g.res = None) <=> Waits(g)
      BY <1>2, <1>4 DEF OperationInv
    <2>4. Prepared(g) => Describes(g.d, t, g.op, g.old)'
      BY <1>2, <1>3, <1>4 DEF OperationInv
    <2>5. /\ g.pc \in Processing => g.h \in Descs /\ (g.back = "none" => g.h = g.d)
          /\ g.pc \in {"flush_desc", "install"} => g.h = g.d
      BY <1>2 DEF OperationInv, GoesTo, Onward, Processing
    <2> QED
      BY <1>2, <1>3, <1>4, <2>1, <2>2, <2>3, <2>4, <2>5 DEF OperationInv
  <1>6. l.pc # "private" => (Owed(l) <=> Owed(g))
    BY <1>2, <1>4 DEF GoesTo, Onward, Owed, OperationInv, Waits, Helps, Attempting
  <1> QED
    BY <1>2, <1>5, <1>6

LEMMA Moves ==
  ASSUME kind = "plain", RunInv, Keeps, NEW t \in Threads, NEW p, UNCHANGED words,
         <<local[t].pc, p>> \in Onward, Goto(t, [local[t] EXCEPT !.pc = p])
  PROVE  RunInv' /\ Atomic!Steps
  <1>1. PICK l, g : l = local[t] /\ g = [l EXCEPT !.pc = p]
    OBVIOUS
  <1>2. OperationInv(t, l)
    BY <1>1, Working DEF Onward
  <1>3. /\ OperationInv(t, g)' /\ g.res = l.res /\ g.op = l.op /\ g.old = l.old
        /\ Owed(l) <=> Owed(g)
    <2>1. l.pc # "private" /\ GoesTo(l, p)
      BY <1>1 DEF Onward, GoesTo
    <2> QED
      BY <1>1, <1>2, <2>1, GoesOn
  <1>4. local' = [local EXCEPT ![t] = g] /\ next' = next /\ kind' = kind
    BY <1>1 DEF Goto, Set, system
  <1> QED
    BY <1>1, <1>2, <1>3, <1>4, QuietStep

-----------------------------------------------------------------------------

(* isPrivateValueSet() is never 1. *)
LEMMA NeverLeaves ==
  ASSUME RunInv, NEW t \in Threads, NEW p, local[t].pc \in Processing, Unless(t, p)
  PROVE  isPrivateValueSet(desc[local[t].h]) # 1 /\ Goto(t, [local[t] EXCEPT !.pc = p])
  <1>1. local[t].h \in Descs
    BY Working DEF OperationInv, Processing
  <1>2. desc[local[t].h].set \in 0 .. 1
    BY <1>1 DEF RunInv, IsLine
  <1>3. isPrivateValueSet(desc[local[t].h]) # 1
    BY SMT, <1>2 DEF isPrivateValueSet, IsPrivateValueSetFlg
  <1> QED
    BY <1>3 DEF Unless

LEMMA FlushSteps ==
  ASSUME kind = "plain", RunInv, NEW t \in Threads,
         \/ FlushDescriptor(t) \/ helpProcess(t) \/ FlushWord(t) \/ FlushStatus(t)
         \/ FlushPrivateValue(t) \/ FlushFlag(t)
  PROVE  RunInv' /\ Atomic!Steps
  <1>1. PICK p : /\ <<local[t].pc, p>> \in Onward /\ Goto(t, [local[t] EXCEPT !.pc = p])
                 /\ UNCHANGED <<words, desc>>
    <2>1. CASE FlushDescriptor(t)
      BY <2>1 DEF FlushDescriptor, FlushStep, At, To, Onward
    <2>2. CASE helpProcess(t)
      BY <2>2, NeverLeaves DEF helpProcess, At, Onward, Processing
    <2>3. CASE FlushWord(t)
      BY <2>3 DEF FlushWord, FlushStep, At, To, Onward
    <2>4. CASE FlushStatus(t)
      BY <2>4, NeverLeaves DEF FlushStatus, At, Onward, Processing
    <2>5. CASE FlushPrivateValue(t)
      BY <2>5 DEF FlushPrivateValue, FlushStep, At, To, Onward
    <2>6. CASE FlushFlag(t)
      BY <2>6 DEF FlushFlag, FlushStep, At, To, Onward
    <2> QED
      BY <2>1, <2>2, <2>3, <2>4, <2>5, <2>6
  <1> QED
    BY <1>1, Stays, Moves

(* Flags of a descriptor are set, nothing else of it. *)
LEMMA FlagKeeps ==
  ASSUME RunInv, NEW d \in Descs, NEW new,
         \/ new = [desc[d] EXCEPT !.succ = 1]
         \/ new = [desc[d] EXCEPT !.succ = 1, !.set = 1],
         desc' = [desc EXCEPT ![d] = new]
  PROVE  Keeps
  <1>1. IsLine(new) /\ new.priv = desc[d].priv /\ new.op = desc[d].op /\ new.old = desc[d].old
    <2>1. PICK line : line = desc[d]
      OBVIOUS
    <2> QED
      BY <2>1, Flags DEF RunInv
  <1>2. desc'[d] = new /\ \A e \in Descs : e # d => desc'[e] = desc[e]
    BY DEF RunInv
  <1> QED
    BY <1>1, <1>2 DEF RunInv, Keeps

LEMMA FlagSteps ==
  ASSUME kind = "plain", RunInv, NEW t \in Threads, SetStatus(t) \/ SetFlag(t)
  PROVE  RunInv' /\ Atomic!Steps
  <1>1. CASE SetStatus(t)
    <2>1. local[t].h \in Descs
      BY <1>1, Working DEF SetStatus, At, OperationInv, Processing
    <2>2. Keeps
      BY <1>1, <2>1, FlagKeeps, Stays, OneLine DEF SetStatus, StoreDesc
    <2>3. /\ <<local[t].pc, "flush_status">> \in Onward
          /\ Goto(t, [local[t] EXCEPT !.pc = "flush_status"]) /\ UNCHANGED words
      BY <1>1 DEF SetStatus, At, Onward
    <2> QED
      BY <2>2, <2>3, Moves
  <1>2. CASE SetFlag(t)
    <2>1. local[t].d \in Descs
      BY <1>2, Working DEF SetFlag, At, OperationInv, Prepared, Storing, Describes
    <2>2. Keeps
      BY <1>2, <2>1, FlagKeeps, OneLine DEF SetFlag, StoreDesc
    <2>3. /\ <<local[t].pc, "flush_flag">> \in Onward
          /\ Goto(t, [local[t] EXCEPT !.pc = "flush_flag"]) /\ UNCHANGED words
      BY <1>2 DEF SetFlag, At, Onward
    <2> QED
      BY <2>2, <2>3, Moves
  <1> QED
    BY <1>1, <1>2

(* A descriptor is filled in for the operation. *)
LEMMA PrepareStep ==
  ASSUME kind = "plain", RunInv, NEW t \in Threads, Prepare(t)
  PROVE  RunInv' /\ Atomic!Steps
  <1>1. PICK n \in 1 .. MaxAttempts :
          /\ desc[<<t, n>>] = Fresh
          /\ StoreDesc(<<t, n>>, <<setPrivateAddress(
                                     addSharedWord(Fresh, local[t].old, local[t].op))>>)
          /\ Goto(t, [local[t] EXCEPT !.pc = "flush_desc", !.d = <<t, n>>, !.h = <<t, n>>])
    BY DEF Prepare
  <1>2. PICK l, d, new, g :
          /\ l = local[t] /\ d = <<t, n>>
          /\ new = setPrivateAddress(addSharedWord(Fresh, l.old, l.op))
          /\ g = [l EXCEPT !.pc = "flush_desc", !.d = d, !.h = d]
    OBVIOUS
  <1>3. d \in Descs /\ d[1] = t /\ OperationInv(t, l) /\ l.pc = "prepare"
    BY <1>2, Working DEF Descs, Prepare, At
  <1>4. IsLine(new) /\ new.priv = 1 /\ new.op = l.op /\ new.old = l.old
    BY <1>2, Filled
  <1>5. desc' = [desc EXCEPT ![d] = new] /\ desc[d].priv = 0
    <2>1. desc' = [desc EXCEPT ![d] = Last(<<new>>)]
      BY <1>1, <1>2 DEF StoreDesc
    <2>2. Fresh.priv = 0
      BY DEF Fresh
    <2> QED
      BY <1>1, <1>2, <2>1, <2>2, OneLine
  <1>6. desc'[d] = new /\ \A e \in Descs : e # d => desc'[e] = desc[e]
    BY <1>3, <1>5 DEF RunInv
  <1>7. Keeps
    BY <1>3, <1>4, <1>5, <1>6 DEF RunInv, Keeps
  <1>8. /\ IsLocals(g) /\ g.pc = "flush_desc" /\ g.op = l.op /\ g.old = l.old /\ g.d = d
        /\ g.h = d /\ g.back = l.back /\ g.res = l.res
    <2>1. g = Locals("flush_desc", l.op, l.old, d, d, l.back, l.saw, l.res)
      <3>1. IsLocals(l)
        BY <1>3 DEF OperationInv
      <3>2. \A e, h : [l EXCEPT !.pc = "flush_desc", !.d = e, !.h = h]
                        = Locals("flush_desc", l.op, l.old, e, h, l.back, l.saw, l.res)
        BY <3>1, UpdateDesc
      <3> QED
        BY <1>2, <3>2
    <2> QED
      BY <2>1, FieldsOf
  <1>9. OperationInv(t, g)' /\ ~ Owed(l) /\ ~ Owed(g)
    <2>1. Describes(g.d, t, g.op, g.old)'
      BY <1>3, <1>4, <1>6, <1>8 DEF Describes
    <2>2. l.back = "none" /\ l.res = None /\ l.op.op # "read" /\ l.op \in Range(Script[t])
          /\ (l.op.op \in {"dcas", "rcas"} => l.old = l.op.old)
      BY <1>3 DEF OperationInv, Processing, Waits, Attempting
    <2>3. Waits(g)
      BY <1>8 DEF Waits, Attempting
    <2> QED
      BY <1>3, <1>8, <2>1, <2>2, <2>3 DEF OperationInv, Owed, Attempting, Processing
  <1>10. local' = [local EXCEPT ![t] = g] /\ next' = next /\ kind' = kind /\ UNCHANGED words
    BY <1>1, <1>2 DEF Goto, Set, system, Prepare
  <1> QED
    BY <1>2, <1>3, <1>7, <1>8, <1>9, <1>10, QuietStep

(* The thread finds a pointer, and helps. *)
LEMMA HelpStep ==
  ASSUME kind = "plain", RunInv, NEW t \in Threads, NEW back, shared.tag = "ptr",
         \/ back = "load" /\ local[t].pc = "load"
         \/ back = "install" /\ local[t].pc = "install",
         Help(t, local[t], shared.d, back), UNCHANGED <<words, desc>>
  PROVE  RunInv' /\ Atomic!Steps
  <1>1. PICK l, d, g : /\ l = local[t] /\ d = shared.d
                       /\ g = [l EXCEPT !.pc = "help", !.h = d, !.back = back]
    OBVIOUS
  <1>2. OperationInv(t, l) /\ d \in Descs
    BY <1>1, Working DEF RunInv, SharedInv
  <1>10. IsLocals(l)
    BY <1>2 DEF OperationInv
  <1>3. Keeps /\ OperationInv(t, l)'
    BY <1>2, Stays, OperationKept
  <1>4. /\ IsLocals(g) /\ g.pc = "help" /\ g.op = l.op /\ g.old = l.old /\ g.d = l.d
        /\ g.h = d /\ g.back = back /\ g.res = l.res
    <2>1. g = Locals("help", l.op, l.old, l.d, d, back, l.saw, l.res)
      <3>1. \A h : [l EXCEPT !.pc = "help", !.h = h, !.back = back]
                     = Locals("help", l.op, l.old, l.d, h, back, l.saw, l.res)
        BY <1>10, UpdateHelp
      <3> QED
        BY <1>1, <3>1
    <2> QED
      BY <2>1, FieldsOf
  <1>5. Waits(l) /\ Waits(g) /\ Helps(g)
    BY <1>1, <1>4 DEF Waits, Helps, Attempting, Processing
  <1>6. Prepared(g) => Prepared(l)
    BY <1>1, <1>4 DEF Prepared, Processing, Storing
  <1>7. OperationInv(t, g)'
    <2>1. Prepared(g) => Describes(g.d, t, g.op, g.old)'
      BY <1>3, <1>4, <1>6 DEF OperationInv
    <2>2. /\ g.op.op \in {"dcas", "rcas"} =>
               g.old = g.op.old /\ g.pc # "load" /\ g.back # "load"
          /\ g.op.op = "read" => g.back = "load"
      <3>1. /\ l.op.op \in {"dcas", "rcas"} => l.old = l.op.old /\ l.pc # "load"
            /\ l.op.op = "read" => l.pc \in {"load", "return"} \/ l.pc \in Processing
        BY <1>2 DEF OperationInv, Helps
      <3>2. l.pc \in {"load", "install"} /\ (back = "load" <=> l.pc = "load")
        BY <1>1
      <3> QED
        BY <1>4, <3>1, <3>2 DEF Processing
    <2>3. g.back \in {"load", "install"} /\ g.pc \in Processing
      BY <1>4 DEF Processing
    <2> QED
      BY <1>2, <1>4, <1>5, <2>1, <2>2, <2>3 DEF OperationInv
  <1>8. ~ Owed(l) /\ ~ Owed(g)
    BY <1>2, <1>4, <1>5 DEF Owed, OperationInv
  <1>9. local' = [local EXCEPT ![t] = g] /\ next' = next /\ kind' = kind
    BY <1>1 DEF Help, Goto, Set, system
  <1> QED
    BY <1>1, <1>2, <1>3, <1>4, <1>7, <1>8, <1>9, QuietStep

(* An operation ends without an effect: the result is all that changes. *)
LEMMA EndStep ==
  ASSUME kind = "plain", RunInv, NEW t \in Threads, NEW r, r # None, NEW saw,
         local[t].pc \in Attempting,
         Goto(t, [local[t] EXCEPT !.pc = "return", !.res = r, !.saw = saw]),
         UNCHANGED <<words, desc>>
  PROVE  /\ RunInv' /\ Logical' = Logical /\ local[t].res = None
         /\ local[t].op \in Range(Script[t])
         /\ [u \in Threads |-> local'[u].res]
              = [[u \in Threads |-> local[u].res] EXCEPT ![t] = r]
         /\ [u \in Threads |-> AbsPrivate(u)'] = [u \in Threads |-> AbsPrivate(u)]
  <1>1. PICK l, g : l = local[t] /\ g = [l EXCEPT !.pc = "return", !.res = r, !.saw = saw]
    OBVIOUS
  <1>2. OperationInv(t, l) /\ l.res = None
    BY <1>1, Working DEF OperationInv, Waits, Attempting
  <1>13. IsLocals(l)
    BY <1>2 DEF OperationInv
  <1>3. Keeps /\ OperationInv(t, l)'
    BY <1>2, Stays, OperationKept
  <1>4. /\ IsLocals(g) /\ g.pc = "return" /\ g.op = l.op /\ g.old = l.old /\ g.d = l.d
        /\ g.h = l.h /\ g.back = l.back /\ g.res = r
    <2>1. g = Locals("return", l.op, l.old, l.d, l.h, l.back, saw, r)
      <3>1. [l EXCEPT !.pc = "return", !.res = r, !.saw = saw]
              = Locals("return", l.op, l.old, l.d, l.h, l.back, saw, r)
        <4>1. PICK p : p = "return"
          OBVIOUS
        <4>2. [l EXCEPT !.pc = p, !.res = r, !.saw = saw]
                = Locals(p, l.op, l.old, l.d, l.h, l.back, saw, r)
          BY <1>13, UpdateResult
        <4> QED
          BY <4>1, <4>2
      <3> QED
        BY <1>1, <3>1
    <2> QED
      BY <2>1, FieldsOf
  <1>5. OperationInv(t, g)'
    <2>1. l.back = "none"
      BY <1>1, <1>2 DEF OperationInv, Attempting, Processing
    <2>2. ~ Waits(g) /\ ~ Prepared(g) /\ g.pc \notin Processing /\ g.pc \notin Attempting
      BY <1>4 DEF Waits, Helps, Attempting, Processing, Prepared, Storing
    <2> QED
      BY <1>2, <1>4, <2>1, <2>2 DEF OperationInv
  <1>6. ~ Owed(l) /\ ~ Owed(g)
    BY <1>2, <1>4 DEF Owed
  <1>7. /\ local' = [local EXCEPT ![t] = g] /\ next' = next /\ kind' = kind
        /\ shared' = shared /\ private' = private
    BY <1>1 DEF Goto, Set, system, words
  <1>8. SharedInv' /\ Logical' = Logical
    BY <1>3, <1>7, SharedKept
  <1>9. RunInv'
    <2>1. private' = [u \in Threads |-> private'[u]] /\ next' \in [Threads -> Nat \ {0}]
      BY <1>7 DEF RunInv
    <2> QED
      BY <1>3, <1>5, <1>7, <1>8, <2>1, RunStep
  <1>10. /\ [u \in Threads |-> local'[u].res]
              = [[u \in Threads |-> local[u].res] EXCEPT ![t] = g.res]
         /\ [u \in Threads |-> AbsPrivate(u)']
              = [[u \in Threads |-> AbsPrivate(u)] EXCEPT ![t] = AbsPrivate(t)']
         /\ AbsPrivate(t) = IF Owed(l) THEN Stored(l.op, l.old) ELSE private[t]
         /\ AbsPrivate(t)' = IF Owed(g) THEN Stored(g.op, g.old) ELSE private'[t]
    BY <1>1, <1>7, <1>9, AbstractStep
  <1>11. AbsPrivate(t)' = AbsPrivate(t)
    BY <1>6, <1>7, <1>10
  <1>12. [u \in Threads |-> AbsPrivate(u)'] = [u \in Threads |-> AbsPrivate(u)]
    BY <1>10, <1>11
  <1> QED
    BY <1>1, <1>2, <1>4, <1>8, <1>9, <1>10, <1>12 DEF OperationInv

LEMMA LoadStep ==
  ASSUME kind = "plain", RunInv, NEW t \in Threads, Load(t)
  PROVE  RunInv' /\ Atomic!Steps
  <1>1. PICK l : l = local[t]
    OBVIOUS
  <1>2. OperationInv(t, l) /\ l.pc = "load" /\ UNCHANGED <<words, desc>>
    BY <1>1, Working DEF Load, At
  <1>3. CASE shared.tag = "ptr"
    <2>1. Help(t, l, shared.d, "load")
      BY <1>1, <1>3 DEF Load
    <2> QED
      BY <1>1, <1>2, <1>3, <2>1, HelpStep
  <1>4. CASE shared.tag = "val" /\ l.op.op = "read"
    <2>1. PICK r, saw : /\ r = Value(shared.v)
                        /\ Goto(t, [l EXCEPT !.pc = "return", !.res = r, !.saw = saw])
      BY <1>1, <1>4 DEF Load
    <2>2. r # None /\ r = Atomic!Got(Logical)
      BY <1>4, <2>1 DEF Value, None, Logical, Atomic!Got
    <2>3. /\ RunInv' /\ Logical' = Logical /\ l.res = None /\ l.op \in Range(Script[t])
          /\ [u \in Threads |-> local'[u].res]
               = [[u \in Threads |-> local[u].res] EXCEPT ![t] = r]
          /\ [u \in Threads |-> AbsPrivate(u)'] = [u \in Threads |-> AbsPrivate(u)]
      <3>1. l.pc \in Attempting
        BY <1>2 DEF Attempting
      <3> QED
        BY <1>1, <1>2, <2>1, <2>2, <3>1, EndStep
    <2>4. Atomic!Read(t, l.op)
      BY <1>4, <2>2, <2>3 DEF Atomic!Read, AbsPrivate
    <2> QED
      BY <1>1, <2>3, <2>4 DEF Atomic!Steps, Atomic!Next, Atomic!None, None
  <1>5. CASE shared.tag # "ptr" /\ ~ (shared.tag = "val" /\ l.op.op = "read")
    <2>1. PICK g : g = [l EXCEPT !.pc = "prepare", !.old = shared.v]
      OBVIOUS
    <2>2. Goto(t, g) /\ l.op.op # "read"
      BY <1>1, <1>5, <2>1 DEF Load, RunInv, SharedInv
    <2>3. /\ IsLocals(g) /\ g.pc = "prepare" /\ g.op = l.op /\ g.d = l.d
          /\ g.h = l.h /\ g.back = l.back /\ g.res = l.res
      <3>1. g = Locals("prepare", l.op, shared.v, l.d, l.h, l.back, l.saw, l.res)
        BY <1>2, <2>1, UpdateOld DEF OperationInv
      <3> QED
        BY <3>1, FieldsOf
    <2>4. Keeps /\ OperationInv(t, l)'
      BY <1>2, Stays, OperationKept
    <2>5. /\ l.op.op \notin {"dcas", "rcas"} /\ l.back = "none" /\ l.res = None
          /\ Waits(g) /\ ~ Prepared(g) /\ g.pc \notin Processing /\ g.pc \in Attempting
      BY <1>2, <2>3 DEF OperationInv, Waits, Prepared, Attempting, Processing, Storing
    <2>6. OperationInv(t, g)' /\ ~ Owed(l) /\ ~ Owed(g)
      BY <1>2, <2>2, <2>3, <2>5 DEF OperationInv, Owed
    <2>7. local' = [local EXCEPT ![t] = g] /\ next' = next /\ kind' = kind
      BY <2>2 DEF Goto, Set, system
    <2> QED
      BY <1>1, <1>2, <2>3, <2>4, <2>6, <2>7, QuietStep
  <1> QED
    BY <1>3, <1>4, <1>5

(* The pointer is installed: the operation takes effect. *)
LEMMA EffectStep ==
  ASSUME kind = "plain", RunInv, NEW t \in Threads, addDescriptorToShareVar(t),
         shared = Val(local[t].old)
  PROVE  RunInv' /\ Atomic!Steps
  <1>1. PICK l, m, r, w : /\ l = local[t] /\ m = [l EXCEPT !.pc = "flush_word"]
                          /\ r = (IF l.op.op = "fasas" THEN Value(l.old) ELSE True)
                          /\ w = Len(hist) + 1
    OBVIOUS
  <1>2. OperationInv(t, l) /\ l.pc = "install" /\ desc' = desc /\ private' = private
    BY <1>1, Working DEF addDescriptorToShareVar, At
  <1>3. IsLocals(l) /\ l.back = "none" /\ l.res = None /\ l.h = l.d /\ l.op.op # "read"
    BY <1>2 DEF OperationInv, Processing, Waits, Attempting
  <1>4. Describes(l.d, t, l.op, l.old)
    BY <1>2 DEF OperationInv, Prepared
  <1>5. shared' = Ptr(l.d) /\ TakeEffect(t, l.d, l.old, m)
    <2>1. /\ StoreShared(Ptr(local[t].d))
          /\ TakeEffect(t, local[t].d, local[t].old, [local[t] EXCEPT !.pc = "flush_word"])
      <3>1. shared.tag # "ptr"
        BY DEF Val
      <3> QED
        BY <3>1 DEF addDescriptorToShareVar
    <2> QED
      BY <1>1, <2>1 DEF StoreShared
  <1>6. m = Locals("flush_word", l.op, l.old, l.d, l.h, l.back, l.saw, l.res)
    BY <1>1, <1>3, Update
  <1>7. /\ IsLocals(m) /\ m.pc = "flush_word" /\ m.op = l.op /\ m.old = l.old /\ m.d = l.d
        /\ m.h = l.h /\ m.back = l.back /\ m.res = l.res
    BY <1>6, FieldsOf
  <1>8. PICK g : g = [m EXCEPT !.res = r, !.saw = w]
    OBVIOUS
  <1>9. /\ IsLocals(g) /\ g.pc = "flush_word" /\ g.op = l.op /\ g.old = l.old /\ g.d = l.d
        /\ g.h = l.h /\ g.back = l.back /\ g.res = r
    <2>1. g = Locals(m.pc, m.op, m.old, m.d, m.h, m.back, w, r)
      BY <1>7, <1>8, UpdateEffect
    <2>2. /\ IsLocals(g) /\ g.pc = m.pc /\ g.op = m.op /\ g.old = m.old /\ g.d = m.d
          /\ g.h = m.h /\ g.back = m.back /\ g.res = r
      BY <2>1, FieldsOf
    <2> QED
      BY <1>7, <2>2
  <1>10. local' = [local EXCEPT ![t] = g] /\ next' = next /\ kind' = kind
    BY <1>1, <1>5, <1>7, <1>8 DEF TakeEffect, Set, system
  <1>11. r # None /\ Keeps
    BY <1>1, <1>2, Stays DEF Value, True, None
  <1>12. OperationInv(t, g)'
    <2>1. Describes(g.d, t, g.op, g.old)'
      BY <1>2, <1>4, <1>9 DEF Describes
    <2>2. ~ Waits(g) /\ g.pc \in Processing
      BY <1>3, <1>9 DEF Waits, Helps, Attempting, Processing
    <2>3. l.op \in Range(Script[t]) /\ (l.op.op \in {"dcas", "rcas"} => l.old = l.op.old)
      BY <1>2 DEF OperationInv
    <2>4. l.d \in Descs
      BY <1>4 DEF Describes
    <2> QED
      BY <1>3, <1>9, <1>11, <2>1, <2>2, <2>3, <2>4 DEF OperationInv
  <1>13. SharedInv' /\ Logical = l.old /\ Logical' = l.op.new
    BY <1>1, <1>2, <1>4, <1>5, <1>10 DEF SharedInv, Logical, Val, Ptr, Describes
  <1>14. RunInv'
    <2>1. private' = [u \in Threads |-> private'[u]] /\ next' \in [Threads -> Nat \ {0}]
      BY <1>2, <1>10 DEF RunInv
    <2> QED
      BY <1>10, <1>11, <1>12, <1>13, <2>1, RunStep
  <1>15. /\ [u \in Threads |-> local'[u].res]
              = [[u \in Threads |-> local[u].res] EXCEPT ![t] = g.res]
         /\ [u \in Threads |-> AbsPrivate(u)']
              = [[u \in Threads |-> AbsPrivate(u)] EXCEPT ![t] = AbsPrivate(t)']
         /\ AbsPrivate(t)' = IF Owed(g) THEN Stored(g.op, g.old) ELSE private'[t]
    BY <1>1, <1>2, <1>10, <1>14, AbstractStep
  <1>16. AbsPrivate(t)' = Stored(l.op, l.old)
    BY <1>9, <1>11, <1>15 DEF Owed
  <1>17. l.op.op \in {"fasas", "dcas", "rcas"} /\ (l.op.op # "fasas" => l.old = l.op.old)
    <2>1. l.op \in Range(Script[t])
      BY <1>2 DEF OperationInv
    <2>2. l.op.op \in {"fasas", "dcas", "rcas", "read"}
      BY <2>1, ScriptAssumption DEF Range
    <2> QED
      BY <1>2, <1>3, <2>2 DEF OperationInv
  <1>18. Atomic!Apply(t, l.op)
    <2>1. [u \in Threads |-> AbsPrivate(u)']
            = [[u \in Threads |-> AbsPrivate(u)] EXCEPT ![t] = Stored(l.op, l.old)]
      BY <1>15, <1>16
    <2>2. [u \in Threads |-> local'[u].res]
            = [[u \in Threads |-> local[u].res] EXCEPT ![t] = r]
      BY <1>9, <1>15
    <2>3. Atomic!Fetch(t, l.op) \/ Atomic!Compare(t, l.op)
      BY <1>1, <1>13, <1>17, <2>2
      DEF Atomic!Fetch, Atomic!Compare, Atomic!Got, Atomic!True, Value, True
    <2> QED
      BY <1>13, <2>1, <2>3 DEF Atomic!Apply, AbsPrivate
  <1>19. l.op \in Range(Script[t])
    BY <1>2 DEF OperationInv
  <1> QED
    BY <1>1, <1>3, <1>14, <1>18, <1>19 DEF Atomic!Steps, Atomic!Next, Atomic!None, None

LEMMA InstallStep ==
  ASSUME kind = "plain", RunInv, NEW t \in Threads, addDescriptorToShareVar(t)
  PROVE  RunInv' /\ Atomic!Steps
  <1>1. PICK l : l = local[t]
    OBVIOUS
  <1>2. OperationInv(t, l) /\ l.pc = "install" /\ desc' = desc /\ private' = private
    BY <1>1, Working DEF addDescriptorToShareVar, At
  <1>3. CASE shared # Val(l.old) /\ shared.tag = "ptr"
    <2>1. Help(t, l, shared.d, "install") /\ shared' = shared
      BY <1>1, <1>3 DEF addDescriptorToShareVar
    <2>2. UNCHANGED <<words, desc>>
      BY <1>2, <2>1 DEF words
    <2> QED
      BY <1>1, <1>2, <1>3, <2>1, <2>2, HelpStep
  <1>4. CASE shared # Val(l.old) /\ shared.tag # "ptr"
    <2>1. /\ shared' = shared
          /\ Goto(t, IF l.op.op = "fasas" THEN [l EXCEPT !.pc = "load"]
                     ELSE [l EXCEPT !.pc = "return", !.res = False, !.saw = Len(hist)])
      BY <1>1, <1>4 DEF addDescriptorToShareVar
    <2>2. UNCHANGED <<words, desc>> /\ Keeps
      BY <1>2, <2>1, Stays DEF words
    <2>3. CASE l.op.op = "fasas"
      <3>1. PICK g : g = [l EXCEPT !.pc = "load"]
        OBVIOUS
      <3>2. /\ OperationInv(t, g)' /\ g.res = l.res /\ g.op = l.op /\ g.old = l.old
            /\ Owed(l) <=> Owed(g)
        <4>1. l.pc # "private" /\ GoesTo(l, "load")
          BY <1>2, <2>3 DEF GoesTo
        <4> QED
          BY <1>2, <2>2, <3>1, <4>1, GoesOn
      <3>3. local' = [local EXCEPT ![t] = g] /\ next' = next /\ kind' = kind
        BY <2>1, <2>3, <3>1 DEF Goto, Set, system
      <3> QED
        BY <1>1, <1>2, <2>2, <3>2, <3>3, QuietStep
    <2>4. CASE l.op.op # "fasas"
      <3>1. PICK saw : Goto(t, [l EXCEPT !.pc = "return", !.res = False, !.saw = saw])
        BY <2>1, <2>4
      <3>2. l.op \in Range(Script[t]) /\ l.op.op # "read" /\ l.pc \in Attempting
        BY <1>2 DEF OperationInv, Attempting, Helps, Processing
      <3>3. l.op.op \in {"dcas", "rcas"}
        BY <2>4, <3>2, ScriptAssumption DEF Range
      <3>4. False # None
        BY DEF False, None
      <3>5. /\ RunInv' /\ Logical' = Logical /\ l.res = None
            /\ [u \in Threads |-> local'[u].res]
                 = [[u \in Threads |-> local[u].res] EXCEPT ![t] = False]
            /\ [u \in Threads |-> AbsPrivate(u)'] = [u \in Threads |-> AbsPrivate(u)]
        BY <1>1, <2>2, <3>1, <3>2, <3>4, EndStep
      <3>6. Atomic!Fail(t, l.op)
        BY <3>3, <3>5 DEF Atomic!Fail, AbsPrivate, Atomic!False, False
      <3> QED
        BY <1>1, <3>2, <3>5, <3>6 DEF Atomic!Steps, Atomic!Next, Atomic!None, None
    <2> QED
      BY <2>3, <2>4
  <1> QED
    BY <1>1, <1>3, <1>4, EffectStep

(* The new value replaces the pointer that stands for it. *)
LEMMA SwapStep ==
  ASSUME kind = "plain", RunInv, NEW t \in Threads, changeShareValueWithoutFlush(t)
  PROVE  RunInv' /\ Atomic!Steps
  <1>1. PICK l : l = local[t]
    OBVIOUS
  <1>2. OperationInv(t, l) /\ l.pc = "swap" /\ desc' = desc /\ private' = private
    BY <1>1, Working DEF changeShareValueWithoutFlush, At
  <1>3. Keeps /\ OperationInv(t, l)' /\ l.h \in Descs
    BY <1>2, Stays, OperationKept DEF OperationInv, Processing
  <1>4. PICK g : /\ Goto(t, g)
                 /\ g = IF l.back = "none" THEN [l EXCEPT !.pc = "private"]
                        ELSE [l EXCEPT !.pc = l.back, !.back = "none", !.h = l.d]
    BY <1>1 DEF changeShareValueWithoutFlush
  <1>5. local' = [local EXCEPT ![t] = g] /\ next' = next /\ kind' = kind
    BY <1>4 DEF Goto, Set, system
  <1>6. SharedInv' /\ Logical' = Logical
    <2>1. CASE shared = Ptr(l.h)
      <3>1. shared' = Val(desc[l.h].op.new)
        BY <1>1, <2>1 DEF changeShareValueWithoutFlush, StoreShared
      <3> QED
        BY <1>5, <2>1, <3>1 DEF SharedInv, Logical, Val, Ptr
    <2>2. CASE shared # Ptr(l.h)
      <3>1. shared' = shared
        BY <1>1, <2>2 DEF changeShareValueWithoutFlush
      <3> QED
        BY <1>3, <1>5, <3>1, SharedKept
    <2> QED
      BY <2>1, <2>2
  <1>7. /\ OperationInv(t, g)' /\ g.res = l.res /\ g.op = l.op /\ g.old = l.old
        /\ Owed(l) <=> Owed(g)
    <2>1. CASE l.back = "none"
      <3>1. l.pc # "private" /\ GoesTo(l, "private")
        BY <1>2, <2>1 DEF GoesTo
      <3>2. g = [l EXCEPT !.pc = "private"]
        BY <1>4, <2>1
      <3> QED
        BY <1>2, <1>3, <3>1, <3>2, GoesOn
    <2>2. CASE l.back # "none"
      <3>1. IsLocals(l)
        BY <1>2 DEF OperationInv
      <3>2. [l EXCEPT !.pc = l.back, !.back = "none", !.h = l.d]
              = Locals(l.back, l.op, l.old, l.d, l.d, "none", l.saw, l.res)
        BY <3>1, UpdateBack
      <3>3. g = Locals(l.back, l.op, l.old, l.d, l.d, "none", l.saw, l.res)
        BY <1>4, <2>2, <3>2
      <3>4. /\ IsLocals(g) /\ g.pc = l.back /\ g.op = l.op /\ g.old = l.old /\ g.d = l.d
            /\ g.h = l.d /\ g.back = "none" /\ g.res = l.res
        BY <3>3, FieldsOf
      <3>5. /\ l.back \in {"load", "install"} /\ Waits(l) /\ Waits(g) /\ l.res = None
            /\ Prepared(g) => Prepared(l)
        BY <1>2, <2>2, <3>4
        DEF OperationInv, Waits, Helps, Prepared, Attempting, Processing, Storing
      <3>6. g.pc \in Attempting /\ g.pc \notin Processing /\ g.pc # "help"
        BY <3>4, <3>5 DEF Attempting, Processing
      <3>7. /\ g.op \in Range(Script[t])
            /\ g.op.op \in {"dcas", "rcas"} =>
                 g.old = g.op.old /\ g.pc # "load" /\ g.back # "load"
            /\ g.op.op = "read" => g.pc = "load"
        BY <1>2, <3>4 DEF OperationInv
      <3>8. Prepared(g) => Describes(g.d, t, g.op, g.old)'
        BY <1>3, <3>4, <3>5 DEF OperationInv
      <3>9. OperationInv(t, g)'
        BY <3>4, <3>5, <3>6, <3>7, <3>8 DEF OperationInv
      <3> QED
        BY <3>4, <3>5, <3>9 DEF Owed
    <2> QED
      BY <2>1, <2>2
  <1>8. RunInv'
    <2>1. private' = [u \in Threads |-> private'[u]] /\ next' \in [Threads -> Nat \ {0}]
      BY <1>2, <1>5 DEF RunInv
    <2> QED
      BY <1>3, <1>5, <1>6, <1>7, <2>1, RunStep
  <1> QED
    BY <1>1, <1>2, <1>5, <1>6, <1>7, <1>8, SilentStep

(* The owner stores what it owes. *)
LEMMA PrivateStep ==
  ASSUME kind = "plain", RunInv, NEW t \in Threads, StorePrivateValue(t)
  PROVE  RunInv' /\ Atomic!Steps
  <1>1. PICK l, g : l = local[t] /\ g = [l EXCEPT !.pc = "flush_private"]
    OBVIOUS
  <1>2. OperationInv(t, l) /\ l.pc = "private" /\ desc' = desc /\ shared' = shared
    BY <1>1, Working DEF StorePrivateValue, At
  <1>3. desc[l.d].op = l.op /\ desc[l.d].old = l.old /\ l.res # None
    BY <1>2
    DEF OperationInv, Prepared, Describes, Storing, Waits, Helps, Attempting, Processing
  <1>4. private' = [private EXCEPT ![t] = Stored(l.op, l.old)]
    BY <1>1, <1>3 DEF StorePrivateValue, StorePrivate
  <1>5. Keeps
    BY <1>2, Stays
  <1>6. OperationInv(t, g)' /\ g.res = l.res /\ g.pc = "flush_private"
    <2>1. GoesTo(l, "flush_private")
      BY <1>2 DEF GoesTo
    <2> QED
      BY <1>1, <1>2, <1>5, <2>1, GoesOn
  <1>7. local' = [local EXCEPT ![t] = g] /\ next' = next /\ kind' = kind
    BY <1>1 DEF StorePrivateValue, Goto, Set, system
  <1>8. SharedInv' /\ Logical' = Logical
    BY <1>2, <1>5, <1>7, SharedKept
  <1>9. /\ private' = [u \in Threads |-> private'[u]] /\ next' \in [Threads -> Nat \ {0}]
        /\ private'[t] = Stored(l.op, l.old)
        /\ \A u \in Threads : u # t => private'[u] = private[u]
    BY <1>4, <1>7 DEF RunInv
  <1>10. RunInv'
    BY <1>5, <1>6, <1>7, <1>8, <1>9, RunStep
  <1>11. /\ [u \in Threads |-> local'[u].res]
              = [[u \in Threads |-> local[u].res] EXCEPT ![t] = g.res]
         /\ [u \in Threads |-> AbsPrivate(u)']
              = [[u \in Threads |-> AbsPrivate(u)] EXCEPT ![t] = AbsPrivate(t)']
         /\ AbsPrivate(t) = IF Owed(l) THEN Stored(l.op, l.old) ELSE private[t]
         /\ AbsPrivate(t)' = IF Owed(g) THEN Stored(g.op, g.old) ELSE private'[t]
    BY <1>1, <1>7, <1>9, <1>10, AbstractStep
  <1>12. Owed(l) /\ ~ Owed(g)
    BY <1>2, <1>3, <1>6 DEF Owed
  <1>13. AbsPrivate(t)' = AbsPrivate(t)
    BY <1>9, <1>11, <1>12
  <1>14. /\ [u \in Threads |-> local'[u].res] = [u \in Threads |-> local[u].res]
         /\ [u \in Threads |-> AbsPrivate(u)'] = [u \in Threads |-> AbsPrivate(u)]
    BY <1>1, <1>6, <1>11, <1>13
  <1> QED
    BY <1>8, <1>10, <1>14 DEF Atomic!Steps, Atomic!vars, AbsPrivate

LEMMA BeginStep ==
  ASSUME kind = "plain", RunInv, NEW t \in Threads, PlainBegin(t)
  PROVE  RunInv' /\ Atomic!Steps
  <1>1. PICK op, g : op = Script[t][next[t]] /\ g = PlainLocal(t, op)
    OBVIOUS
  <1>2. /\ local[t].pc = "idle" /\ next[t] <= Len(Script[t])
        /\ local' = [local EXCEPT ![t] = g] /\ next' = [next EXCEPT ![t] = @ + 1]
        /\ kind' = kind /\ UNCHANGED <<words, desc>>
    BY <1>1 DEF PlainBegin, Call, system
  <1>3. local[t] = Idle
    BY <1>2 DEF RunInv, OperationInv, Attempting, Processing, Storing
  <1>4. next[t] \in DOMAIN Script[t] /\ next' \in [Threads -> Nat \ {0}]
    <2>1. next[t] \in Nat \ {0}
      BY DEF RunInv
    <2>2. DOMAIN Script[t] = 1 .. Len(Script[t])
      BY ScriptAssumption
    <2>3. next[t] \in DOMAIN Script[t]
      BY SMT, <1>2, <2>1, <2>2
    <2>4. next[t] + 1 \in Nat \ {0}
      BY SMT, <2>1
    <2> QED
      BY <1>2, <2>3, <2>4 DEF RunInv
  <1>5. op \in Range(Script[t])
    BY <1>1, <1>4 DEF Range
  <1>6. /\ IsLocals(g) /\ g.pc = (IF op.op \in {"fasas", "read"} THEN "load" ELSE "prepare")
        /\ g.op = op /\ g.old = (IF op.op \in {"dcas", "rcas"} THEN op.old ELSE 0)
        /\ g.back = "none" /\ g.res = None
    <2>1. PICK p, o, d : /\ p = (IF op.op \in {"fasas", "read"} THEN "load" ELSE "prepare")
                         /\ o = (IF op.op \in {"dcas", "rcas"} THEN op.old ELSE 0)
                         /\ d = <<t, 1>>
      OBVIOUS
    <2>2. g = Locals(p, op, o, d, d, "none", 0, None)
      BY <1>1, <2>1 DEF PlainLocal, Locals
    <2>3. /\ IsLocals(g) /\ g.pc = p /\ g.op = op /\ g.old = o /\ g.back = "none"
          /\ g.res = None
      BY <2>2, FieldsOf
    <2> QED
      BY <2>1, <2>3
  <1>7. OperationInv(t, g)'
    <2>1. /\ g.pc \in Attempting /\ g.pc \notin Processing /\ Waits(g) /\ ~ Prepared(g)
          /\ g.pc \notin {"help", "flush_desc", "install"}
      BY <1>6 DEF Attempting, Processing, Waits, Prepared, Storing
    <2>2. /\ g.op.op \in {"dcas", "rcas"} => g.old = g.op.old /\ g.pc # "load"
          /\ g.op.op = "read" => g.pc = "load"
      BY <1>6
    <2> QED
      BY <1>5, <1>6, <2>1, <2>2 DEF OperationInv
  <1>8. Keeps /\ shared' = shared /\ private' = private
    BY <1>2, Stays DEF words
  <1>9. SharedInv' /\ Logical' = Logical
    BY <1>2, <1>8, SharedKept
  <1>10. RunInv'
    <2>1. private' = [u \in Threads |-> private'[u]]
      BY <1>8 DEF RunInv
    <2> QED
      BY <1>2, <1>4, <1>7, <1>8, <1>9, <2>1, RunStep
  <1>11. ~ Owed(Idle) /\ ~ Owed(g) /\ Idle.res = None
    BY <1>6 DEF Owed, Idle
  <1> QED
    BY <1>2, <1>3, <1>6, <1>8, <1>9, <1>10, <1>11, SilentStep

LEMMA ReturnStep ==
  ASSUME kind = "plain", RunInv, NEW t \in Threads, PlainReturn(t)
  PROVE  RunInv' /\ Atomic!Steps
  <1>1. PICK l : l = local[t]
    OBVIOUS
  <1>2. /\ l.pc = "return" /\ local' = [local EXCEPT ![t] = Idle] /\ next' = next
        /\ kind' = kind /\ desc' = desc /\ shared' = shared /\ private' = private
    BY <1>1 DEF PlainReturn, At, Return, Set, system, words
  <1>3. Keeps
    BY <1>2, Stays
  <1>4. SharedInv' /\ Logical' = Logical
    BY <1>2, <1>3, SharedKept
  <1>5. RunInv'
    <2>1. private' = [u \in Threads |-> private'[u]] /\ next' \in [Threads -> Nat \ {0}]
      BY <1>2 DEF RunInv
    <2> QED
      BY <1>2, <1>3, <1>4, <2>1, RunStep
  <1>6. /\ [u \in Threads |-> local'[u].res]
             = [[u \in Threads |-> local[u].res] EXCEPT ![t] = Idle.res]
        /\ [u \in Threads |-> AbsPrivate(u)']
             = [[u \in Threads |-> AbsPrivate(u)] EXCEPT ![t] = AbsPrivate(t)']
        /\ AbsPrivate(t) = IF Owed(l) THEN Stored(l.op, l.old) ELSE private[t]
        /\ AbsPrivate(t)' = IF Owed(Idle) THEN Stored(Idle.op, Idle.old) ELSE private'[t]
    BY <1>1, <1>2, <1>5, AbstractStep
  <1>7. ~ Owed(l) /\ ~ Owed(Idle) /\ Idle.res = None
    BY <1>2 DEF Owed, Idle
  <1>8. AbsPrivate(t)' = AbsPrivate(t)
    BY <1>2, <1>6, <1>7
  <1>9. /\ [u \in Threads |-> AbsPrivate(u)'] = [u \in Threads |-> AbsPrivate(u)]
        /\ [u \in Threads |-> local'[u].res]
             = [[u \in Threads |-> local[u].res] EXCEPT ![t] = None]
    BY <1>6, <1>7, <1>8
  <1>10. Atomic!Forget(t)
    BY <1>4, <1>9 DEF Atomic!Forget, AbsPrivate, Atomic!None, None
  <1> QED
    BY <1>5, <1>10 DEF Atomic!Steps, Atomic!Next

-----------------------------------------------------------------------------

LEMMA PlainStepRuns ==
  ASSUME kind = "plain", RunInv, NEW t \in Threads, PlainStep(t)
  PROVE  RunInv' /\ Atomic!Steps
  <1>1. CASE FlushDescriptor(t) \/ helpProcess(t) \/ FlushWord(t) \/ FlushStatus(t)
             \/ FlushPrivateValue(t) \/ FlushFlag(t)
    BY <1>1, FlushSteps
  <1>2. CASE SetStatus(t) \/ SetFlag(t)
    BY <1>2, FlagSteps
  <1>3. CASE PlainBegin(t) \/ Load(t) \/ Prepare(t) \/ addDescriptorToShareVar(t)
    BY <1>3, BeginStep, LoadStep, PrepareStep, InstallStep
  <1>4. CASE changeShareValueWithoutFlush(t) \/ StorePrivateValue(t) \/ PlainReturn(t)
    BY <1>4, SwapStep, PrivateStep, ReturnStep
  <1> QED
    BY <1>1, <1>2, <1>3, <1>4 DEF PlainStep

(* Threads run, and stay in the phase, only while the power is on. *)
LEMMA PlainPhase ==
  ASSUME NEW t \in Threads, PlainStep(t)
  PROVE  phase = "run" /\ kind' = kind
  BY DEF PlainStep, PlainBegin, Load, Prepare, FlushDescriptor, addDescriptorToShareVar,
         helpProcess, FlushWord, SetStatus, FlushStatus, changeShareValueWithoutFlush,
         StorePrivateValue, FlushPrivateValue, SetFlag, FlushFlag, PlainReturn, Call, At,
         Unless, FlushStep, Help, Goto, TakeEffect, Return, system

LEMMA RunInvStart ==
  ASSUME Init, kind = "plain" PROVE PlainInv /\ Atomic!Init
  <1>1. /\ shared = Val(0) /\ private = [t \in Threads |-> 0] /\ desc = [d \in Descs |-> Fresh]
        /\ local = [t \in Threads |-> Idle] /\ next = [t \in Threads |-> 1]
    BY DEF Init, PlainInit, OptInit
  <1>2. IsLine(Fresh)
    BY DEF IsLine, Line, Fresh
  <1>3. SharedInv /\ Logical = 0
    BY <1>1 DEF SharedInv, Logical, Val
  <1>4. RunInv
    BY <1>1, <1>2, <1>3 DEF RunInv
  <1>5. \A t \in Threads : local[t] = Idle /\ local[t].res = None /\ ~ Owes(t)
    BY <1>1 DEF Idle, Owes
  <1>6. Atomic!Init
    BY <1>1, <1>3, <1>5 DEF Atomic!Init, Atomic!None, None
  <1> QED
    BY <1>4, <1>6 DEF PlainInv

LEMMA RunInvStep ==
  ASSUME PlainInv, [Next]_vars
  PROVE  PlainInv' /\ (phase = "run" /\ phase' = "run" => Atomic!Steps)
  <1>1. ASSUME NEW t \in Threads, Step(t) PROVE RunInv' /\ kind' = kind /\ Atomic!Steps
    <2>1. PlainStep(t)
      BY <1>1 DEF Step, OptStep, PlainInv
    <2> QED
      BY <2>1, PlainPhase, PlainStepRuns DEF PlainInv
  <1>2. CASE PlainCrash \/ Recover
    BY <1>2 DEF PlainInv, PlainCrash, PowerFailure, Recover, recover, recoverDescriptor,
                RecoverCheck, RecoverPrivate, RecoverPrivateSet, RecoverShareVar, Recovering
  <1>3. CASE UNCHANGED vars
    <2>1. UNCHANGED <<shared, private, desc, local, next, kind, phase>>
      BY <1>3 DEF vars, words, callers, system
    <2>2. PlainInv'
      BY <2>1 DEF PlainInv, RunInv, SharedInv, OperationInv, Describes
    <2>3. Logical' = Logical /\ \A t : Owes(t)' <=> Owes(t)
      BY <2>1 DEF Logical, Owes
    <2>4. Atomic!Steps
      BY <2>1, <2>3 DEF Atomic!Steps, Atomic!vars
    <2> QED
      BY <2>2, <2>4
  <1> QED
    BY <1>1, <1>2, <1>3 DEF Next, OptCrash, Halt, PlainInv

(***************************************************************************)
(* FASASDescriptor, for any number of threads and any operations: as long  *)
(* as the power is on, every step of every owner and helper is a step of   *)
(* the atomic fetch-and-store-and-store, double-word CAS, recoverable CAS  *)
(* or read, or changes nothing that these have.                            *)
(***************************************************************************)
THEOREM PlainRunsAtomically == Spec /\ kind = "plain" => RunsAtomically
  <1>1. Init /\ kind = "plain" => PlainInv /\ Atomic!Init
    BY RunInvStart
  <1>2. PlainInv /\ [Next]_vars => PlainInv' /\ (phase = "run" /\ phase' = "run" => Atomic!Steps)
    BY RunInvStep
  <1> QED
    BY <1>1, <1>2, PTL DEF Spec, RunsAtomically

=============================================================================
