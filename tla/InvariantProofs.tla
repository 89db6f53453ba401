--------------------------- MODULE InvariantProofs ---------------------------
(***************************************************************************)
(* Every step keeps what the invariant says of the statuses, of the target *)
(* words and of every call at the place it has reached.                    *)
(***************************************************************************)
EXTENDS StepProofs

(* Time for the longest leaves. *)
USE ZenonT(4), SMTT(10), ZenonT(40), SMTT(60), ZenonT(150)

-----------------------------------------------------------------------------

(* Memory and statuses: what calls rely on *)

(***************************************************************************)
(* What every step keeps for all calls: operations stay active and         *)
(* decided, and as long as one is undecided its pointers stay in place and *)
(* in NVRAM.                                                               *)
(***************************************************************************)
Evolves ==
  /\ build' = build
  /\ \A d \in Descs : Active(d) =>
       /\ Active(d)' /\ (Decided(d) => Decided(d)') /\ (Undecided(d)' => Undecided(d))
  /\ \A a \in Addresses : \A d \in Descs : Active(d) /\ Undecided(d)' =>
       /\ mem[a] \in Ptrs(d) => mem'[a] \in Ptrs(d)
       /\ build = "pmem" /\ mem[a] \in Ptrs(d) /\ nvram[a] \subseteq Ptrs(d) =>
            nvram'[a] \subseteq Ptrs(d)
       /\ \A i : mem[a] = CondPtr(d, i) => mem'[a] \in {CondPtr(d, i)} \union Ptrs(d)

LEMMA StoreKeeps ==
  ASSUME TypeInv, MemInv, StatusInv, build' = build, UNCHANGED statusVars,
         NEW a \in Addresses, NEW x, Store(a, x),
         x.tag = "cond" => words[x.d][x.i].address = a /\ Active(x.d),
         x.tag = "mwcas" => Targets(x.d, a) /\ Active(x.d),
         \A d \in Descs : build = "pmem" /\ Undecided(d) /\ x = MwCASPtr(d) =>
           nvram[a] \subseteq Ptrs(d),
         \A d \in Descs : Undecided(d) /\ mem[a] \in Ptrs(d) => x \in Ptrs(d),
         \A d \in Descs : \A i : Undecided(d) /\ mem[a] = CondPtr(d, i) =>
           x \in {CondPtr(d, i)} \union Ptrs(d)
  PROVE  Evolves /\ MemInv'
  <1>1. /\ mem' = [mem EXCEPT ![a] = x] /\ nvram' = [nvram EXCEPT ![a] = @ \union {x}]
        /\ mem \in [Addresses -> Words] /\ nvram \in [Addresses -> SUBSET Words]
        /\ status' = status
    BY DEF Store, TypeInv, MemType, statusVars
  <1>2. \A d : /\ Active(d)' <=> Active(d)
               /\ Decided(d)' <=> Decided(d)
               /\ Undecided(d)' <=> Undecided(d)
    BY <1>1 DEF Active, Decided, Undecided
  <1>3. /\ mem'[a] = x /\ nvram'[a] = nvram[a] \union {x}
        /\ \A b \in Addresses : b # a => mem'[b] = mem[b] /\ nvram'[b] = nvram[b]
    BY <1>1
  <1>4. Evolves
    <2>1. ASSUME NEW b \in Addresses, NEW d \in Descs, Active(d), Undecided(d)'
          PROVE  /\ mem[b] \in Ptrs(d) => mem'[b] \in Ptrs(d)
                 /\ build = "pmem" /\ mem[b] \in Ptrs(d) /\ nvram[b] \subseteq Ptrs(d) =>
                      nvram'[b] \subseteq Ptrs(d)
                 /\ \A i : mem[b] = CondPtr(d, i) =>
                      mem'[b] \in {CondPtr(d, i)} \union Ptrs(d)
      BY <1>2, <1>3, <2>1
    <2> QED
      BY <1>2, <2>1 DEF Evolves
  <1>5. MemInv'
    <2>1. ASSUME NEW b \in Addresses, NEW w, w = mem'[b]
          PROVE  /\ w.tag = "cond" => words[w.d][w.i].address = b /\ Active(w.d)'
                 /\ w.tag = "mwcas" => Targets(w.d, b) /\ Active(w.d)'
      BY <1>2, <1>3, <2>1 DEF MemInv
    <2>2. ASSUME NEW b \in Addresses, NEW d \in Descs,
                 build' = "pmem" /\ Undecided(d)' /\ mem'[b] = MwCASPtr(d)
          PROVE  nvram'[b] \subseteq Ptrs(d)
      <3>1. build = "pmem" /\ Undecided(d)
        BY <1>2, <2>2
      <3>2. CASE b = a
        BY <1>3, <2>2, <3>1, <3>2 DEF Ptrs
      <3>3. CASE b # a
        BY <1>3, <2>2, <3>1, <3>3 DEF MemInv
      <3> QED
        BY <3>2, <3>3
    <2> QED
      BY <2>1, <2>2 DEF MemInv, Active
  <1> QED
    BY <1>4, <1>5

LEMMA StatusKeeps ==
  ASSUME TypeInv, MemInv, StatusInv, build' = build, UNCHANGED memVars,
         NEW d \in Descs, NEW st, status' = [status EXCEPT ![d] = st],
         Active(d) => st.s # "Finished", Decided(d) => st.s \in {"Succeeded", "Failed"},
         st = Status("Undecided") => Undecided(d) \/ ~Active(d)
  PROVE  Evolves /\ MemInv'
  <1>1. /\ mem' = mem /\ nvram' = nvram
        /\ status \in [Descs -> [s : States, dirty : 0 .. 1]]
    BY DEF TypeInv, StatusType, memVars
  <1>2. status'[d] = st /\ \A c \in Descs : c # d => status'[c] = status[c]
    BY <1>1
  <1>3. \A c \in Descs : Active(c) =>
          /\ Active(c)' /\ (Decided(c) => Decided(c)') /\ (Undecided(c)' => Undecided(c))
    BY <1>2 DEF Active, Decided, Undecided
  <1>4. Evolves
    BY <1>1, <1>3 DEF Evolves
  <1>5. MemInv'
    <2>1. ASSUME NEW b \in Addresses, NEW w, w = mem'[b]
          PROVE  /\ w.tag = "cond" => words[w.d][w.i].address = b /\ Active(w.d)'
                 /\ w.tag = "mwcas" => Targets(w.d, b) /\ Active(w.d)'
      <3>1. mem[b] \in Words
        BY DEF TypeInv, MemType
      <3>2. mem[b].tag \in {"cond", "mwcas"} => mem[b].d \in Descs
        BY <3>1, WordsHaveForm DEF WordForm
      <3> QED
        BY <1>1, <1>3, <2>1, <3>2 DEF MemInv
    <2>2. ASSUME NEW b \in Addresses, NEW c \in Descs,
                 build' = "pmem" /\ Undecided(c)' /\ mem'[b] = MwCASPtr(c)
          PROVE  nvram'[b] \subseteq Ptrs(c)
      <3>1. mem[b].tag = "mwcas" /\ mem[b].d = c
        BY <1>1, <2>2, Forms
      <3>2. Active(c)
        BY <3>1 DEF MemInv
      <3>3. Undecided(c)
        BY <1>3, <2>2, <3>2
      <3> QED
        BY <1>1, <2>2, <3>3 DEF MemInv
    <2> QED
      BY <2>1, <2>2 DEF MemInv, Active
  <1> QED
    BY <1>4, <1>5

LEMMA FlushKeeps ==
  ASSUME TypeInv, MemInv, StatusInv, build' = build, UNCHANGED statusVars,
         NEW a \in Addresses, PersistAddress(a)
  PROVE  Evolves /\ MemInv'
  <1>1. /\ mem' = mem /\ nvram' = [nvram EXCEPT ![a] = {mem[a]}]
        /\ nvram \in [Addresses -> SUBSET Words] /\ status' = status
    BY DEF PersistAddress, TypeInv, MemType, statusVars
  <1>2. \A d : /\ Active(d)' <=> Active(d)
               /\ Decided(d)' <=> Decided(d)
               /\ Undecided(d)' <=> Undecided(d)
    BY <1>1 DEF Active, Decided, Undecided
  <1>3. /\ nvram'[a] = {mem[a]}
        /\ \A b \in Addresses : b # a => nvram'[b] = nvram[b]
    BY <1>1
  <1>4. Evolves
    BY <1>1, <1>2, <1>3 DEF Evolves
  <1>5. MemInv'
    <2>1. ASSUME NEW b \in Addresses, NEW w, w = mem'[b]
          PROVE  /\ w.tag = "cond" => words[w.d][w.i].address = b /\ Active(w.d)'
                 /\ w.tag = "mwcas" => Targets(w.d, b) /\ Active(w.d)'
      BY <1>1, <1>2, <2>1 DEF MemInv
    <2>2. ASSUME NEW b \in Addresses, NEW c \in Descs,
                 build' = "pmem" /\ Undecided(c)' /\ mem'[b] = MwCASPtr(c)
          PROVE  nvram'[b] \subseteq Ptrs(c)
      BY <1>1, <1>2, <1>3, <2>2 DEF MemInv, Ptrs
    <2> QED
      BY <2>1, <2>2 DEF MemInv, Active
  <1> QED
    BY <1>4, <1>5

LEMMA NothingKeeps ==
  ASSUME MemInv, build' = build, UNCHANGED memVars, status' = status
  PROVE  Evolves /\ MemInv'
  <1>1. mem' = mem /\ nvram' = nvram /\ status' = status
    BY DEF memVars
  <1>2. \A d : /\ Active(d)' <=> Active(d)
               /\ Decided(d)' <=> Decided(d)
               /\ Undecided(d)' <=> Undecided(d)
    BY <1>1 DEF Active, Decided, Undecided
  <1>3. Evolves
    BY <1>1, <1>2 DEF Evolves
  <1>4. MemInv'
    BY <1>1, <1>2 DEF MemInv, Active
  <1> QED
    BY <1>3, <1>4

-----------------------------------------------------------------------------

(* Frames *)

LEMMA PointerKept ==
  ASSUME NEW f, FrameOK(f), PointerInv(f), Evolves
  PROVE  PointerInv(f)'
  <1>1. build' = build /\ Addr(f) \in Addresses
    BY FrameKinds DEF Evolves
  <1>2. f.pc \in CondPCs => f.ret.d \in Descs
    BY FrameKinds, CondForm
  <1>3. f.pc \in DirtyPCs /\ f.ret.tag = "mwcas" => f.ret.d \in Descs
    BY FrameKinds, MwCASForm
  <1>4. \A d : Flag(MwCASPtr(d))' = Flag(MwCASPtr(d))
    BY <1>1 DEF Flag
  <1>5. f.pc \in CondPCs =>
          words[f.ret.d][f.ret.i].address = Addr(f) /\ Active(f.ret.d)'
    BY <1>2 DEF PointerInv, Evolves
  <1>6. f.pc = "install" =>
          \/ f.new = Flag(MwCASPtr(f.ret.d))'
          \/ f.new = Old(f.ret.d, f.ret.i) /\ Decided(f.ret.d)'
    <2>1. f.pc = "install" => f.pc \in CondPCs
      BY DEF CondPCs
    <2>2. f.pc = "install" => Active(f.ret.d) /\ f.ret.d \in Descs
      BY <1>2, <2>1 DEF PointerInv
    <2>3. f.pc = "install" =>
            \/ f.new = Flag(MwCASPtr(f.ret.d))
            \/ f.new = Old(f.ret.d, f.ret.i) /\ Decided(f.ret.d)
      BY DEF PointerInv
    <2> QED
      BY <1>4, <2>2, <2>3 DEF Evolves
  <1>7. f.pc \in CondPCs =>
          (f.desired.tag = "mwcas" => f.desired = Flag(MwCASPtr(f.ret.d))')
    BY <1>4 DEF PointerInv
  <1>8. f.pc \in DirtyPCs /\ f.ret.tag = "mwcas" =>
          /\ Targets(f.ret.d, Addr(f)) /\ Active(f.ret.d)'
          /\ Undecided(f.ret.d)' => mem'[Addr(f)] \in Ptrs(f.ret.d)
          /\ f.pc = "clean" /\ build' = "pmem" /\ Undecided(f.ret.d)' =>
               nvram'[Addr(f)] \subseteq Ptrs(f.ret.d)
    BY <1>1, <1>3 DEF PointerInv, Evolves
  <1> QED
    BY <1>5, <1>6, <1>7, <1>8 DEF PointerInv

LEMMA CallKept ==
  ASSUME NEW f, FrameOK(f), f.d # 0, CallInv(f), Evolves
  PROVE  CallInv(f)'
  <1>1. /\ build' = build /\ Addr(f) \in Addresses /\ f.d \in Descs
        /\ f.i \in DOMAIN words[f.d] /\ Addr(f) = words[f.d][f.i].address
    BY FrameKinds DEF Evolves
  <1>2. DOMAIN words[f.d] = 1 .. Len(words[f.d])
        /\ \A j \in DOMAIN words[f.d] : words[f.d][j].address \in Addresses
    BY <1>1, WordsFacts
  <1>3. Active(f.d) /\ Active(f.d)'
    BY <1>1 DEF CallInv, Evolves
  <1>4. Undecided(f.d)' => Undecided(f.d)
    BY <1>1, <1>3 DEF Evolves
  <1>5. 1 .. f.i - 1 \subseteq DOMAIN words[f.d]
    BY <1>1, <1>2
  <1>6. ASSUME NEW j \in DOMAIN words[f.d], Undecided(f.d)', Installed(f.d, j)
        PROVE  Installed(f.d, j)' /\ (Persisted(f.d, j) => Persisted(f.d, j)')
    BY <1>1, <1>2, <1>3, <1>6 DEF Evolves, Installed, Persisted
  <1>7. Installing(f) /\ Undecided(f.d)' => \A j \in 1 .. f.i - 1 : Installed(f.d, j)'
    BY <1>4, <1>5, <1>6 DEF CallInv
  <1>8. Committing(f) /\ Undecided(f.d)' =>
          /\ \A j \in DOMAIN words[f.d] : Installed(f.d, j)'
          /\ \A j \in 1 .. f.i - 1 : Persisted(f.d, j)'
    BY <1>4, <1>5, <1>6 DEF CallInv
  <1>9. f.pc = "decide" /\ f.my_status = "Succeeded" /\ Undecided(f.d)' =>
          \A j \in DOMAIN words[f.d] : Installed(f.d, j)' /\ Persisted(f.d, j)'
    BY <1>4, <1>6 DEF CallInv
  <1>10. Finishing(f) => Decided(f.d)'
    BY <1>1, <1>3 DEF CallInv, Evolves
  <1>11. f.pc \in {"final_status", "install"} /\ f.desired.tag = "none" =>
           /\ f.ret = CondPtr(f.d, f.i)
           /\ Undecided(f.d)' => mem'[Addr(f)] \in {f.ret} \union Ptrs(f.d)
    BY <1>1, <1>3, <1>4 DEF CallInv, Evolves
  <1>12. Starting(f) => f.i = 1
    BY DEF CallInv
  <1> QED
    BY <1>3, <1>7, <1>8, <1>9, <1>10, <1>11, <1>12 DEF CallInv, Starting, Installing,
       Committing, Finishing

LEMMA FrameKept ==
  ASSUME NEW f, FrameOK(f), FrameInv(f), Evolves
  PROVE  FrameInv(f)'
  BY PointerKept, CallKept DEF FrameInv

(* What the next frame of a call must show when it starts with no pointer. *)
LEMMA FreshInv ==
  ASSUME NEW g, NEW d, NEW i, NEW p, Fresh(g, d, i, p),
         p \in {"load", "flush", "status", "condcas", "precommit", "decide",
                "persist_status", "swap", "return"},
         d # 0 =>
           /\ Active(d)'
           /\ p \in {"flush", "status"} => i = 1
           /\ p = "condcas" /\ Undecided(d)' => \A j \in 1 .. i - 1 : Installed(d, j)'
           /\ p = "precommit" /\ Undecided(d)' =>
                /\ \A j \in DOMAIN words[d] : Installed(d, j)'
                /\ \A j \in 1 .. i - 1 : Persisted(d, j)'
           /\ p = "decide" /\ g.my_status = "Succeeded" /\ Undecided(d)' =>
                \A j \in DOMAIN words[d] : Installed(d, j)' /\ Persisted(d, j)'
           /\ p \in {"persist_status", "swap", "return"} => Decided(d)'
  PROVE  FrameInv(g)'
  <1>1. g.d = d /\ g.i = i /\ g.pc = p /\ g.desired = NoWord
    BY DEF Fresh
  <1>2. p \notin CondPCs /\ p \notin DirtyPCs /\ p \notin {"final_status", "install"}
    BY DEF CondPCs, DirtyPCs
  <1>3. PointerInv(g)'
    BY <1>1, <1>2 DEF PointerInv, CondPCs
  <1>4. CASE d = 0
    BY <1>1, <1>3, <1>4 DEF FrameInv
  <1>5. CASE d # 0
    <2>1. Starting(g) => p \in {"flush", "status"}
      BY <1>1 DEF Starting
    <2>2. Installing(g) => p = "condcas"
      BY <1>1, <1>2 DEF Installing
    <2>3. Committing(g) => p = "precommit"
      BY <1>1, <1>2 DEF Committing
    <2>4. Finishing(g) => p \in {"persist_status", "swap", "return"}
      BY <1>1, <1>2 DEF Finishing
    <2>5. CallInv(g)'
      <3>1. Starting(g)' = Starting(g) /\ Installing(g)' = Installing(g) /\
            Committing(g)' = Committing(g) /\ Finishing(g)' = Finishing(g)
        BY DEF Starting, Installing, Committing, Finishing
      <3> QED
        BY <1>1, <1>2, <1>5, <2>1, <2>2, <2>3, <2>4, <3>1 DEF CallInv
    <2> QED
      BY <1>3, <2>5 DEF FrameInv
  <1> QED
    BY <1>4, <1>5

(* The frames that a step leaves keep the invariant. *)
Continues == \E S : Changed(S) /\ \A g \in S : FrameInv(g)'

LEMMA FramesKept ==
  ASSUME TypeInv, FramesInv, Evolves, Continues
  PROVE  FramesInv'
  <1>1. PICK S : Changed(S) /\ \A g \in S : FrameInv(g)'
    BY DEF Continues
  <1>2. SUFFICES ASSUME NEW t \in Threads, NEW g \in Range(stack'[t])
                 PROVE  FrameInv(g)'
    BY DEF FramesInv, Range
  <1>3. PICK k \in DOMAIN stack'[t] : g = stack'[t][k]
    BY DEF Range
  <1>4. CASE k \in DOMAIN stack[t] /\ g = stack[t][k]
    <2>1. FrameOK(g)
      BY <1>4 DEF TypeInv, StackOK
    <2>2. FrameInv(g)
      BY <1>4 DEF FramesInv, Range
    <2> QED
      BY <2>1, <2>2, FrameKept
  <1> QED
    BY <1>1, <1>3, <1>4 DEF Changed

LEMMA OneContinues ==
  ASSUME NEW g, Changed({g}), FrameInv(g)'
  PROVE  Continues
  BY DEF Continues

LEMMA TwoContinue ==
  ASSUME NEW g, NEW h, Changed({g, h}), FrameInv(g)', FrameInv(h)'
  PROVE  Continues
  BY DEF Continues

LEMMA NothingContinues ==
  ASSUME Changed({})
  PROVE  Continues
  BY DEF Continues

(* A call that goes on after a frame of the same operation. *)
LEMMA MovedCall ==
  ASSUME NEW f, NEW g, NEW p, Moved(g, f, p), f.d # 0, FrameInv(f)',
         f.pc \notin CondPCs \union DirtyPCs,
         p \in {"status", "persist_status_first", "clean_status_first", "condcas",
                "clean_status", "swap", "swap_clean", "return"},
         p \in {"status", "persist_status_first", "clean_status_first", "condcas"} =>
           Starting(f),
         p \in {"clean_status", "swap", "swap_clean", "return"} => Decided(f.d)'
  PROVE  FrameInv(g)'
  <1>1. g.d = f.d /\ g.i = f.i /\ g.pc = p /\ g.desired = f.desired
    BY DEF Moved
  <1>2. p \notin CondPCs /\ p \notin DirtyPCs /\ p \notin {"final_status", "install"}
    BY DEF CondPCs, DirtyPCs
  <1>3. f.desired = NoWord
    <2>1. f.pc \notin {"cond_recheck", "final_status", "install"}
      BY DEF CondPCs
    <2> QED
      BY <2>1 DEF FrameInv, PointerInv
  <1>4. PointerInv(g)'
    BY <1>1, <1>2, <1>3 DEF PointerInv, CondPCs
  <1>5. Active(f.d)' /\ (Starting(f) => f.i = 1)
    BY DEF FrameInv, CallInv, Starting
  <1>6. Starting(g) => p \in {"status", "persist_status_first", "clean_status_first"}
    BY <1>1 DEF Starting
  <1>7. Installing(g) => p = "condcas"
    BY <1>1, <1>2 DEF Installing
  <1>8. ~Committing(g)
    BY <1>1, <1>2 DEF Committing
  <1>9. Finishing(g) => p \in {"clean_status", "swap", "swap_clean", "return"}
    BY <1>1, <1>2 DEF Finishing
  <1>10. Starting(g)' = Starting(g) /\ Installing(g)' = Installing(g) /\
         Committing(g)' = Committing(g) /\ Finishing(g)' = Finishing(g)
    BY DEF Starting, Installing, Committing, Finishing
  <1>11. CallInv(g)'
    BY <1>1, <1>2, <1>5, <1>6, <1>7, <1>8, <1>9, <1>10 DEF CallInv
  <1> QED
    BY <1>4, <1>11 DEF FrameInv

LEMMA DirtyInv ==
  ASSUME NEW g, g.pc = "persist", g.desired = NoWord,
         g.ret.tag = "mwcas" =>
           /\ Targets(g.ret.d, Addr(g)) /\ Active(g.ret.d)'
           /\ Undecided(g.ret.d)' => mem'[Addr(g)] \in Ptrs(g.ret.d),
         g.d # 0 =>
           /\ Active(g.d)'
           /\ Installing(g) /\ Undecided(g.d)' => \A j \in 1 .. g.i - 1 : Installed(g.d, j)'
           /\ Committing(g) /\ Undecided(g.d)' =>
                /\ \A j \in DOMAIN words[g.d] : Installed(g.d, j)'
                /\ \A j \in 1 .. g.i - 1 : Persisted(g.d, j)'
           /\ Finishing(g) => Decided(g.d)'
  PROVE  FrameInv(g)'
  <1>1. g.pc \notin CondPCs /\ g.pc # "clean" /\ g.pc # "decide"
        /\ g.pc \notin {"final_status", "install"}
    BY DEF CondPCs
  <1>2. PointerInv(g)'
    BY <1>1 DEF PointerInv, CondPCs
  <1>3. ~Starting(g)
    BY DEF Starting
  <1>4. Starting(g)' = Starting(g) /\ Installing(g)' = Installing(g) /\
        Committing(g)' = Committing(g) /\ Finishing(g)' = Finishing(g)
    BY DEF Starting, Installing, Committing, Finishing
  <1>5. g.d # 0 => CallInv(g)'
    BY <1>1, <1>3, <1>4 DEF CallInv
  <1> QED
    BY <1>2, <1>5 DEF FrameInv

LEMMA CondInv ==
  ASSUME NEW g, g.pc \in CondPCs,
         words[g.ret.d][g.ret.i].address = Addr(g), Active(g.ret.d)',
         g.pc = "install" =>
           \/ g.new = Flag(MwCASPtr(g.ret.d))'
           \/ g.new = Old(g.ret.d, g.ret.i) /\ Decided(g.ret.d)',
         g.pc = "cond_status" \/ g.d = 0 => g.desired = NoWord,
         g.desired.tag = "mwcas" => g.desired = Flag(MwCASPtr(g.ret.d))',
         g.pc = "cond_recheck" => g.desired.tag # "none",
         g.d # 0 =>
           /\ Active(g.d)'
           /\ Undecided(g.d)' => \A j \in 1 .. g.i - 1 : Installed(g.d, j)'
           /\ g.pc \in {"final_status", "install"} /\ g.desired.tag = "none" =>
                /\ g.ret = CondPtr(g.d, g.i)
                /\ Undecided(g.d)' => mem'[Addr(g)] \in {g.ret} \union Ptrs(g.d)
  PROVE  FrameInv(g)'
  <1>1. g.pc \notin DirtyPCs /\ g.pc # "decide"
    BY DEF CondPCs, DirtyPCs
  <1>2. g.pc \notin {"cond_recheck", "final_status", "install"} => g.pc = "cond_status"
    BY DEF CondPCs
  <1>3. PointerInv(g)'
    BY <1>1, <1>2 DEF PointerInv
  <1>4. ~Starting(g) /\ ~Committing(g) /\ ~Finishing(g)
    BY <1>1 DEF Starting, Committing, Finishing, CondPCs
  <1>5. Starting(g)' = Starting(g) /\ Installing(g)' = Installing(g) /\
        Committing(g)' = Committing(g) /\ Finishing(g)' = Finishing(g)
    BY DEF Starting, Installing, Committing, Finishing
  <1>6. g.d # 0 => CallInv(g)'
    BY <1>1, <1>4, <1>5 DEF CallInv
  <1> QED
    BY <1>3, <1>6 DEF FrameInv

(* What a call in its installing loop knows, stated for the next state. *)
LEMMA InstallingCall ==
  ASSUME NEW f, FrameOK(f), f.d # 0, FrameInv(f)', Installing(f)
  PROVE  /\ Active(f.d)'
         /\ Undecided(f.d)' => \A j \in 1 .. f.i - 1 : Installed(f.d, j)'
  BY DEF FrameInv, CallInv, Installing

LEMMA NextInstallContinues ==
  ASSUME NEW f, FrameOK(f), f.d # 0, FrameInv(f)', Installing(f), build' = build,
         build \in {"pmem", "volatile"},
         Undecided(f.d)' => Installed(f.d, f.i)', NextOf(f, "condcas", AfterInstall)
  PROVE  Continues
  <1>1. f.d \in Descs /\ f.i \in DOMAIN words[f.d]
    BY FrameKinds
  <1>2. DOMAIN words[f.d] = 1 .. Len(words[f.d]) /\ Len(words[f.d]) \in Nat
    BY <1>1, WordsFacts
  <1>3. Active(f.d)' /\ (Undecided(f.d)' => \A j \in 1 .. f.i : Installed(f.d, j)')
    <2>1. \A j \in 1 .. f.i : j \in 1 .. f.i - 1 \/ j = f.i
      BY <1>1, <1>2, SMT
    <2> QED
      BY <2>1, InstallingCall
  <1>4. PICK g : /\ Changed({g})
                 /\ \/ f.i + 1 \in DOMAIN words[f.d] /\ Fresh(g, f.d, f.i + 1, "condcas")
                    \/ f.i = Len(words[f.d]) /\ Fresh(g, f.d, 1, AfterInstall)
    BY DEF NextOf
  <1>5. CASE Fresh(g, f.d, f.i + 1, "condcas")
    <2>1. 1 .. (f.i + 1) - 1 = 1 .. f.i
      BY <1>1, <1>2
    <2>2. FrameInv(g)'
      BY <1>3, <1>5, <2>1, FreshInv
    <2> QED
      BY <1>4, <2>2, OneContinues
  <1>6. CASE f.i = Len(words[f.d]) /\ Fresh(g, f.d, 1, AfterInstall)
    <2>1. Undecided(f.d)' => \A j \in DOMAIN words[f.d] : Installed(f.d, j)'
      BY <1>2, <1>3, <1>6
    <2>2. CASE build = "pmem"
      <3>1. AfterInstall = "precommit"
        BY <2>2 DEF AfterInstall
      <3>2. 1 .. 1 - 1 = {}
        OBVIOUS
      <3>3. FrameInv(g)'
        BY <1>3, <1>6, <2>1, <3>1, <3>2, FreshInv
      <3> QED
        BY <1>4, <3>3, OneContinues
    <2>3. CASE build = "volatile"
      <3>1. AfterInstall = "decide"
        BY <2>3 DEF AfterInstall
      <3>2. \A j \in DOMAIN words[f.d] : Persisted(f.d, j)'
        BY <2>3 DEF Persisted
      <3>3. FrameInv(g)'
        BY <1>3, <1>6, <2>1, <3>1, <3>2, FreshInv
      <3> QED
        BY <1>4, <3>3, OneContinues
    <2> QED
      BY <2>2, <2>3
  <1> QED
    BY <1>4, <1>5, <1>6

LEMMA PersistOtherContinues ==
  ASSUME NEW f, FrameOK(f), f.d # 0, FrameInv(f)', Installing(f), NEW rval,
         PersistOther(f, rval), Targets(rval.d, Addr(f)), Active(rval.d)',
         Undecided(rval.d)' => mem'[Addr(f)] \in Ptrs(rval.d)
  PROVE  Continues
  <1>1. Active(f.d)' /\ (Undecided(f.d)' => \A j \in 1 .. f.i - 1 : Installed(f.d, j)')
    BY InstallingCall
  <1>2. rval.tag = "mwcas" /\ rval.d # f.d
    BY DEF PersistOther
  <1>3. PICK g : /\ Changed({g}) /\ g.d = f.d /\ g.i = f.i /\ g.pc = "persist"
                 /\ g.ret = rval /\ g.desired = NoWord
    BY DEF PersistOther
  <1>4. Addr(g) = Addr(f)
    BY <1>3 DEF Addr
  <1>5. ~Committing(g) /\ ~Finishing(g)
    BY <1>2, <1>3 DEF Committing, Finishing
  <1>6. FrameInv(g)'
    BY <1>1, <1>3, <1>4, <1>5, DirtyInv
  <1> QED
    BY <1>3, <1>6, OneContinues

LEMMA HelpOtherContinues ==
  ASSUME NEW f, FrameOK(f), f.d # 0, FrameInv(f)', Installing(f), NEW d, d # 0, Active(d)',
         NEW g, NEW h, Changed({g, h}),
         Fresh(g, f.d, f.i, IF f.d = 0 THEN "load" ELSE "condcas"), Fresh(h, d, 1, "status")
  PROVE  Continues
  <1>1. Active(f.d)' /\ (Undecided(f.d)' => \A j \in 1 .. f.i - 1 : Installed(f.d, j)')
    BY InstallingCall
  <1>2. Fresh(g, f.d, f.i, "condcas")
    OBVIOUS
  <1>3. FrameInv(g)'
    BY <1>1, <1>2, FreshInv
  <1>4. FrameInv(h)'
    BY FreshInv
  <1> QED
    BY <1>3, <1>4, TwoContinue

LEMMA GiveUpContinues ==
  ASSUME NEW f, f.d # 0, FrameInv(f)', NEW rval, GiveUp(f, rval)
  PROVE  Continues
  <1>1. Active(f.d)'
    BY DEF FrameInv, CallInv
  <1>2. PICK g : Changed({g}) /\ g.my_status = "Failed" /\ Fresh(g, f.d, 1, "decide")
    BY DEF GiveUp
  <1>3. FrameInv(g)'
    BY <1>1, <1>2, FreshInv
  <1> QED
    BY <1>2, <1>3, OneContinues

-----------------------------------------------------------------------------

(* The steps *)

Keeps == Evolves /\ MemInv' /\ Continues

LEMMA StartingKeeps ==
  ASSUME OpInv, build' = build, NEW t \in Threads,
         FlushDescriptor(t) \/ ReadStatus(t) \/ FlushStatus(t)
  PROVE  Keeps
  <1>1. TypeInv /\ MemInv /\ StatusInv
    BY DEF OpInv
  <1>2. UNCHANGED memVars /\ status' = status
    BY DEF FlushDescriptor, ReadStatus, FlushStatus, PersistStatus, statusVars
  <1>3. Evolves /\ MemInv'
    BY <1>1, <1>2, NothingKeeps
  <1>4. PICK f : f = Top(t)
    OBVIOUS
  <1>5. stack[t] # <<>>
    BY DEF FlushDescriptor, ReadStatus, FlushStatus, At
  <1>6. FrameOK(f) /\ FrameInv(f) /\ FrameInv(f)'
    BY <1>3, <1>4, <1>5, Here, FrameKept
  <1>7. f.d \in Descs => f.d # 0
    BY DEF Descs
  <1>8. f.d \in Descs => Undecided(f.d) \/ Decided(f.d)'
    BY <1>1, <1>2, <1>6, <1>7, StatusCases DEF FrameInv, CallInv, Decided
  <1>9. CASE FlushDescriptor(t)
    <2>1. f.pc = "flush" /\ f.d \in Descs /\ \E g : Changed({g}) /\ Moved(g, f, "status")
      BY <1>1, <1>4, <1>9, FlushDescriptorEffect
    <2>2. f.pc \notin CondPCs \union DirtyPCs /\ Starting(f)
      BY <2>1 DEF CondPCs, DirtyPCs, Starting
    <2>3. PICK g : Changed({g}) /\ Moved(g, f, "status")
      BY <2>1
    <2>4. FrameInv(g)'
      BY <1>6, <1>7, <2>1, <2>2, <2>3, MovedCall
    <2> QED
      BY <1>3, <2>3, <2>4, OneContinues DEF Keeps
  <1>10. CASE ReadStatus(t)
    <2>1. /\ f.pc = "status" /\ f.d \in Descs
          /\ \E g, p : /\ Changed({g}) /\ Moved(g, f, p)
                       /\ p \in {"return", "persist_status_first", "condcas"}
                       /\ p = "return" => ~Undecided(f.d)
      BY <1>1, <1>4, <1>10, ReadStatusEffect
    <2>2. f.pc \notin CondPCs \union DirtyPCs /\ Starting(f)
      BY <2>1 DEF CondPCs, DirtyPCs, Starting
    <2>3. PICK g, p : /\ Changed({g}) /\ Moved(g, f, p)
                      /\ p \in {"return", "persist_status_first", "condcas"}
                      /\ p = "return" => ~Undecided(f.d)
      BY <2>1
    <2>4. p = "return" => Decided(f.d)'
      BY <1>8, <2>1, <2>3
    <2>5. FrameInv(g)'
      BY <1>6, <1>7, <2>1, <2>2, <2>3, <2>4, MovedCall
    <2> QED
      BY <1>3, <2>3, <2>5, OneContinues DEF Keeps
  <1>11. CASE FlushStatus(t)
    <2>1. f.d \in Descs
      BY <1>1, <1>4, <1>11, FlushStatusEffect
    <2>2. PICK g, p : /\ Changed({g}) /\ Moved(g, f, p)
                      /\ \/ f.pc = "persist_status_first" /\ p = "clean_status_first"
                         \/ f.pc = "persist_status" /\ p = "clean_status"
      BY <1>1, <1>4, <1>11, FlushStatusEffect
    <2>3. CASE f.pc = "persist_status_first" /\ p = "clean_status_first"
      <3>1. f.pc \notin CondPCs \union DirtyPCs /\ Starting(f)
        BY <2>3 DEF CondPCs, DirtyPCs, Starting
      <3>2. FrameInv(g)'
        BY <1>6, <1>7, <2>1, <2>2, <2>3, <3>1, MovedCall
      <3> QED
        BY <1>3, <2>2, <3>2, OneContinues DEF Keeps
    <2>4. CASE f.pc = "persist_status" /\ p = "clean_status"
      <3>1. f.pc \notin CondPCs \union DirtyPCs /\ Finishing(f)
        BY <2>4 DEF CondPCs, DirtyPCs, Finishing
      <3>2. Decided(f.d)'
        BY <1>6, <1>7, <2>1, <3>1 DEF FrameInv, CallInv, Finishing
      <3>3. FrameInv(g)'
        BY <1>6, <1>7, <2>1, <2>2, <2>4, <3>1, <3>2, MovedCall
      <3> QED
        BY <1>3, <2>2, <3>3, OneContinues DEF Keeps
    <2> QED
      BY <2>2, <2>3, <2>4
  <1> QED
    BY <1>9, <1>10, <1>11

LEMMA CleanStatusKeeps ==
  ASSUME OpInv, build' = build, NEW t \in Threads, CleanStatus(t)
  PROVE  Keeps
  <1>1. TypeInv /\ MemInv /\ StatusInv
    BY DEF OpInv
  <1>2. PICK f : f = Top(t)
    OBVIOUS
  <1>3. /\ UNCHANGED memVars /\ StoreStatus(f.d, Clean(status[f.d])) /\ stack[t] # <<>>
    BY <1>2 DEF CleanStatus, At
  <1>4. f.d \in Descs /\ f.d # 0
    BY <1>1, <1>2, CleanStatusEffect DEF Descs
  <1>5. FrameOK(f) /\ FrameInv(f)
    BY <1>2, <1>3, Here
  <1>6. PICK st : st = Clean(status[f.d])
    OBVIOUS
  <1>7. status' = [status EXCEPT ![f.d] = st]
    BY <1>3, <1>6 DEF StoreStatus
  <1>8. status[f.d] \in [s : States, dirty : 0 .. 1]
    BY <1>1, <1>4 DEF TypeInv, StatusType
  <1>9. st.s = status[f.d].s
    BY <1>6, <1>8, StatusForms
  <1>10. Active(f.d)
    BY <1>4, <1>5 DEF FrameInv, CallInv
  <1>11. st = Status("Undecided") => Undecided(f.d)
    <2>1. Undecided(f.d) \/ Decided(f.d)
      BY <1>1, <1>4, <1>10, StatusCases
    <2>2. st = Status("Undecided") => status[f.d].s = "Undecided"
      BY <1>9, StatusForms
    <2> QED
      BY <2>1, <2>2 DEF Decided
  <1>12. Evolves /\ MemInv'
    BY <1>1, <1>3, <1>4, <1>7, <1>9, <1>11, StatusKeeps DEF Active, Decided
  <1>13. FrameInv(f)'
    BY <1>5, <1>12, FrameKept
  <1>14. PICK g, p : /\ Changed({g}) /\ Moved(g, f, p)
                     /\ \/ f.pc = "clean_status_first" /\ p = "condcas"
                        \/ f.pc = "clean_status" /\ p = "swap"
    BY <1>1, <1>2, CleanStatusEffect
  <1>15. CASE f.pc = "clean_status_first" /\ p = "condcas"
    <2>1. f.pc \notin CondPCs \union DirtyPCs /\ Starting(f)
      BY <1>15 DEF CondPCs, DirtyPCs, Starting
    <2>2. FrameInv(g)'
      BY <1>4, <1>13, <1>14, <1>15, <2>1, MovedCall
    <2> QED
      BY <1>12, <1>14, <2>2, OneContinues DEF Keeps
  <1>16. CASE f.pc = "clean_status" /\ p = "swap"
    <2>1. f.pc \notin CondPCs \union DirtyPCs /\ Finishing(f)
      BY <1>16 DEF CondPCs, DirtyPCs, Finishing
    <2>2. Decided(f.d)'
      BY <1>4, <1>13, <2>1 DEF FrameInv, CallInv, Finishing
    <2>3. FrameInv(g)'
      BY <1>4, <1>13, <1>14, <1>16, <2>1, <2>2, MovedCall
    <2> QED
      BY <1>12, <1>14, <2>3, OneContinues DEF Keeps
  <1> QED
    BY <1>14, <1>15, <1>16

LEMMA CondCASKeeps ==
  ASSUME OpInv, build' = build, NEW t \in Threads, CondCAS(t)
  PROVE  Keeps
  <1>1. /\ TypeInv /\ MemInv /\ StatusInv
        /\ build \in {"pmem", "volatile"}
    BY DEF OpInv, TypeInv
  <1>2. PICK f, a : f = Top(t) /\ a = Addr(f)
    OBVIOUS
  <1>3. UNCHANGED statusVars /\ status' = status /\ stack[t] # <<>>
    BY DEF CondCAS, At, statusVars
  <1>4. FrameOK(f) /\ FrameInv(f)
    BY <1>2, <1>3, Here
  <1>5. /\ f.pc = "condcas" /\ f.d \in Descs /\ f.d # 0
        /\ f.i \in DOMAIN words[f.d] /\ a = words[f.d][f.i].address /\ a \in Addresses
        /\ \/ /\ mem[a] = Old(f.d, f.i) /\ Store(a, CondPtr(f.d, f.i))
              /\ Meets(f, CondPtr(f.d, f.i), "final_status")
           \/ /\ UNCHANGED memVars /\ mem[a] # Old(f.d, f.i) /\ mem[a].tag = "cond"
              /\ Meets(f, mem[a], "cond_status")
           \/ /\ UNCHANGED memVars /\ mem[a] # Old(f.d, f.i)
              /\ mem[a].tag \in {"val", "mwcas"}
              /\ \/ NextInstall(f, mem[a]) \/ PersistOther(f, mem[a])
                 \/ HelpOther(f, mem[a]) \/ GiveUp(f, mem[a])
    BY <1>1, <1>2, CondCASEffect
  <1>6. Installing(f) /\ f.desired = NoWord /\ Active(f.d)
    BY <1>4, <1>5 DEF Installing, FrameInv, PointerInv, CallInv
  <1>7. CASE /\ mem[a] = Old(f.d, f.i) /\ Store(a, CondPtr(f.d, f.i))
             /\ Meets(f, CondPtr(f.d, f.i), "final_status")
    <2>1. PICK x : x = CondPtr(f.d, f.i)
      OBVIOUS
    <2>2. x.tag = "cond" /\ x.d = f.d /\ x.i = f.i
      BY <2>1, CondFields
    <2>3. mem[a].tag = "val"
      <3>1. Old(f.d, f.i).tag = "val"
        BY <1>5, FlaggedValue
      <3> QED
        BY <1>7, <3>1
    <2>4. \A d : mem[a] \notin Ptrs(d) /\ x # MwCASPtr(d)
      BY <2>2, <2>3, PtrForms, PtrFields
    <2>5. \A d, i : mem[a] # CondPtr(d, i)
      BY <2>3, CondFields
    <2>6. Evolves /\ MemInv'
      <3>1. /\ Store(a, x) /\ build' = build
            /\ x.tag = "cond" => words[x.d][x.i].address = a /\ Active(x.d)
            /\ x.tag # "mwcas" /\ a \in Addresses
        BY <1>1, <1>5, <1>6, <1>7, <2>1, <2>2
      <3> QED
        BY <1>1, <1>3, <2>4, <2>5, <3>1, StoreKeeps
    <2>7. FrameInv(f)'
      BY <1>4, <2>6, FrameKept
    <2>8. Active(f.d)' /\ (Undecided(f.d)' => \A j \in 1 .. f.i - 1 : Installed(f.d, j)')
      BY <1>4, <1>5, <1>6, <2>7, InstallingCall
    <2>9. PICK g : /\ Changed({g}) /\ g.pc = "final_status" /\ g.ret = x
                   /\ g.d = f.d /\ g.i = f.i /\ g.desired = f.desired
      BY <1>7, <2>1 DEF Meets
    <2>10. mem'[a] = x
      BY <1>1, <1>5, <1>7, <2>1 DEF Store, TypeInv, MemType
    <2>11. Addr(g) = a /\ g.pc \in CondPCs /\ g.desired.tag = "none"
      BY <1>2, <1>6, <2>9, Forms DEF Addr, CondPCs
    <2>12. FrameInv(g)'
      BY <1>5, <1>6, <2>1, <2>2, <2>8, <2>9, <2>10, <2>11, CondInv
    <2> QED
      BY <2>6, <2>9, <2>12, OneContinues DEF Keeps
  <1>8. CASE UNCHANGED memVars
    <2>1. Evolves /\ MemInv'
      BY <1>1, <1>3, <1>8, NothingKeeps
    <2>2. FrameInv(f)'
      BY <1>4, <2>1, FrameKept
    <2>3. Active(f.d)' /\ (Undecided(f.d)' => \A j \in 1 .. f.i - 1 : Installed(f.d, j)')
      BY <1>4, <1>5, <1>6, <2>2, InstallingCall
    <2>4. PICK r : r = mem[a]
      OBVIOUS
    <2>5. r \in Words /\ mem'[a] = r
      BY <1>1, <1>5, <1>8, <2>4 DEF TypeInv, MemType, memVars
    <2>6. CASE r.tag = "cond" /\ Meets(f, r, "cond_status")
      <3>1. words[r.d][r.i].address = a /\ Active(r.d)'
        <4>1. words[r.d][r.i].address = a /\ Active(r.d) /\ r.d \in Descs
          BY <1>1, <1>5, <2>4, <2>5, <2>6, CondForm DEF MemInv
        <4> QED
          BY <2>1, <4>1 DEF Evolves
      <3>2. PICK g : /\ Changed({g}) /\ g.pc = "cond_status" /\ g.ret = r
                     /\ g.d = f.d /\ g.i = f.i /\ g.desired = f.desired
        BY <2>6 DEF Meets
      <3>3. Addr(g) = a /\ g.pc \in CondPCs /\ g.desired.tag = "none"
        BY <1>2, <1>6, <3>2, Forms DEF Addr, CondPCs
      <3>4. FrameInv(g)'
        BY <1>6, <2>3, <3>1, <3>2, <3>3, CondInv
      <3> QED
        BY <2>1, <3>2, <3>4, OneContinues DEF Keeps
    <2>7. CASE NextInstall(f, r) /\ r # Old(f.d, f.i)
      <3>1. r \in Ptrs(f.d) /\ NextOf(f, "condcas", AfterInstall)
        BY <2>7 DEF NextInstall
      <3>2. Installed(f.d, f.i)'
        BY <1>5, <2>5, <3>1 DEF Installed
      <3>3. Continues
        BY <1>1, <1>4, <1>5, <1>6, <2>2, <3>1, <3>2, NextInstallContinues
      <3> QED
        BY <2>1, <3>3 DEF Keeps
    <2>8. r.tag = "mwcas" => r \in Ptrs(r.d) /\ Targets(r.d, a) /\ Active(r.d)' /\ r.d \in Descs
      <3>1. r.tag = "mwcas" =>
              r.d \in Descs /\ r \in Ptrs(r.d) /\ Targets(r.d, a) /\ Active(r.d)
        BY <1>1, <1>5, <2>4, <2>5, MwCASForm DEF MemInv
      <3> QED
        BY <2>1, <3>1 DEF Evolves
    <2>9. CASE PersistOther(f, r)
      <3>1. r.tag = "mwcas"
        BY <2>9 DEF PersistOther
      <3>2. Continues
        BY <1>2, <1>4, <1>5, <1>6, <2>2, <2>5, <2>8, <2>9, <3>1, PersistOtherContinues
      <3> QED
        BY <2>1, <3>2 DEF Keeps
    <2>10. CASE HelpOther(f, r)
      <3>1. r.tag = "mwcas"
        BY <2>10, Forms DEF HelpOther
      <3>2. PICK g, h : /\ Changed({g, h})
                        /\ Fresh(g, f.d, f.i, IF f.d = 0 THEN "load" ELSE "condcas")
                        /\ Fresh(h, r.d, 1, "status")
        BY <2>10 DEF HelpOther
      <3>3. r.d # 0 /\ Active(r.d)'
        BY <2>8, <3>1 DEF Descs
      <3>4. Continues
        BY <1>4, <1>5, <1>6, <2>2, <3>2, <3>3, HelpOtherContinues
      <3> QED
        BY <2>1, <3>4 DEF Keeps
    <2>11. CASE GiveUp(f, r)
      BY <1>5, <2>1, <2>2, <2>11, GiveUpContinues DEF Keeps
    <2>12. \/ r.tag = "cond" /\ Meets(f, r, "cond_status")
           \/ NextInstall(f, r) /\ r # Old(f.d, f.i)
           \/ PersistOther(f, r) \/ HelpOther(f, r) \/ GiveUp(f, r) \/ Keeps
      BY <1>5, <1>7, <2>4
    <2> QED
      BY <2>6, <2>7, <2>9, <2>10, <2>11, <2>12
  <1> QED
    BY <1>5, <1>7, <1>8

(* What a call knows that looks at a CondCAS pointer. *)
LEMMA CondCall ==
  ASSUME NEW f, FrameOK(f), f.pc \in CondPCs, FrameInv(f)'
  PROVE  /\ f.ret.d \in Descs /\ f.ret = CondPtr(f.ret.d, f.ret.i)
         /\ words[f.ret.d][f.ret.i].address = Addr(f) /\ Active(f.ret.d)'
         /\ f.desired.tag = "mwcas" => f.desired = Flag(MwCASPtr(f.ret.d))'
         /\ f.d = 0 => f.desired = NoWord
         /\ f.d # 0 =>
              /\ Installing(f) /\ Active(f.d)'
              /\ Undecided(f.d)' => \A j \in 1 .. f.i - 1 : Installed(f.d, j)'
  <1>1. f.ret \in Words /\ f.ret.tag = "cond"
    BY FrameKinds
  <1>2. Installing(f)
    BY DEF Installing
  <1> QED
    BY <1>1, <1>2, CondForm, InstallingCall DEF FrameInv, PointerInv

LEMMA CondStatusKeeps ==
  ASSUME OpInv, build' = build, NEW t \in Threads,
         CondStatus(t) \/ CondRecheck(t) \/ ReadCondStatus(t)
  PROVE  Keeps
  <1>1. TypeInv /\ MemInv /\ StatusInv
    BY DEF OpInv
  <1>2. PICK f : f = Top(t)
    OBVIOUS
  <1>3. UNCHANGED memVars /\ status' = status /\ mem' = mem /\ stack[t] # <<>>
    BY DEF CondStatus, CondRecheck, ReadCondStatus, At, statusVars, memVars
  <1>4. Evolves /\ MemInv'
    BY <1>1, <1>3, NothingKeeps
  <1>5. FrameOK(f) /\ FrameInv(f)
    BY <1>2, <1>3, Here
  <1>6. FrameInv(f)'
    BY <1>4, <1>5, FrameKept
  <1>7. f.pc \in CondPCs
    BY <1>2 DEF CondStatus, CondRecheck, ReadCondStatus, At, CondPCs
  <1>8. PICK r : r = f.ret
    OBVIOUS
  <1>9. /\ r.d \in Descs /\ r = CondPtr(r.d, r.i) /\ r \in Words /\ r.tag = "cond"
        /\ words[r.d][r.i].address = Addr(f) /\ Active(r.d)'
        /\ f.desired.tag = "mwcas" => f.desired = Flag(MwCASPtr(r.d))'
        /\ f.d = 0 => f.desired = NoWord
        /\ f.d # 0 =>
             /\ Active(f.d)'
             /\ Undecided(f.d)' => \A j \in 1 .. f.i - 1 : Installed(f.d, j)'
    BY <1>5, <1>6, <1>7, <1>8, CondCall, FrameKinds
  <1>10. PICK x : x = Desired(r)
    OBVIOUS
  <1>11. /\ x.tag \in {"mwcas", "val"}
         /\ Undecided(r.d) => x = Flag(MwCASPtr(r.d))'
         /\ x.tag = "mwcas" => x = Flag(MwCASPtr(r.d))'
         /\ ~Undecided(r.d) => x = Old(r.d, r.i) /\ Decided(r.d)'
    <2>1. Flag(MwCASPtr(r.d))' = Flag(MwCASPtr(r.d))
      BY DEF Flag
    <2>2. Active(r.d)
      BY <1>3, <1>9 DEF Active
    <2>3. ~Undecided(r.d) => Decided(r.d)'
      BY <1>1, <1>3, <1>9, <2>2, StatusCases DEF Decided
    <2> QED
      BY <1>9, <1>10, <2>1, <2>3, CondForm
  <1>12. CASE CondStatus(t)
    <2>1. PICK g : /\ Changed({g}) /\ g.pc = "cond_recheck" /\ g.ret = r
                   /\ g.d = f.d /\ g.i = f.i /\ g.desired = x
      BY <1>1, <1>2, <1>8, <1>10, <1>12, CondStatusEffect
    <2>2. f.d # 0
      BY <1>1, <1>2, <1>12, CondStatusEffect
    <2>3. Addr(g) = Addr(f) /\ g.pc \in CondPCs
      BY <2>1 DEF Addr, CondPCs
    <2>4. FrameInv(g)'
      BY <1>9, <1>11, <2>1, <2>2, <2>3, CondInv
    <2> QED
      BY <1>4, <2>1, <2>4, OneContinues DEF Keeps
  <1>13. CASE CondRecheck(t)
    <2>1. f.pc = "cond_recheck" /\ f.d # 0
      BY <1>1, <1>2, <1>13, CondRecheckEffect
    <2>2. PICK g : /\ Changed({g})
                   /\ Moved(g, f, "final_status") \/ Fresh(g, f.d, f.i, "condcas")
      BY <1>1, <1>2, <1>13, CondRecheckEffect
    <2>3. CASE Moved(g, f, "final_status")
      <3>1. /\ g.pc = "final_status" /\ g.ret = r /\ g.d = f.d /\ g.i = f.i
            /\ g.desired = f.desired
        BY <1>8, <2>3 DEF Moved
      <3>2. Addr(g) = Addr(f) /\ g.pc \in CondPCs
        BY <3>1 DEF Addr, CondPCs
      <3>3. f.desired.tag # "none"
        BY <1>5, <2>1 DEF FrameInv, PointerInv
      <3>4. FrameInv(g)'
        BY <1>9, <2>1, <3>1, <3>2, <3>3, CondInv
      <3> QED
        BY <1>4, <2>2, <3>4, OneContinues DEF Keeps
    <2>4. CASE Fresh(g, f.d, f.i, "condcas")
      <3>1. FrameInv(g)'
        BY <1>9, <2>1, <2>4, FreshInv
      <3> QED
        BY <1>4, <2>2, <3>1, OneContinues DEF Keeps
    <2> QED
      BY <2>2, <2>3, <2>4
  <1>14. CASE ReadCondStatus(t)
    <2>1. f.pc = "final_status"
      BY <1>1, <1>2, <1>14, ReadCondStatusEffect
    <2>2. PICK g : /\ Changed({g}) /\ g.pc = "install" /\ g.ret = r
                   /\ g.d = f.d /\ g.i = f.i /\ g.desired = f.desired /\ g.new = x
      BY <1>1, <1>2, <1>8, <1>10, <1>14, ReadCondStatusEffect
    <2>3. Addr(g) = Addr(f) /\ g.pc \in CondPCs
      BY <2>2 DEF Addr, CondPCs
    <2>4. f.d # 0 /\ f.desired.tag = "none" =>
            /\ r = CondPtr(f.d, f.i)
            /\ Undecided(f.d)' => mem'[Addr(f)] \in {r} \union Ptrs(f.d)
      BY <1>6, <1>8, <2>1 DEF FrameInv, CallInv
    <2>5. FrameInv(g)'
      BY <1>9, <1>11, <2>2, <2>3, <2>4, CondInv
    <2> QED
      BY <1>4, <2>2, <2>5, OneContinues DEF Keeps
  <1> QED
    BY <1>12, <1>13, <1>14

LEMMA InstallKeeps ==
  ASSUME OpInv, build' = build, NEW t \in Threads, InstallOverCond(t)
  PROVE  Keeps
  <1>1. TypeInv /\ MemInv /\ StatusInv /\ build \in {"pmem", "volatile"}
    BY DEF OpInv, TypeInv
  <1>2. PICK f : f = Top(t)
    OBVIOUS
  <1>3. PICK a, r, x : a = Addr(f) /\ r = f.ret /\ x = f.new
    OBVIOUS
  <1>4. UNCHANGED statusVars /\ status' = status /\ stack[t] # <<>>
    BY DEF InstallOverCond, At, statusVars
  <1>5. FrameOK(f) /\ FrameInv(f)
    BY <1>2, <1>4, Here
  <1>6. f.pc = "install" /\ CAS(a, r, x) /\ f.pc \in CondPCs
    BY <1>1, <1>2, <1>3, InstallEffect DEF CondPCs
  <1>7. /\ a \in Addresses /\ r.d \in Descs /\ r = CondPtr(r.d, r.i) /\ r.tag = "cond"
        /\ r.i \in DOMAIN words[r.d]
        /\ words[r.d][r.i].address = a /\ Active(r.d)
        /\ \/ x = Flag(MwCASPtr(r.d))
           \/ x = Old(r.d, r.i) /\ Decided(r.d)
    <2>1. a \in Addresses /\ r \in Words /\ r.tag = "cond"
      BY <1>3, <1>5, <1>6, FrameKinds
    <2> QED
      BY <1>3, <1>5, <1>6, <2>1, CondForm DEF FrameInv, PointerInv
  <1>8. \A d, i : (r = CondPtr(d, i) => d = r.d /\ i = r.i) /\ r \notin Ptrs(d)
    <2>1. r = CondPtr(r.d, r.i) /\ r.tag = "cond"
      BY <1>7
    <2>2. \A d, i : r = CondPtr(d, i) => d = r.d /\ i = r.i
      BY CondFields
    <2>3. \A d : r \notin Ptrs(d)
      BY <2>1, PtrForms
    <2> QED
      BY <2>2, <2>3
  <1>9. /\ Flag(MwCASPtr(r.d)) \in Ptrs(r.d) /\ Flag(MwCASPtr(r.d)).tag = "mwcas"
        /\ Flag(MwCASPtr(r.d)).d = r.d /\ Old(r.d, r.i).tag = "val"
        /\ build = "pmem" => IsDirty(Flag(MwCASPtr(r.d)))
    BY <1>7, FlaggedPtr, FlaggedValue
  <1>10. Evolves /\ MemInv'
    <2>1. CASE mem[a] = r
      <3>1. Store(a, x)
        BY <1>6, <2>1 DEF CAS
      <3>2. x.tag # "cond"
        BY <1>7, <1>9
      <3>3. x.tag = "mwcas" => Targets(x.d, a) /\ Active(x.d)
        BY <1>7, <1>9 DEF Targets
      <3>4. ASSUME NEW d \in Descs, build = "pmem", x = MwCASPtr(d)
            PROVE  FALSE
        <4>1. x.tag = "mwcas" /\ ~IsDirty(x)
          BY <3>4, Forms DEF IsDirty
        <4> QED
          BY <1>7, <1>9, <3>4, <4>1
      <3>5. \A d \in Descs : mem[a] \notin Ptrs(d)
        BY <1>8, <2>1
      <3>6. ASSUME NEW d \in Descs, NEW i, Undecided(d), mem[a] = CondPtr(d, i)
            PROVE  x \in Ptrs(d)
        <4>1. d = r.d /\ ~Decided(d)
          BY <1>1, <1>8, <2>1, <3>6, StatusCases
        <4> QED
          BY <1>7, <1>9, <4>1
      <3> QED
        BY <1>1, <1>4, <1>7, <3>1, <3>2, <3>3, <3>4, <3>5, <3>6, StoreKeeps
    <2>2. CASE mem[a] # r
      BY <1>1, <1>4, <1>6, <2>2, NothingKeeps DEF CAS
    <2> QED
      BY <2>1, <2>2
  <1>11. FrameInv(f)'
    BY <1>5, <1>10, FrameKept
  <1>12. /\ Active(r.d)'
         /\ f.desired.tag = "mwcas" => f.desired = Flag(MwCASPtr(r.d))'
         /\ f.d # 0 =>
              /\ Installing(f) /\ Active(f.d)'
              /\ Undecided(f.d)' => \A j \in 1 .. f.i - 1 : Installed(f.d, j)'
    BY <1>3, <1>5, <1>6, <1>11, CondCall
  (* The pointer is replaced as long as its operation is undecided. *)
  <1>13. mem[a] = r /\ Undecided(r.d)' => mem'[a] \in Ptrs(r.d)
    <2>1. SUFFICES ASSUME mem[a] = r, Undecided(r.d)' PROVE mem'[a] \in Ptrs(r.d)
      OBVIOUS
    <2>2. mem'[a] = x
      BY <1>1, <1>6, <1>7, <2>1 DEF CAS, Store, TypeInv, MemType
    <2>3. Undecided(r.d)
      BY <1>4, <2>1 DEF Undecided
    <2>4. ~Decided(r.d)
      BY <1>1, <1>7, <2>3, StatusCases
    <2> QED
      BY <1>7, <1>9, <2>2, <2>4
  <1>14. Flag(MwCASPtr(r.d))' = Flag(MwCASPtr(r.d))
    BY DEF Flag
  <1>15. CASE f.d # 0 /\ f.desired.tag = "none" /\ NextInstall(f, Old(f.d, f.i))
    <2>1. f.d \in Descs /\ a = words[f.d][f.i].address
      BY <1>3, <1>5, <1>15, FrameKinds
    <2>2. r = CondPtr(f.d, f.i) /\ (Undecided(f.d) => mem[a] \in {r} \union Ptrs(f.d))
      BY <1>3, <1>5, <1>6, <1>15 DEF FrameInv, CallInv
    <2>3. r.d = f.d
      BY <2>2, Forms
    <2>4. Undecided(f.d)' => mem'[a] \in Ptrs(f.d)
      <3>1. SUFFICES ASSUME Undecided(f.d)' PROVE mem'[a] \in Ptrs(f.d)
        OBVIOUS
      <3>2. Undecided(f.d)
        BY <1>4, <3>1 DEF Undecided
      <3>3. CASE mem[a] = r
        BY <1>13, <2>3, <3>1, <3>3
      <3>4. CASE mem[a] # r
        <4>1. mem' = mem
          BY <1>6, <3>4 DEF CAS, memVars
        <4> QED
          BY <2>2, <3>2, <3>4, <4>1
      <3> QED
        BY <3>3, <3>4
    <2>5. Undecided(f.d)' => Installed(f.d, f.i)'
      BY <2>1, <2>4 DEF Installed
    <2>6. NextOf(f, "condcas", AfterInstall)
      BY <1>15 DEF NextInstall
    <2>7. Continues
      BY <1>1, <1>5, <1>11, <1>12, <1>15, <2>5, <2>6, NextInstallContinues
    <2> QED
      BY <1>10, <2>7 DEF Keeps
  <1>16. CASE /\ f.d # 0 /\ f.desired.tag = "mwcas" /\ mem[a] = r
              /\ \/ NextInstall(f, f.desired) \/ PersistOther(f, f.desired)
                 \/ HelpOther(f, f.desired) \/ GiveUp(f, f.desired)
    <2>1. f.d \in Descs /\ a = words[f.d][f.i].address /\ f.i \in DOMAIN words[f.d]
      BY <1>3, <1>5, <1>16, FrameKinds
    <2>2. PICK y : y = f.desired
      OBVIOUS
    <2>3. y.tag = "mwcas" /\ y.d = r.d /\ y \in Ptrs(r.d)
      BY <1>9, <1>12, <1>14, <1>16, <2>2
    <2>4. CASE NextInstall(f, y)
      <3>1. y # Old(f.d, f.i)
        BY <2>3, Forms DEF Old
      <3>2. y \in Ptrs(f.d) /\ NextOf(f, "condcas", AfterInstall)
        BY <2>4, <3>1 DEF NextInstall
      <3>3. r.d = f.d
        BY <2>3, <3>2, PtrForms
      <3>4. Undecided(f.d)' => Installed(f.d, f.i)'
        BY <1>13, <1>16, <2>1, <3>3 DEF Installed
      <3>5. Continues
        BY <1>1, <1>5, <1>11, <1>12, <1>16, <3>2, <3>4, NextInstallContinues
      <3> QED
        BY <1>10, <3>5 DEF Keeps
    <2>5. CASE PersistOther(f, y)
      <3>1. Targets(y.d, a)
        BY <1>7, <2>3 DEF Targets
      <3>2. Continues
        BY <1>3, <1>5, <1>11, <1>12, <1>13, <1>16, <2>3, <2>5, <3>1, PersistOtherContinues
      <3> QED
        BY <1>10, <3>2 DEF Keeps
    <2>6. CASE HelpOther(f, y)
      <3>1. PICK g, h : /\ Changed({g, h})
                        /\ Fresh(g, f.d, f.i, IF f.d = 0 THEN "load" ELSE "condcas")
                        /\ Fresh(h, y.d, 1, "status")
        BY <2>6 DEF HelpOther
      <3>2. y.d # 0 /\ Active(y.d)'
        BY <1>7, <1>12, <2>3 DEF Descs
      <3>3. Continues
        BY <1>5, <1>11, <1>12, <1>16, <3>1, <3>2, HelpOtherContinues
      <3> QED
        BY <1>10, <3>3 DEF Keeps
    <2>7. CASE GiveUp(f, y)
      BY <1>10, <1>11, <1>16, <2>7, GiveUpContinues DEF Keeps
    <2> QED
      BY <1>16, <2>2, <2>4, <2>5, <2>6, <2>7
  <1>17. CASE \E g : /\ Changed({g})
                     /\ Fresh(g, f.d, f.i, IF f.d = 0 THEN "load" ELSE "condcas")
    <2>1. PICK g : /\ Changed({g})
                   /\ Fresh(g, f.d, f.i, IF f.d = 0 THEN "load" ELSE "condcas")
      BY <1>17
    <2>2. FrameInv(g)'
      <3>1. CASE f.d = 0
        BY <2>1, <3>1, FreshInv
      <3>2. CASE f.d # 0
        BY <1>12, <2>1, <3>2, FreshInv
      <3> QED
        BY <3>1, <3>2
    <2> QED
      BY <1>10, <2>1, <2>2, OneContinues DEF Keeps
  <1>18. \/ f.d # 0 /\ f.desired.tag = "none" /\ NextInstall(f, Old(f.d, f.i))
         \/ /\ f.d # 0 /\ f.desired.tag = "mwcas" /\ mem[a] = r
            /\ \/ NextInstall(f, f.desired) \/ PersistOther(f, f.desired)
               \/ HelpOther(f, f.desired) \/ GiveUp(f, f.desired)
         \/ \E g : /\ Changed({g})
                   /\ Fresh(g, f.d, f.i, IF f.d = 0 THEN "load" ELSE "condcas")
    BY <1>1, <1>2, <1>3, InstallEffect
  <1> QED
    BY <1>15, <1>16, <1>17, <1>18

(* The loop before the decision goes on once the pointer is in NVRAM. *)
LEMMA NextCommitContinues ==
  ASSUME NEW f, FrameOK(f), f.d # 0, FrameInv(f)', Committing(f),
         Undecided(f.d)' => Persisted(f.d, f.i)', NextOf(f, "precommit", "decide")
  PROVE  Continues
  <1>1. f.d \in Descs /\ f.i \in DOMAIN words[f.d]
    BY FrameKinds
  <1>2. DOMAIN words[f.d] = 1 .. Len(words[f.d]) /\ Len(words[f.d]) \in Nat
    BY <1>1, WordsFacts
  <1>3. /\ Active(f.d)'
        /\ Undecided(f.d)' => /\ \A j \in DOMAIN words[f.d] : Installed(f.d, j)'
                              /\ \A j \in 1 .. f.i - 1 : Persisted(f.d, j)'
    BY DEF FrameInv, CallInv, Committing
  <1>4. Undecided(f.d)' => \A j \in 1 .. f.i : Persisted(f.d, j)'
    BY <1>1, <1>2, <1>3
  <1>5. PICK g : /\ Changed({g})
                 /\ \/ f.i + 1 \in DOMAIN words[f.d] /\ Fresh(g, f.d, f.i + 1, "precommit")
                    \/ f.i = Len(words[f.d]) /\ Fresh(g, f.d, 1, "decide")
    BY DEF NextOf
  <1>6. CASE Fresh(g, f.d, f.i + 1, "precommit")
    <2>1. 1 .. (f.i + 1) - 1 = 1 .. f.i
      BY <1>1, <1>2
    <2>2. FrameInv(g)'
      BY <1>3, <1>4, <1>6, <2>1, FreshInv
    <2> QED
      BY <1>5, <2>2, OneContinues
  <1>7. CASE f.i = Len(words[f.d]) /\ Fresh(g, f.d, 1, "decide")
    <2>1. Undecided(f.d)' =>
            \A j \in DOMAIN words[f.d] : Installed(f.d, j)' /\ Persisted(f.d, j)'
      BY <1>2, <1>3, <1>4, <1>7
    <2>2. FrameInv(g)'
      BY <1>3, <1>7, <2>1, FreshInv
    <2> QED
      BY <1>5, <2>2, OneContinues
  <1> QED
    BY <1>5, <1>6, <1>7

(* The last loop goes on: the operation is decided. *)
LEMMA NextSwapContinues ==
  ASSUME NEW f, FrameOK(f), f.d # 0, FrameInv(f)', Finishing(f),
         NextOf(f, "swap", "return")
  PROVE  Continues
  <1>1. Active(f.d)' /\ Decided(f.d)'
    BY DEF FrameInv, CallInv, Finishing
  <1>2. PICK g : /\ Changed({g})
                 /\ \/ Fresh(g, f.d, f.i + 1, "swap")
                    \/ Fresh(g, f.d, 1, "return")
    BY DEF NextOf
  <1>3. FrameInv(g)'
    BY <1>1, <1>2, FreshInv
  <1> QED
    BY <1>2, <1>3, OneContinues

LEMMA PrecommitKeeps ==
  ASSUME OpInv, build' = build, NEW t \in Threads, Precommit(t)
  PROVE  Keeps
  <1>1. TypeInv /\ MemInv /\ StatusInv
    BY DEF OpInv
  <1>2. PICK f, a : f = Top(t) /\ a = Addr(f)
    OBVIOUS
  <1>3. /\ UNCHANGED memVars /\ status' = status /\ mem' = mem /\ nvram' = nvram
        /\ stack[t] # <<>>
    BY DEF Precommit, At, statusVars, memVars
  <1>4. Evolves /\ MemInv'
    BY <1>1, <1>3, NothingKeeps
  <1>5. FrameOK(f) /\ FrameInv(f) /\ FrameInv(f)'
    BY <1>2, <1>3, <1>4, Here, FrameKept
  <1>6. f.pc = "precommit" /\ f.d \in Descs /\ f.d # 0
    BY <1>1, <1>2, PrecommitEffect
  <1>7. f.i \in DOMAIN words[f.d] /\ a = words[f.d][f.i].address /\ a \in Addresses
    BY <1>2, <1>5, <1>6, FrameKinds
  <1>8. Committing(f) /\ f.desired = NoWord
    BY <1>5, <1>6 DEF Committing, FrameInv, PointerInv
  <1>9. /\ Active(f.d)'
        /\ Undecided(f.d)' => /\ \A j \in DOMAIN words[f.d] : Installed(f.d, j)'
                              /\ \A j \in 1 .. f.i - 1 : Persisted(f.d, j)'
    BY <1>5, <1>6, <1>8 DEF FrameInv, CallInv, Committing
  <1>10. CASE /\ mem[a] = Dirty(MwCASPtr(f.d))
              /\ \E g : /\ Changed({g}) /\ g.pc = "persist"
                        /\ g.ret = Dirty(MwCASPtr(f.d)) /\ g.d = f.d /\ g.i = f.i
                        /\ g.desired = f.desired
    <2>1. PICK g : /\ Changed({g}) /\ g.pc = "persist"
                   /\ g.ret = Dirty(MwCASPtr(f.d)) /\ g.d = f.d /\ g.i = f.i
                   /\ g.desired = f.desired
      BY <1>10
    <2>2. Addr(g) = a /\ g.ret.tag = "mwcas" /\ g.ret.d = f.d /\ g.ret \in Ptrs(f.d)
      BY <1>2, <2>1, Forms DEF Addr, Ptrs
    <2>3. ~Installing(g) /\ ~Finishing(g)
      BY <2>1, <2>2 DEF Installing, Finishing, CondPCs
    <2>4. Targets(f.d, a)
      BY <1>7 DEF Targets
    <2>5. mem'[a] \in Ptrs(f.d)
      BY <1>3, <1>10, <2>1, <2>2
    <2>6. FrameInv(g)'
      BY <1>8, <1>9, <2>1, <2>2, <2>3, <2>4, <2>5, DirtyInv
    <2> QED
      BY <1>4, <2>1, <2>6, OneContinues DEF Keeps
  <1>11. CASE mem[a] # Dirty(MwCASPtr(f.d)) /\ NextOf(f, "precommit", "decide")
    <2>1. Undecided(f.d)' => Persisted(f.d, f.i)'
      <3>1. SUFFICES ASSUME Undecided(f.d)', build' = "pmem"
                     PROVE  nvram'[a] \subseteq Ptrs(f.d)
        BY <1>7 DEF Persisted
      <3>2. mem'[a] \in Ptrs(f.d)
        BY <1>7, <1>9, <3>1 DEF Installed
      <3>3. mem'[a] = MwCASPtr(f.d)
        BY <1>3, <1>11, <3>2 DEF Ptrs
      <3> QED
        BY <1>4, <1>6, <1>7, <3>1, <3>3 DEF MemInv
    <2>2. Continues
      BY <1>5, <1>6, <1>8, <1>11, <2>1, NextCommitContinues
    <2> QED
      BY <1>4, <2>2 DEF Keeps
  <1> QED
    BY <1>1, <1>2, <1>10, <1>11, PrecommitEffect

LEMMA DecideKeeps ==
  ASSUME OpInv, build' = build, NEW t \in Threads, Decide(t)
  PROVE  Keeps
  <1>1. TypeInv /\ MemInv /\ StatusInv
    BY DEF OpInv
  <1>2. PICK f : f = Top(t)
    OBVIOUS
  <1>3. UNCHANGED memVars /\ stack[t] # <<>>
    BY DEF Decide, At
  <1>4. f.d \in Descs /\ f.d # 0 /\ f.my_status \in {"Succeeded", "Failed"}
    BY <1>1, <1>2, DecideEffect
  <1>5. FrameOK(f) /\ FrameInv(f)
    BY <1>2, <1>3, Here
  <1>6. Active(f.d)
    BY <1>4, <1>5 DEF FrameInv, CallInv
  <1>7. Evolves /\ MemInv' /\ Decided(f.d)'
    <2>1. CASE Undecided(f.d)
      <3>1. PICK st : st = Flag(Status(f.my_status))
        OBVIOUS
      <3>2. status' = [status EXCEPT ![f.d] = st]
        BY <1>2, <2>1, <3>1 DEF Decide, StoreStatus, Undecided
      <3>3. st.s \in {"Succeeded", "Failed"}
        BY <1>4, <3>1, DecidedStatus DEF States
      <3>4. st # Status("Undecided")
        BY <3>3, StatusForms
      <3>5. Evolves /\ MemInv'
        BY <1>1, <1>3, <1>4, <3>2, <3>3, <3>4, StatusKeeps
      <3>6. Decided(f.d)'
        BY <1>1, <1>4, <3>2, <3>3 DEF Decided, TypeInv, StatusType
      <3> QED
        BY <3>5, <3>6
    <2>2. CASE ~Undecided(f.d)
      <3>1. status' = status
        BY <1>2, <2>2 DEF Decide, Undecided, statusVars
      <3>2. Decided(f.d)'
        BY <1>1, <1>4, <1>6, <2>2, <3>1, StatusCases DEF Decided
      <3> QED
        BY <1>1, <1>3, <3>1, <3>2, NothingKeeps
    <2> QED
      BY <2>1, <2>2
  <1>8. PICK g : Changed({g}) /\ Fresh(g, f.d, 1, AfterDecision)
    BY <1>1, <1>2, DecideEffect
  <1>9. AfterDecision \in {"persist_status", "swap"}
    BY DEF AfterDecision
  <1>10. PICK p : p = AfterDecision
    OBVIOUS
  <1>11. Active(f.d)'
    BY <1>4, <1>6, <1>7 DEF Evolves
  <1>12. FrameInv(g)'
    BY <1>7, <1>8, <1>9, <1>10, <1>11, FreshInv
  <1> QED
    BY <1>7, <1>8, <1>12, OneContinues DEF Keeps

LEMMA SwapKeeps ==
  ASSUME OpInv, build' = build, NEW t \in Threads, Swap(t)
  PROVE  Keeps
  <1>1. TypeInv /\ MemInv /\ StatusInv
    BY DEF OpInv
  <1>2. PICK f, a : f = Top(t) /\ a = Addr(f)
    OBVIOUS
  <1>3. PICK val : val = Flag(Final(f.d, f.i))
    OBVIOUS
  <1>4. UNCHANGED statusVars /\ status' = status /\ stack[t] # <<>>
    BY DEF Swap, At, statusVars
  <1>5. FrameOK(f) /\ FrameInv(f)
    BY <1>2, <1>4, Here
  <1>6. /\ f.pc \in {"swap", "swap_clean"} /\ f.d \in Descs /\ f.d # 0 /\ val.tag = "val"
        /\ CAS(a, IF f.pc = "swap" THEN Flag(MwCASPtr(f.d)) ELSE MwCASPtr(f.d), val)
    BY <1>1, <1>2, <1>3, SwapEffect
  <1>7. f.i \in DOMAIN words[f.d] /\ a = words[f.d][f.i].address /\ a \in Addresses
    BY <1>2, <1>5, <1>6, FrameKinds
  <1>8. Finishing(f) /\ f.pc \notin CondPCs \union DirtyPCs /\ f.desired = NoWord
    BY <1>5, <1>6 DEF Finishing, CondPCs, DirtyPCs, FrameInv, PointerInv
  <1>9. Decided(f.d)
    BY <1>5, <1>6, <1>8 DEF FrameInv, CallInv
  <1>10. Evolves /\ MemInv'
    <2>1. CASE UNCHANGED memVars
      BY <1>1, <1>4, <2>1, NothingKeeps
    <2>2. CASE Store(a, val) /\ mem[a] \in Ptrs(f.d)
      <3>1. mem[a].tag = "mwcas" /\ mem[a].d = f.d
        BY <2>2, PtrForms
      <3>2. \A d, i : mem[a] # CondPtr(d, i)
        BY <3>1, Forms
      <3>3. \A d \in Descs : mem[a] \in Ptrs(d) => ~Undecided(d)
        BY <1>1, <1>6, <1>9, <3>1, PtrForms, StatusCases
      <3>4. \A d : val # MwCASPtr(d)
        BY <1>6, Forms
      <3>5. val.tag # "cond" /\ val.tag # "mwcas"
        BY <1>6
      <3>6. \A d \in Descs : build = "pmem" /\ Undecided(d) /\ val = MwCASPtr(d) =>
              nvram[a] \subseteq Ptrs(d)
        BY <3>4
      <3>7. \A d \in Descs : Undecided(d) /\ mem[a] \in Ptrs(d) => val \in Ptrs(d)
        BY <3>3
      <3>8. \A d \in Descs : \A i : Undecided(d) /\ mem[a] = CondPtr(d, i) =>
              val \in {CondPtr(d, i)} \union Ptrs(d)
        BY <3>2
      <3> QED
        BY <1>1, <1>4, <1>7, <2>2, <3>5, <3>6, <3>7, <3>8, StoreKeeps
    <2>3. Flag(MwCASPtr(f.d)) \in Ptrs(f.d) /\ MwCASPtr(f.d) \in Ptrs(f.d)
      BY <1>6, FlaggedPtr DEF Ptrs
    <2> QED
      BY <1>6, <2>1, <2>2, <2>3 DEF CAS
  <1>11. FrameInv(f)'
    BY <1>5, <1>10, FrameKept
  <1>12. Active(f.d)' /\ Decided(f.d)'
    BY <1>6, <1>8, <1>11 DEF FrameInv, CallInv, Finishing
  <1>13. CASE NextOf(f, "swap", "return")
    BY <1>5, <1>6, <1>8, <1>10, <1>11, <1>13, NextSwapContinues DEF Keeps
  <1>14. CASE \E g : Changed({g}) /\ Moved(g, f, "swap_clean")
    <2>1. PICK g : Changed({g}) /\ Moved(g, f, "swap_clean")
      BY <1>14
    <2>2. FrameInv(g)'
      BY <1>6, <1>8, <1>11, <1>12, <2>1, MovedCall
    <2> QED
      BY <1>10, <2>1, <2>2, OneContinues DEF Keeps
  <1>15. CASE Meets(f, val, "persist")
    <2>1. PICK g : /\ Changed({g}) /\ g.pc = "persist" /\ g.ret = val
                   /\ g.d = f.d /\ g.i = f.i /\ g.desired = f.desired
      BY <1>15 DEF Meets
    <2>2. ~Installing(g) /\ ~Committing(g)
      BY <1>6, <2>1 DEF Installing, Committing, CondPCs
    <2>3. FrameInv(g)'
      BY <1>6, <1>8, <1>12, <2>1, <2>2, DirtyInv
    <2> QED
      BY <1>10, <2>1, <2>3, OneContinues DEF Keeps
  <1>16. \/ NextOf(f, "swap", "return")
         \/ \E g : Changed({g}) /\ Moved(g, f, "swap_clean")
         \/ Meets(f, val, "persist")
    BY <1>1, <1>2, <1>3, SwapEffect
  <1> QED
    BY <1>13, <1>14, <1>15, <1>16

LEMMA LoadKeeps ==
  ASSUME OpInv, build' = build, NEW t \in Threads, Load(t)
  PROVE  Keeps
  <1>1. TypeInv /\ MemInv /\ StatusInv
    BY DEF OpInv
  <1>2. PICK f : f = Top(t)
    OBVIOUS
  <1>3. PICK val : val = mem[f.i]
    OBVIOUS
  <1>4. UNCHANGED memVars /\ status' = status /\ mem' = mem /\ stack[t] # <<>>
    BY DEF Load, At, statusVars, memVars
  <1>5. Evolves /\ MemInv'
    BY <1>1, <1>4, NothingKeeps
  <1>6. FrameOK(f) /\ FrameInv(f) /\ FrameInv(f)'
    BY <1>2, <1>4, <1>5, Here, FrameKept
  <1>7. f.pc = "load" /\ f.d = 0 /\ f.i \in Addresses /\ val \in Words /\ val = mem'[f.i]
    BY <1>1, <1>2, <1>3, <1>4, LoadEffect
  <1>8. f.desired = NoWord
    BY <1>6, <1>7 DEF FrameInv, PointerInv
  <1>9. val.tag = "mwcas" =>
          /\ val.d \in Descs /\ val \in Ptrs(val.d)
          /\ Targets(val.d, f.i) /\ Active(val.d)'
    <2>1. val.tag = "mwcas" =>
            val.d \in Descs /\ val \in Ptrs(val.d) /\ Targets(val.d, f.i) /\ Active(val.d)
      BY <1>1, <1>3, <1>7, MwCASForm DEF MemInv
    <2> QED
      BY <1>5, <2>1 DEF Evolves
  <1>10. CASE Finds(f, val)
    <2>1. PICK g : /\ Changed({g}) /\ g.d = 0 /\ g.i = f.i
                   /\ g.pc = (IF val.tag = "cond" THEN "final_status" ELSE "persist")
                   /\ g.ret = val /\ g.desired = f.desired
      BY <1>10 DEF Finds
    <2>2. Addr(g) = f.i
      BY <2>1 DEF Addr
    <2>3. CASE val.tag = "cond"
      <3>1. words[val.d][val.i].address = f.i /\ Active(val.d) /\ val.d \in Descs
        BY <1>1, <1>3, <1>7, <2>3, CondForm DEF MemInv
      <3>2. Active(val.d)'
        BY <1>5, <3>1 DEF Evolves
      <3>3. g.pc \in CondPCs /\ g.desired.tag = "none" /\ g.pc = "final_status"
        BY <1>8, <2>1, <2>3, Forms DEF CondPCs
      <3>4. FrameInv(g)'
        BY <1>8, <2>1, <2>2, <3>1, <3>2, <3>3, CondInv
      <3> QED
        BY <1>5, <2>1, <3>4, OneContinues DEF Keeps
    <2>4. CASE val.tag # "cond"
      <3>1. g.pc = "persist"
        BY <2>1, <2>4
      <3>2. FrameInv(g)'
        BY <1>7, <1>8, <1>9, <2>1, <2>2, <3>1, DirtyInv
      <3> QED
        BY <1>5, <2>1, <3>2, OneContinues DEF Keeps
    <2> QED
      BY <2>3, <2>4
  <1>11. CASE /\ val = MwCASPtr(val.d)
              /\ \E h : Changed({f, h}) /\ Fresh(h, val.d, 1, "status")
    <2>1. PICK h : Changed({f, h}) /\ Fresh(h, val.d, 1, "status")
      BY <1>11
    <2>2. val.tag = "mwcas"
      BY <1>11, Forms
    <2>3. FrameInv(h)'
      BY <1>9, <2>1, <2>2, FreshInv
    <2> QED
      BY <1>5, <1>6, <2>1, <2>3, TwoContinue DEF Keeps
  <1>12. CASE Changed({})
    BY <1>5, <1>12, NothingContinues DEF Keeps
  <1> QED
    BY <1>1, <1>2, <1>3, <1>10, <1>11, <1>12, LoadEffect

LEMMA FlushWordKeeps ==
  ASSUME OpInv, build' = build, NEW t \in Threads, FlushWord(t)
  PROVE  Keeps
  <1>1. TypeInv /\ MemInv /\ StatusInv
    BY DEF OpInv
  <1>2. PICK f, a : f = Top(t) /\ a = Addr(f)
    OBVIOUS
  <1>3. PersistAddress(a) /\ UNCHANGED statusVars /\ status' = status /\ stack[t] # <<>>
    BY <1>2 DEF FlushWord, At, statusVars
  <1>4. FrameOK(f) /\ FrameInv(f) /\ a \in Addresses
    BY <1>2, <1>3, Here, FrameKinds
  <1>5. Evolves /\ MemInv'
    BY <1>1, <1>3, <1>4, FlushKeeps
  <1>6. FrameInv(f)'
    BY <1>4, <1>5, FrameKept
  <1>7. f.pc = "persist" /\ f.pc \in DirtyPCs
    BY <1>1, <1>2, FlushWordEffect DEF DirtyPCs
  <1>8. PICK g : Changed({g}) /\ Moved(g, f, "clean")
    BY <1>1, <1>2, FlushWordEffect
  <1>9. /\ g.d = f.d /\ g.i = f.i /\ g.pc = "clean" /\ g.ret = f.ret
        /\ g.desired = f.desired /\ Addr(g) = a
    BY <1>2, <1>8 DEF Moved, Addr
  <1>10. g.pc \in DirtyPCs /\ g.pc \notin CondPCs
    BY <1>9 DEF DirtyPCs, CondPCs
  <1>11. f.desired = NoWord
    BY <1>6, <1>7 DEF FrameInv, PointerInv
  <1>12. g.ret.tag = "mwcas" =>
           /\ Targets(g.ret.d, a) /\ Active(g.ret.d)'
           /\ Undecided(g.ret.d)' => mem'[a] \in Ptrs(g.ret.d)
           /\ Undecided(g.ret.d)' => nvram'[a] \subseteq Ptrs(g.ret.d)
    <2>1. mem' = mem /\ nvram'[a] = {mem[a]}
      BY <1>1, <1>3, <1>4 DEF PersistAddress, TypeInv, MemType
    <2>2. g.ret.tag = "mwcas" =>
            /\ Targets(g.ret.d, a) /\ Active(g.ret.d)'
            /\ Undecided(g.ret.d)' => mem'[a] \in Ptrs(g.ret.d)
      BY <1>2, <1>6, <1>7, <1>9 DEF FrameInv, PointerInv
    <2> QED
      BY <2>1, <2>2
  <1>13. PointerInv(g)'
    BY <1>9, <1>10, <1>11, <1>12 DEF PointerInv, CondPCs
  <1>14. g.d # 0 => CallInv(g)'
    <2>1. ~Starting(g)' /\ g.pc # "decide" /\ g.pc \notin {"final_status", "install"}
      BY <1>9 DEF Starting
    <2>2. Installing(g)' => Installing(f)'
      BY <1>7, <1>9, <1>10 DEF Installing
    <2>3. Committing(g)' => Committing(f)'
      BY <1>7, <1>9 DEF Committing
    <2>4. Finishing(g)' => Finishing(f)'
      BY <1>7, <1>9 DEF Finishing
    <2> QED
      BY <1>6, <1>9, <2>1, <2>2, <2>3, <2>4 DEF FrameInv, CallInv
  <1>15. FrameInv(g)'
    BY <1>13, <1>14 DEF FrameInv
  <1> QED
    BY <1>5, <1>8, <1>15, OneContinues DEF Keeps

LEMMA CleanWordKeeps ==
  ASSUME OpInv, build' = build, NEW t \in Threads, CleanWord(t)
  PROVE  Keeps
  <1>1. TypeInv /\ MemInv /\ StatusInv
    BY DEF OpInv
  <1>2. PICK f, a : f = Top(t) /\ a = Addr(f)
    OBVIOUS
  <1>3. PICK r, x : r = f.ret /\ x = Clean(r)
    OBVIOUS
  <1>4. UNCHANGED statusVars /\ status' = status /\ stack[t] # <<>>
    BY DEF CleanWord, At, statusVars
  <1>5. FrameOK(f) /\ FrameInv(f) /\ a \in Addresses
    BY <1>2, <1>4, Here, FrameKinds
  <1>6. f.pc = "clean" /\ CAS(a, r, x) /\ f.pc \in DirtyPCs
    BY <1>1, <1>2, <1>3, CleanWordEffect DEF DirtyPCs
  <1>7. r \in Words /\ IsDirty(r) /\ r.tag \in {"val", "mwcas"}
    BY <1>3, <1>5, <1>6, FrameKinds
  <1>8. /\ x.tag = r.tag
        /\ r.tag = "mwcas" =>
             r.d \in Descs /\ x = MwCASPtr(r.d) /\ x.d = r.d /\ r \in Ptrs(r.d) /\ x \in Ptrs(r.d)
    BY <1>3, <1>7, DirtyForm, MwCASForm, Forms DEF Ptrs
  <1>9. r.tag = "mwcas" =>
          /\ Targets(r.d, a) /\ Active(r.d)
          /\ build = "pmem" /\ Undecided(r.d) => nvram[a] \subseteq Ptrs(r.d)
    BY <1>2, <1>3, <1>5, <1>6 DEF FrameInv, PointerInv
  <1>10. Evolves /\ MemInv'
    <2>1. CASE mem[a] # r
      BY <1>1, <1>4, <1>6, <2>1, NothingKeeps DEF CAS
    <2>2. CASE mem[a] = r
      <3>1. Store(a, x)
        BY <1>6, <2>2 DEF CAS
      <3>2. \A d \in Descs : x = MwCASPtr(d) => r.tag = "mwcas" /\ d = r.d
        BY <1>8, Forms
      <3>3. \A d \in Descs : mem[a] \in Ptrs(d) => r.tag = "mwcas" /\ d = r.d
        BY <2>2, PtrForms
      <3>4. \A d, i : mem[a] # CondPtr(d, i)
        BY <1>7, <2>2, Forms
      <3>5. x.tag # "cond" /\ (x.tag = "mwcas" => Targets(x.d, a) /\ Active(x.d))
        BY <1>7, <1>8, <1>9
      <3>6. \A d \in Descs : build = "pmem" /\ Undecided(d) /\ x = MwCASPtr(d) =>
              nvram[a] \subseteq Ptrs(d)
        BY <1>9, <3>2
      <3>7. \A d \in Descs : Undecided(d) /\ mem[a] \in Ptrs(d) => x \in Ptrs(d)
        BY <1>8, <3>3
      <3> QED
        BY <1>1, <1>4, <1>5, <3>1, <3>4, <3>5, <3>6, <3>7, StoreKeeps
    <2> QED
      BY <2>1, <2>2
  <1>11. FrameInv(f)'
    BY <1>5, <1>10, FrameKept
  <1>12. r.tag = "mwcas" => Active(r.d)'
    BY <1>8, <1>9, <1>10 DEF Evolves
  <1>13. CASE /\ r.tag = "mwcas" /\ r.d # f.d
              /\ \E g, h : /\ Changed({g, h})
                           /\ Fresh(g, f.d, f.i, IF f.d = 0 THEN "load" ELSE "condcas")
                           /\ Fresh(h, r.d, 1, "status")
    <2>1. PICK g, h : /\ Changed({g, h})
                      /\ Fresh(g, f.d, f.i, IF f.d = 0 THEN "load" ELSE "condcas")
                      /\ Fresh(h, r.d, 1, "status")
      BY <1>13
    <2>2. r.d # 0 /\ Active(r.d)'
      BY <1>8, <1>12, <1>13 DEF Descs
    <2>3. CASE f.d = 0
      <3>1. FrameInv(g)'
        BY <2>1, <2>3, FreshInv
      <3>2. FrameInv(h)'
        BY <2>1, <2>2, FreshInv
      <3> QED
        BY <1>10, <2>1, <3>1, <3>2, TwoContinue DEF Keeps
    <2>4. CASE f.d # 0
      <3>1. Installing(f)
        BY <1>3, <1>6, <1>13 DEF Installing
      <3> QED
        BY <1>5, <1>10, <1>11, <2>1, <2>2, <2>4, <3>1, HelpOtherContinues DEF Keeps
    <2> QED
      BY <2>3, <2>4
  <1>14. CASE r.tag = "mwcas" /\ r.d = f.d /\ f.d # 0 /\ NextOf(f, "precommit", "decide")
    <2>1. Committing(f)
      BY <1>3, <1>6, <1>14 DEF Committing
    <2>2. a = words[f.d][f.i].address
      BY <1>2, <1>5, <1>14, FrameKinds
    <2>3. build' = "pmem" /\ Undecided(f.d)' => nvram'[a] \subseteq Ptrs(f.d)
      BY <1>2, <1>3, <1>6, <1>11, <1>14 DEF FrameInv, PointerInv
    <2>4. Undecided(f.d)' => Persisted(f.d, f.i)'
      BY <2>2, <2>3 DEF Persisted
    <2> QED
      BY <1>5, <1>10, <1>11, <1>14, <2>1, <2>4, NextCommitContinues DEF Keeps
  <1>15. CASE r.tag = "val" /\ f.d # 0 /\ NextOf(f, "swap", "return")
    <2>1. Finishing(f)
      BY <1>3, <1>6, <1>15 DEF Finishing
    <2> QED
      BY <1>5, <1>10, <1>11, <1>15, <2>1, NextSwapContinues DEF Keeps
  <1>16. CASE Changed({})
    BY <1>10, <1>16, NothingContinues DEF Keeps
  <1> QED
    BY <1>1, <1>2, <1>3, <1>13, <1>14, <1>15, <1>16, CleanWordEffect

LEMMA BeginMwCASKeeps ==
  ASSUME OpInv, build' = build, NEW t \in Threads, BeginMwCAS(t)
  PROVE  Keeps
  <1>1. TypeInv /\ MemInv /\ StatusInv
    BY DEF OpInv
  <1>2. PICK d : d = Script[t][next[t]].d
    OBVIOUS
  <1>3. PICK p : p = IF build = "pmem" THEN "flush" ELSE "status"
    OBVIOUS
  <1>4. d \in Descs /\ next[t] \in DOMAIN Script[t] /\ Script[t][next[t]].op = "mwcas"
    BY <1>1, <1>2, BeginMwCASEffect
  <1>5. PICK g : Changed({g}) /\ Fresh(g, d, 1, p)
    BY <1>1, <1>2, <1>3, BeginMwCASEffect
  <1>6. status[d] = Status("Finished")
    <2>1. next[t] \in Nat
      BY <1>1 DEF TypeInv
    <2> QED
      BY <1>1, <1>2, <1>4, <2>1 DEF StatusInv
  <1>7. UNCHANGED memVars /\ status' = [status EXCEPT ![d] = Status("Undecided")]
    BY <1>2 DEF BeginMwCAS, StoreStatus
  <1>8. ~Active(d) /\ ~Decided(d)
    BY <1>6, StatusForms DEF Active, Decided
  <1>9. Evolves /\ MemInv'
    BY <1>1, <1>4, <1>7, <1>8, StatusKeeps
  <1>10. Active(d)'
    BY <1>1, <1>4, <1>7, StatusForms DEF Active, TypeInv, StatusType
  <1>11. FrameInv(g)'
    BY <1>3, <1>5, <1>10, FreshInv
  <1> QED
    BY <1>5, <1>9, <1>11, OneContinues DEF Keeps

LEMMA BeginReadKeeps ==
  ASSUME OpInv, build' = build, NEW t \in Threads, BeginRead(t)
  PROVE  Keeps
  <1>1. TypeInv /\ MemInv
    BY DEF OpInv
  <1>2. UNCHANGED memVars /\ status' = status
    BY DEF BeginRead, statusVars
  <1>3. PICK g : Changed({g}) /\ Fresh(g, 0, g.i, "load")
    BY <1>1, BeginReadEffect
  <1>4. FrameInv(g)'
    BY <1>3, FreshInv
  <1> QED
    BY <1>1, <1>2, <1>3, <1>4, NothingKeeps, OneContinues DEF Keeps

LEMMA ReturnKeeps ==
  ASSUME OpInv, build' = build, NEW t \in Threads,
         ReturnOwner(t) \/ ReturnHelper(t) \/ ReturnWithFailure(t)
  PROVE  Keeps
  <1>1. TypeInv /\ MemInv
    BY DEF OpInv
  <1>2. UNCHANGED memVars /\ status' = status
    BY DEF ReturnOwner, ReturnHelper, ReturnWithFailure, statusVars
  <1>3. Changed({})
    BY <1>1, ReturnEffect
  <1> QED
    BY <1>1, <1>2, <1>3, NothingKeeps, NothingContinues DEF Keeps

LEMMA StepKeeps ==
  ASSUME OpInv, NEW t \in Threads, Step(t)
  PROVE  Keeps
  <1>1. build' = build
    BY DEF Step, BeginMwCAS, BeginRead, Begin
  <1> QED
    BY <1>1, StartingKeeps, CleanStatusKeeps, CondCASKeeps, CondStatusKeeps, InstallKeeps,
       PrecommitKeeps, DecideKeeps, SwapKeeps, LoadKeeps, FlushWordKeeps, CleanWordKeeps,
       BeginMwCASKeeps, BeginReadKeeps, ReturnKeeps DEF Step, Continue

-----------------------------------------------------------------------------

(* Statuses and the history *)

LEMMA ScriptedDescs ==
  ASSUME NEW u \in Threads, NEW k \in DOMAIN Script[u], Script[u][k].op = "mwcas"
  PROVE  Script[u][k].d \in Descs /\ k \in Nat
  <1>1. Script[u] \in Seq(Operations)
    BY ScriptAssumption
  <1>2. Script[u][k] \in Operations /\ k \in Nat
    BY <1>1
  <1> QED
    BY <1>2 DEF Operations

LEMMA StatusSame ==
  ASSUME TypeInv, StatusInv, status' = status, hist' = hist,
         next' \in [Threads -> Nat \ {0}], \A u \in Threads : next'[u] >= next[u]
  PROVE  StatusInv'
  <1>1. next \in [Threads -> Nat \ {0}]
    BY DEF TypeInv
  <1>2. ASSUME NEW u \in Threads, NEW k \in DOMAIN Script[u], k >= next'[u],
               Script[u][k].op = "mwcas"
        PROVE  status'[Script[u][k].d] = Status("Finished")
    <2>1. k \in Nat
      <3>1. Script[u] \in Seq(Operations)
        BY ScriptAssumption
      <3> QED
        BY <3>1
    <2>2. k >= next[u]
      BY <1>1, <1>2, <2>1
    <2> QED
      BY <1>2, <2>2 DEF StatusInv
  <1>3. \A d \in Descs : d \in Range(hist)' <=> status'[d].s = "Succeeded"
    BY DEF StatusInv, Range
  <1> QED
    BY <1>2, <1>3 DEF StatusInv

LEMMA StatusCleaned ==
  ASSUME TypeInv, StatusInv, NEW d \in Descs, hist' = hist, next' = next,
         status' = [status EXCEPT ![d] = Clean(@)]
  PROVE  StatusInv'
  <1>1. PICK st : st = Clean(status[d])
    OBVIOUS
  <1>2. /\ status \in [Descs -> [s : States, dirty : 0 .. 1]]
        /\ status' = [status EXCEPT ![d] = st]
    BY <1>1 DEF TypeInv, StatusType
  <1>3. status'[d] = st /\ \A c \in Descs : c # d => status'[c] = status[c]
    BY <1>2
  <1>4. /\ st \in {Status("Finished"), Status("Undecided"), Status("Succeeded"),
                   Status("Failed")}
        /\ st.s = status[d].s
        /\ status[d] = Status("Finished") => st = Status("Finished")
    BY <1>1, StatusForms DEF StatusInv
  <1>5. ASSUME NEW u \in Threads, NEW k \in DOMAIN Script[u], k >= next'[u],
               Script[u][k].op = "mwcas"
        PROVE  status'[Script[u][k].d] = Status("Finished")
    <2>1. Script[u][k].d \in Descs
      BY <1>5, ScriptedDescs
    <2> QED
      BY <1>3, <1>4, <1>5, <2>1 DEF StatusInv
  <1>6. \A c \in Descs : c \in Range(hist)' <=> status'[c].s = "Succeeded"
    BY <1>3, <1>4 DEF StatusInv, Range
  <1>7. \A c \in Descs : status'[c] \in {Status("Finished"), Status("Undecided"),
          Status("Succeeded"), Dirty(Status("Succeeded")),
          Status("Failed"), Dirty(Status("Failed"))}
    BY <1>3, <1>4 DEF StatusInv
  <1> QED
    BY <1>5, <1>6, <1>7 DEF StatusInv

LEMMA StatusBegun ==
  ASSUME TypeInv, StatusInv, NEW t \in Threads, BeginMwCAS(t)
  PROVE  StatusInv'
  <1>1. PICK d : d = Script[t][next[t]].d
    OBVIOUS
  <1>2. /\ d \in Descs /\ next[t] \in DOMAIN Script[t] /\ Script[t][next[t]].op = "mwcas"
        /\ next' = [next EXCEPT ![t] = @ + 1]
    BY <1>1, BeginMwCASEffect
  <1>3. /\ status \in [Descs -> [s : States, dirty : 0 .. 1]]
        /\ next \in [Threads -> Nat \ {0}]
    BY DEF TypeInv, StatusType
  <1>4. status' = [status EXCEPT ![d] = Status("Undecided")] /\ hist' = hist
    BY <1>1 DEF BeginMwCAS, StoreStatus, history
  <1>5. status'[d] = Status("Undecided") /\ \A c \in Descs : c # d => status'[c] = status[c]
    BY <1>2, <1>3, <1>4
  <1>6. status[d] = Status("Finished")
    BY <1>1, <1>2, <1>3 DEF StatusInv
  <1>7. ASSUME NEW u \in Threads, NEW k \in DOMAIN Script[u], k >= next'[u],
               Script[u][k].op = "mwcas"
        PROVE  status'[Script[u][k].d] = Status("Finished")
    <2>1. Script[u][k].d \in Descs /\ k \in Nat
      BY <1>7, ScriptedDescs
    <2>2. k >= next[u] /\ (u = t => k # next[t])
      BY <1>2, <1>3, <1>7, <2>1
    <2>3. Script[u][k].d # d
      BY <1>1, <1>2, <1>7, <2>2, ScriptAssumption
    <2> QED
      BY <1>5, <1>7, <2>1, <2>2, <2>3 DEF StatusInv
  <1>8. \A c \in Descs : c \in Range(hist)' <=> status'[c].s = "Succeeded"
    <2>1. Range(hist)' = Range(hist)
      BY <1>4 DEF Range
    <2>2. status[d].s # "Succeeded" /\ status'[d].s # "Succeeded"
      BY <1>5, <1>6, StatusForms
    <2> QED
      BY <1>5, <2>1, <2>2 DEF StatusInv
  <1>9. \A c \in Descs : status'[c] \in {Status("Finished"), Status("Undecided"),
          Status("Succeeded"), Dirty(Status("Succeeded")),
          Status("Failed"), Dirty(Status("Failed"))}
    BY <1>5 DEF StatusInv
  <1> QED
    BY <1>7, <1>8, <1>9 DEF StatusInv

LEMMA StatusDecided ==
  ASSUME TypeInv, StatusInv, NEW t \in Threads, Decide(t), NEW f, f = Top(t), Undecided(f.d)
  PROVE  /\ StatusInv' /\ f.d \in Descs
         /\ status' = [status EXCEPT ![f.d] = Flag(Status(f.my_status))]
         /\ f.my_status \in {"Succeeded", "Failed"}
         /\ status'[f.d].s = f.my_status
  <1>1. PICK d : d = f.d
    OBVIOUS
  <1>2. d \in Descs /\ f.my_status \in {"Succeeded", "Failed"}
    BY <1>1, DecideEffect
  <1>3. PICK st : st = Flag(Status(f.my_status))
    OBVIOUS
  <1>4. /\ status' = [status EXCEPT ![d] = st] /\ next' = next
        /\ hist' = IF f.my_status = "Succeeded" THEN Append(hist, d) ELSE hist
    BY <1>1, <1>3 DEF Decide, StoreStatus, Undecided
  <1>5. st \in {Status(f.my_status), Dirty(Status(f.my_status))} /\ st.s = f.my_status
    BY <1>2, <1>3, DecidedStatus DEF States
  <1>6. status \in [Descs -> [s : States, dirty : 0 .. 1]] /\ hist \in Seq(Descs)
    BY DEF TypeInv, StatusType
  <1>7. status'[d] = st /\ \A c \in Descs : c # d => status'[c] = status[c]
    BY <1>2, <1>4, <1>6
  <1>8. ASSUME NEW u \in Threads, NEW k \in DOMAIN Script[u], k >= next'[u],
               Script[u][k].op = "mwcas"
        PROVE  status'[Script[u][k].d] = Status("Finished")
    <2>1. Script[u][k].d \in Descs
      BY <1>8, ScriptedDescs
    <2>2. status[Script[u][k].d] = Status("Finished")
      BY <1>4, <1>8 DEF StatusInv
    <2>3. Status("Finished") # Status("Undecided")
      BY StatusForms
    <2>4. Script[u][k].d # d
      BY <1>1, <2>2, <2>3 DEF Undecided
    <2> QED
      BY <1>7, <2>1, <2>2, <2>4
  <1>9. \A c \in Descs : c \in Range(hist)' <=> status'[c].s = "Succeeded"
    <2>1. status[d].s # "Succeeded"
      BY <1>1, StatusForms DEF Undecided
    <2>2. d \notin Range(hist)
      BY <1>2, <2>1 DEF StatusInv
    <2>3. Range(hist)' = Range(hist')
      BY DEF Range
    <2>4. Range(hist)' = IF f.my_status = "Succeeded" THEN Range(hist) \union {d} ELSE Range(hist)
      BY <1>2, <1>4, <1>6, <2>3, AppendRange
    <2>5. d \in Range(hist)' <=> status'[d].s = "Succeeded"
      BY <1>2, <1>5, <1>7, <2>2, <2>4
    <2>6. \A c \in Descs : c # d => (c \in Range(hist)' <=> c \in Range(hist))
      BY <2>4
    <2> QED
      BY <1>7, <2>5, <2>6 DEF StatusInv
  <1>10. \A c \in Descs : status'[c] \in {Status("Finished"), Status("Undecided"),
          Status("Succeeded"), Dirty(Status("Succeeded")),
          Status("Failed"), Dirty(Status("Failed"))}
    BY <1>2, <1>5, <1>7 DEF StatusInv
  <1>11. StatusInv'
    BY <1>8, <1>9, <1>10 DEF StatusInv
  <1> QED
    BY <1>1, <1>2, <1>3, <1>4, <1>5, <1>7, <1>11

(* The steps that change a status. *)
LEMMA StatusEffect ==
  ASSUME NEW t \in Threads, Step(t)
  PROVE  \/ /\ status' = status /\ hist' = hist
            /\ next' = next \/ BeginRead(t)
         \/ BeginMwCAS(t) \/ CleanStatus(t)
         \/ Decide(t) /\ Undecided(Top(t).d)
  <1>1. CASE BeginRead(t)
    BY <1>1 DEF BeginRead, statusVars, history
  <1>2. CASE FlushDescriptor(t) \/ FlushStatus(t)
    BY <1>2 DEF FlushDescriptor, FlushStatus, PersistStatus, history
  <1>3. CASE ReadStatus(t) \/ CondCAS(t) \/ CondStatus(t) \/ CondRecheck(t)
    BY <1>3 DEF ReadStatus, CondCAS, CondStatus, CondRecheck, statusVars, history
  <1>4. CASE ReadCondStatus(t) \/ InstallOverCond(t) \/ Precommit(t) \/ Swap(t)
    BY <1>4 DEF ReadCondStatus, InstallOverCond, Precommit, Swap, statusVars, history
  <1>5. CASE ReturnOwner(t) \/ ReturnHelper(t) \/ ReturnWithFailure(t)
    BY <1>5 DEF ReturnOwner, ReturnHelper, ReturnWithFailure, statusVars, history
  <1>6. CASE Load(t) \/ FlushWord(t) \/ CleanWord(t)
    BY <1>6 DEF Load, FlushWord, CleanWord, statusVars, history
  <1>7. CASE Decide(t) /\ ~Undecided(Top(t).d)
    BY <1>7 DEF Decide, Undecided, statusVars
  <1> QED
    BY <1>1, <1>2, <1>3, <1>4, <1>5, <1>6, <1>7 DEF Step, Continue

LEMMA StatusStep ==
  ASSUME OpInv, NEW t \in Threads, Step(t)
  PROVE  StatusInv'
  <1>1. TypeInv /\ StatusInv /\ next \in [Threads -> Nat \ {0}]
    BY DEF OpInv, TypeInv
  <1>2. CASE status' = status /\ hist' = hist /\ (next' = next \/ BeginRead(t))
    <2>1. next' = next \/ next' = [next EXCEPT ![t] = @ + 1]
      BY <1>1, <1>2, BeginReadEffect
    <2>2. next' \in [Threads -> Nat \ {0}] /\ \A u \in Threads : next'[u] >= next[u]
      BY <1>1, <2>1
    <2> QED
      BY <1>1, <1>2, <2>2, StatusSame
  <1>3. CASE BeginMwCAS(t)
    BY <1>1, <1>3, StatusBegun
  <1>4. CASE CleanStatus(t)
    <2>1. PICK d : d = Top(t).d
      OBVIOUS
    <2>2. d \in Descs
      BY <1>1, <1>4, <2>1, CleanStatusEffect
    <2>3. /\ status' = [status EXCEPT ![d] = Clean(status[d])] /\ hist' = hist
          /\ next' = next
      BY <1>4, <2>1 DEF CleanStatus, StoreStatus, history
    <2>4. status' = [status EXCEPT ![d] = Clean(@)]
      BY <2>3
    <2> QED
      BY <1>1, <2>2, <2>3, <2>4, StatusCleaned
  <1>5. CASE Decide(t) /\ Undecided(Top(t).d)
    BY <1>1, <1>5, StatusDecided
  <1> QED
    BY <1>2, <1>3, <1>4, <1>5, StatusEffect

=============================================================================
