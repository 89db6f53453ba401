----------------------------- MODULE StepProofs -----------------------------
(***************************************************************************)
(* Facts about the data of PMwCAS: what AddEntry makes of the entries of a *)
(* descriptor, the forms of target words and statuses, the last writer of  *)
(* a word, frames and stacks; what each action does to the frames of the   *)
(* thread that takes it; what a history replays to, what a crash leaves of *)
(* it, and what recovery makes of the target words.                        *)
(***************************************************************************)
EXTENDS Durability, TLAPS

(* Time for the longest leaves. *)
USE ZenonT(4), SMTT(10), ZenonT(40), SMTT(60), ZenonT(150)

-----------------------------------------------------------------------------

(* AddEntry *)

EntryRecord == [address : Addresses, old : Int, new : Int]

(* Strictly sorted on the address, so no address occurs twice. *)
Sorted(ws) ==
  \A i, j \in DOMAIN ws : i < j => ws[i].address < ws[j].address

(* The entries with smaller addresses are those before the insert position. *)
LEMMA InsertPosition ==
  ASSUME NEW ws \in Seq(EntryRecord), Sorted(ws), Len(ws) < kMaxCount,
         NEW addr \in Addresses, \A i \in DOMAIN ws : ws[i].address # addr
  PROVE  /\ GetInsertPosition(ws, addr) \in 1 .. Len(ws) + 1
         /\ \A i \in DOMAIN ws :
              ws[i].address < addr <=> i < GetInsertPosition(ws, addr)
  <1>1. PICK n : n = Len(ws)
    OBVIOUS
  <1>2. n \in 0 .. 3 /\ DOMAIN ws = 1 .. n
    BY <1>1 DEF kMaxCount
  <1>3. \A i \in 1 .. n : ws[i] \in EntryRecord
    BY <1>1, <1>2
  <1>4. /\ addr \in Int
        /\ \A i \in 1 .. n : ws[i].address \in Int /\ ws[i].address # addr
    BY <1>2, <1>3, ConstantsAssumption DEF EntryRecord
  <1>5. \A i, j \in 1 .. n : i < j => ws[i].address < ws[j].address
    BY <1>2 DEF Sorted
  <1> DEFINE Fits(p) == /\ \A i \in p .. Len(ws) : addr < ws[i].address
                        /\ p = 1 \/ ws[p - 1].address < addr
  <1>6. \E p \in 1 .. Len(ws) + 1 : Fits(p)
    <2>1. CASE \A i \in 1 .. n : addr < ws[i].address
      <3>1. Fits(1) /\ 1 \in 1 .. Len(ws) + 1
        BY <1>1, <1>2, <2>1
      <3> QED
        BY <3>1
    <2>2. CASE n >= 1 /\ ws[n].address < addr
      <3>1. Fits(n + 1) /\ n + 1 \in 1 .. Len(ws) + 1
        BY <1>1, <1>2, <2>2
      <3> QED
        BY <3>1
    <2>3. CASE n >= 2 /\ ws[1].address < addr /\ addr < ws[2].address
      <3>1. ASSUME NEW i \in 2 .. n
            PROVE  addr < ws[i].address
        <4>1. i = 2 \/ (2 < i /\ 2 \in 1 .. n /\ i \in 1 .. n)
          BY <1>2, <2>3
        <4>2. i # 2 => ws[2].address < ws[i].address
          BY <1>5, <4>1
        <4> QED
          BY <1>4, <2>3, <4>1, <4>2
      <3>2. Fits(2) /\ 2 \in 1 .. Len(ws) + 1
        BY <1>1, <1>2, <2>3, <3>1
      <3> QED
        BY <3>2
    <2>4. CASE n = 3 /\ ws[2].address < addr /\ addr < ws[3].address
      <3>1. Fits(3) /\ 3 \in 1 .. Len(ws) + 1
        BY <1>1, <1>2, <2>4
      <3> QED
        BY <3>1
    <2>5. ASSUME NEW i \in 1 .. n
          PROVE  ws[i].address < addr \/ addr < ws[i].address
      BY <1>4
    <2>6. n = 0 \/ n = 1 \/ n = 2 \/ n = 3
      BY <1>2
    <2>7. CASE n = 0
      BY <2>1, <2>7
    <2>8. CASE n = 1
      BY <2>1, <2>2, <2>5, <2>8
    <2>9. CASE n = 2
      <3>1. \A i \in 1 .. n : i = 1 \/ i = 2
        BY <2>9
      <3>2. addr < ws[1].address => addr < ws[2].address
        BY <1>4, <1>5, <2>9
      <3> QED
        BY <2>1, <2>2, <2>3, <2>5, <2>9, <3>1, <3>2
    <2>10. CASE n = 3
      <3>1. \A i \in 1 .. n : i = 1 \/ i = 2 \/ i = 3
        BY <2>10
      <3>2. addr < ws[1].address => addr < ws[2].address /\ addr < ws[3].address
        BY <1>4, <1>5, <2>10
      <3> QED
        BY <2>1, <2>2, <2>3, <2>4, <2>5, <2>10, <3>1, <3>2
    <2> QED
      BY <2>6, <2>7, <2>8, <2>9, <2>10
  <1>7. PICK p : p = CHOOSE q \in 1 .. Len(ws) + 1 : Fits(q)
    OBVIOUS
  <1>8. /\ p \in 1 .. n + 1 /\ \A i \in p .. n : addr < ws[i].address
        /\ p = 1 \/ ws[p - 1].address < addr
    <2>1. p \in 1 .. Len(ws) + 1 /\ Fits(p)
      <3> HIDE DEF Fits
      <3> QED
        BY <1>6, <1>7
    <2> QED
      BY <1>1, <2>1
  <1>9. ASSUME NEW i \in 1 .. n
        PROVE  ws[i].address < addr <=> i < p
    <2>1. CASE i < p
      <3>1. p # 1 /\ p - 1 \in 1 .. n /\ (i = p - 1 \/ i < p - 1)
        BY <1>2, <1>8, <2>1
      <3>2. i # p - 1 => ws[i].address < ws[p - 1].address
        BY <1>5, <3>1
      <3> QED
        BY <1>4, <1>8, <2>1, <3>1, <3>2
    <2>2. CASE ~(i < p)
      <3>1. i \in p .. n
        BY <1>2, <1>8, <2>2
      <3> QED
        BY <1>4, <1>8, <2>2, <3>1
    <2> QED
      BY <2>1, <2>2
  <1>10. GetInsertPosition(ws, addr) = p
    BY <1>7 DEF GetInsertPosition
  <1> QED
    BY <1>1, <1>2, <1>8, <1>9, <1>10

(* AddEntry puts the entry in its place and keeps the words sorted. *)
LEMMA AddEntryFacts ==
  ASSUME NEW ws \in Seq(EntryRecord), Sorted(ws), Len(ws) < kMaxCount,
         NEW e \in EntryRecord, \A i \in DOMAIN ws : ws[i].address # e.address
  PROVE  /\ AddEntry(ws, e) \in Seq(EntryRecord)
         /\ Len(AddEntry(ws, e)) = Len(ws) + 1
         /\ Sorted(AddEntry(ws, e))
         /\ Range(AddEntry(ws, e)) = Range(ws) \union {e}
  <1> DEFINE p == GetInsertPosition(ws, e.address)
             new == AddEntry(ws, e)
             n == Len(ws)
  <1>1. e.address \in Addresses /\ e.address \in Int
    BY ConstantsAssumption DEF EntryRecord
  <1>2. /\ p \in 1 .. n + 1
        /\ \A i \in DOMAIN ws : ws[i].address < e.address <=> i < p
    BY <1>1, InsertPosition
  <1>3. \A i \in DOMAIN ws : ws[i].address \in Int /\ ws[i] \in EntryRecord
    <2>1. \A i \in DOMAIN ws : ws[i] \in EntryRecord
      OBVIOUS
    <2> QED
      BY <2>1, ConstantsAssumption DEF EntryRecord
  <1>4. new = SubSeq(ws, 1, p - 1) \o <<e>> \o SubSeq(ws, p, n)
    BY DEF AddEntry
  <1> HIDE DEF p, new
  <1>5. /\ new \in Seq(EntryRecord) /\ Len(new) = n + 1 /\ DOMAIN new = 1 .. n + 1
        /\ \A k \in 1 .. n + 1 :
             new[k] = IF k < p THEN ws[k] ELSE IF k = p THEN e ELSE ws[k - 1]
    <2> DEFINE a == SubSeq(ws, 1, p - 1)
               b == SubSeq(ws, p, n)
    <2>1. a \in Seq(EntryRecord) /\ Len(a) = p - 1 /\ \A k \in 1 .. p - 1 : a[k] = ws[k]
      BY <1>2
    <2>2. /\ b \in Seq(EntryRecord) /\ Len(b) = n + 1 - p
          /\ \A k \in 1 .. n + 1 - p : b[k] = ws[k + p - 1]
      BY <1>2
    <2>3. new = a \o <<e>> \o b
      BY <1>4
    <2> HIDE DEF a, b
    <2> DEFINE c == a \o <<e>>
    <2>4. c \in Seq(EntryRecord) /\ Len(c) = p /\ \A k \in 1 .. p : c[k] = IF k < p THEN ws[k] ELSE e
      BY <1>2, <2>1
    <2>5. new = c \o b
      BY <2>3
    <2> HIDE DEF c
    <2>6. new \in Seq(EntryRecord) /\ Len(new) = n + 1
      <3>1. c \in Seq(EntryRecord) /\ b \in Seq(EntryRecord)
        BY <2>2, <2>4
      <3>2. Len(c \o b) = Len(c) + Len(b) /\ c \o b \in Seq(EntryRecord)
        BY <3>1
      <3> QED
        BY <1>2, <2>2, <2>4, <2>5, <3>2
    <2>7. ASSUME NEW k \in 1 .. n + 1
          PROVE  new[k] = IF k < p THEN ws[k] ELSE IF k = p THEN e ELSE ws[k - 1]
      <3>1. CASE k <= p
        <4>1. new[k] = c[k]
          BY <1>2, <2>2, <2>4, <2>5, <3>1
        <4> QED
          BY <1>2, <2>4, <3>1, <4>1
      <3>2. CASE k > p
        <4>1. new[k] = b[k - p]
          BY <1>2, <2>2, <2>4, <2>5, <3>2
        <4>2. k - p \in 1 .. n + 1 - p /\ (k - p) + p - 1 = k - 1
          BY <1>2, <3>2
        <4> QED
          BY <1>2, <2>2, <3>2, <4>1, <4>2
      <3> QED
        BY <1>2, <3>1, <3>2
    <2> QED
      BY <2>6, <2>7
  <1>6. Sorted(new)
    <2> SUFFICES ASSUME NEW i \in 1 .. n + 1, NEW j \in 1 .. n + 1, i < j
                 PROVE  new[i].address < new[j].address
      BY <1>5 DEF Sorted
    <2>1. DOMAIN ws = 1 .. n /\ n \in Nat
      OBVIOUS
    <2>2. CASE j < p
      <3>1. i \in 1 .. n /\ j \in 1 .. n /\ i < p
        BY <1>2, <2>1, <2>2
      <3>2. new[i] = ws[i] /\ new[j] = ws[j]
        BY <1>5, <2>2, <3>1
      <3> QED
        BY <2>1, <3>1, <3>2 DEF Sorted
    <2>3. CASE j = p
      <3>1. i \in 1 .. n /\ i < p /\ ~(j < p)
        BY <1>2, <2>1, <2>3
      <3>2. new[i] = ws[i] /\ new[j] = e
        BY <1>5, <2>3, <3>1
      <3> QED
        BY <1>2, <2>1, <3>1, <3>2
    <2>4. CASE j > p
      <3>1. new[j] = ws[j - 1] /\ j - 1 \in 1 .. n
        BY <1>2, <1>5, <2>1, <2>4
      <3>2. CASE i = p
        <4>1. ~(ws[j - 1].address < e.address) /\ ws[j - 1].address # e.address
          BY <1>2, <2>1, <2>4, <3>1
        <4>2. new[i] = e
          BY <1>2, <1>5, <3>2
        <4>3. ws[j - 1].address \in Int
          BY <1>3, <2>1, <3>1
        <4> QED
          BY <1>1, <3>1, <4>1, <4>2, <4>3
      <3>3. CASE i < p
        <4>1. new[i] = ws[i] /\ i \in 1 .. n /\ i < j - 1
          BY <1>2, <1>5, <2>1, <2>4, <3>3
        <4> QED
          BY <2>1, <3>1, <4>1 DEF Sorted
      <3>4. CASE i > p
        <4>1. new[i] = ws[i - 1] /\ i - 1 \in 1 .. n /\ i - 1 < j - 1
          BY <1>2, <1>5, <2>1, <3>4
        <4> QED
          BY <2>1, <3>1, <4>1 DEF Sorted
      <3> QED
        BY <1>2, <3>2, <3>3, <3>4
    <2> QED
      BY <1>2, <2>2, <2>3, <2>4
  <1>7. Range(new) = Range(ws) \union {e}
    <2>1. Range(new) = {new[k] : k \in 1 .. n + 1} /\ Range(ws) = {ws[k] : k \in 1 .. n}
      BY <1>5 DEF Range
    <2>2. ASSUME NEW x, x \in Range(new) PROVE x \in Range(ws) \union {e}
      <3>1. PICK k \in 1 .. n + 1 : x = new[k]
        BY <2>1, <2>2
      <3>2. CASE k < p
        <4>1. x = ws[k] /\ k \in 1 .. n
          BY <1>2, <1>5, <3>1, <3>2
        <4> QED
          BY <2>1, <4>1
      <3>3. CASE k = p
        BY <1>2, <1>5, <3>1, <3>3
      <3>4. CASE k > p
        <4>1. x = ws[k - 1] /\ k - 1 \in 1 .. n
          BY <1>2, <1>5, <3>1, <3>4
        <4> QED
          BY <2>1, <4>1
      <3> QED
        BY <1>2, <3>1, <3>2, <3>3, <3>4
    <2>3. ASSUME NEW x \in Range(ws) PROVE x \in Range(new)
      <3>1. PICK k \in 1 .. n : x = ws[k]
        BY <2>1
      <3>2. new[k] = x \/ new[k + 1] = x
        BY <1>2, <1>5, <3>1
      <3> QED
        BY <2>1, <3>2
    <2>4. e \in Range(new)
      BY <1>2, <1>5, <2>1
    <2> QED
      BY <2>2, <2>3, <2>4
  <1> QED
    BY <1>5, <1>6, <1>7 DEF new

(* The entries that descriptor d has after n calls of AddEntry. *)
Added(d, n, ws) ==
  /\ ws \in Seq(EntryRecord) /\ Len(ws) = n /\ Sorted(ws)
  /\ Range(ws) = {Entries[d][k] : k \in 1 .. n}

LEMMA AddsNext ==
  ASSUME NEW d \in Descs, NEW n \in 1 .. Len(Entries[d]), NEW ws, Added(d, n - 1, ws)
  PROVE  Added(d, n, AddEntry(ws, Entries[d][n]))
  <1> DEFINE e == Entries[d][n]
  <1>1. /\ Entries[d] \in Seq(EntryRecord) /\ Len(Entries[d]) \in 1 .. kMaxCount
        /\ \A j, k \in DOMAIN Entries[d] :
             Entries[d][j].address = Entries[d][k].address => j = k
    BY EntriesAssumption DEF EntryRecord
  <1>2. e \in EntryRecord
    BY <1>1
  <1>3. \A i \in DOMAIN ws : ws[i].address # e.address
    <2> SUFFICES ASSUME NEW i \in DOMAIN ws, ws[i].address = e.address
                 PROVE  FALSE
      OBVIOUS
    <2>1. ws[i] \in Range(ws)
      BY DEF Range
    <2>2. PICK k \in 1 .. n - 1 : ws[i] = Entries[d][k]
      BY <2>1 DEF Added
    <2> QED
      BY <1>1, <2>2
  <1>4. Range(ws) \union {e} = {Entries[d][k] : k \in 1 .. n}
    BY <1>1 DEF Added
  <1> HIDE DEF e
  <1>5. /\ AddEntry(ws, e) \in Seq(EntryRecord) /\ Len(AddEntry(ws, e)) = Len(ws) + 1
        /\ Sorted(AddEntry(ws, e)) /\ Range(AddEntry(ws, e)) = Range(ws) \union {e}
    <2>1. ws \in Seq(EntryRecord) /\ Sorted(ws) /\ Len(ws) < kMaxCount
      BY <1>1 DEF Added, kMaxCount
    <2> QED
      BY <1>2, <1>3, <2>1, AddEntryFacts
  <1>6. Len(AddEntry(ws, e)) = n
    BY <1>5 DEF Added
  <1>7. Added(d, n, AddEntry(ws, e))
    <2> DEFINE new == AddEntry(ws, e)
    <2> HIDE DEF new
    <2>1. /\ new \in Seq(EntryRecord) /\ Len(new) = n
          /\ Sorted(new) /\ Range(new) = {Entries[d][k] : k \in 1 .. n}
      BY <1>4, <1>5, <1>6 DEF new
    <2> QED
      BY <2>1 DEF Added, new
  <1> QED
    BY <1>7 DEF e

(***************************************************************************)
(* AddEntry: "Word descriptors are stored sorted on the word address": a   *)
(* descriptor has exactly the entries it was given, in address order.      *)
(***************************************************************************)
THEOREM WordsSorted ==
  ASSUME NEW d \in Descs
  PROVE  Added(d, Len(Entries[d]), words[d])
  <1> DEFINE n == Len(Entries[d])
             after[m \in 0 .. n] ==
               IF m = 0 THEN <<>> ELSE AddEntry(after[m - 1], Entries[d][m])
  <1>1. n \in 1 .. 4
    BY EntriesAssumption DEF kMaxCount
  <1>2. words[d] = after[n]
    BY DEF words
  <1> DEFINE w1 == AddEntry(<<>>, Entries[d][1])
             w2 == AddEntry(w1, Entries[d][2])
             w3 == AddEntry(w2, Entries[d][3])
             w4 == AddEntry(w3, Entries[d][4])
             g == [m \in 0 .. n |-> CASE m = 0 -> <<>> [] m = 1 -> w1 [] m = 2 -> w2
                                       [] m = 3 -> w3 [] m = 4 -> w4]
  <1>3. g = [m \in 0 .. n |-> IF m = 0 THEN <<>> ELSE AddEntry(g[m - 1], Entries[d][m])]
    BY <1>1
  <1>4. after = [m \in 0 .. n |->
                   IF m = 0 THEN <<>> ELSE AddEntry(after[m - 1], Entries[d][m])]
    <2> HIDE DEF g
    <2> QED
      BY <1>3
  <1> HIDE DEF after
  <1>5. Added(d, 0, after[0])
    <2>1. after[0] = <<>>
      BY <1>1, <1>4
    <2> QED
      BY <2>1 DEF Added, Sorted, Range
  <1>6. \A m \in 1 .. n : Added(d, m - 1, after[m - 1]) => Added(d, m, after[m])
    <2> SUFFICES ASSUME NEW m \in 1 .. n, Added(d, m - 1, after[m - 1])
                 PROVE  Added(d, m, after[m])
      OBVIOUS
    <2>1. after[m] = AddEntry(after[m - 1], Entries[d][m])
      BY <1>1, <1>4
    <2> QED
      BY <2>1, AddsNext
  <1>7. Added(d, 1, after[1])
    BY <1>1, <1>5, <1>6
  <1>8. n >= 2 => Added(d, 2, after[2])
    BY <1>1, <1>6, <1>7
  <1>9. n >= 3 => Added(d, 3, after[3])
    BY <1>1, <1>6, <1>8
  <1>10. n = 4 => Added(d, 4, after[4])
    BY <1>1, <1>6, <1>9
  <1>11. n = 1 \/ n = 2 \/ n = 3 \/ n = 4
    BY <1>1
  <1>12. Added(d, n, after[n])
    <2>1. CASE n = 1
      BY <1>7, <2>1
    <2>2. CASE n = 2
      BY <1>8, <2>2
    <2>3. CASE n = 3
      BY <1>9, <2>3
    <2>4. CASE n = 4
      BY <1>10, <2>4
    <2> QED
      BY <1>11, <2>1, <2>2, <2>3, <2>4
  <1> QED
    BY <1>2, <1>12

(* What is used of it most: an address occurs in one word of a descriptor. *)
LEMMA WordsFacts ==
  ASSUME NEW d \in Descs
  PROVE  /\ words[d] \in Seq(EntryRecord) /\ Len(words[d]) \in 1 .. kMaxCount
         /\ DOMAIN words[d] = 1 .. Len(words[d]) /\ 1 \in DOMAIN words[d]
         /\ \A i \in DOMAIN words[d] :
              /\ words[d][i].address \in Addresses
              /\ words[d][i].old \in Int /\ words[d][i].new \in Int
         /\ \A i, j \in DOMAIN words[d] :
              words[d][i].address = words[d][j].address => i = j
  <1> DEFINE ws == words[d]
  <1>1. ws \in Seq(EntryRecord) /\ Len(ws) \in 1 .. kMaxCount /\ Sorted(ws)
    BY WordsSorted, EntriesAssumption DEF Added
  <1>2. DOMAIN ws = 1 .. Len(ws) /\ 1 \in DOMAIN ws /\ \A i \in DOMAIN ws : ws[i] \in EntryRecord
    BY <1>1
  <1> HIDE DEF ws
  <1>3. \A i \in DOMAIN ws : /\ ws[i].address \in Addresses /\ ws[i].address \in Int
                             /\ ws[i].old \in Int /\ ws[i].new \in Int
    BY <1>2, ConstantsAssumption DEF EntryRecord
  <1>4. \A i, j \in DOMAIN ws : ws[i].address = ws[j].address => i = j
    <2> SUFFICES ASSUME NEW i \in DOMAIN ws, NEW j \in DOMAIN ws,
                        ws[i].address = ws[j].address, i # j
                 PROVE  FALSE
      OBVIOUS
    <2>1. i < j \/ j < i
      BY <1>1, <1>2
    <2> QED
      BY <1>1, <1>3, <2>1 DEF Sorted
  <1> QED
    BY <1>1, <1>2, <1>3, <1>4 DEF ws

LEMMA WordIndex ==
  ASSUME NEW d \in Descs, NEW i \in DOMAIN words[d]
  PROVE  d \in Nat /\ Len(words[d]) \in Nat /\ i \in Nat /\ i >= 1 /\ i <= Len(words[d])
  <1>1. Len(words[d]) \in 1 .. 4 /\ i \in 1 .. Len(words[d])
    BY WordsFacts DEF kMaxCount
  <1>2. d \in 1 .. PoolSize /\ PoolSize \in Nat
    BY ConstantsAssumption DEF Descs
  <1> QED
    BY <1>1, <1>2

(* The entry of operation d for address a. *)
EntryAt(d, a) == CHOOSE e \in Range(words[d]) : e.address = a

(* The entry of d for address a, which Logical picks with CHOOSE. *)
LEMMA EntryOf ==
  ASSUME NEW d \in Descs, NEW i \in DOMAIN words[d]
  PROVE  (CHOOSE e \in Range(words[d]) : e.address = words[d][i].address) = words[d][i]
  <1>1. words[d][i] \in Range(words[d])
    BY DEF Range
  <1>2. \A e \in Range(words[d]) : e.address = words[d][i].address => e = words[d][i]
    BY WordsFacts DEF Range
  <1> QED
    BY <1>1, <1>2

-----------------------------------------------------------------------------

(* The forms of a target word *)

(* The fields of the forms, and what the dirty flag does to them. *)
LEMMA Forms ==
  /\ \A v : /\ Val(v).tag = "val" /\ Val(v).v = v /\ Val(v).dirty = 0
            /\ Dirty(Val(v)).tag = "val" /\ Dirty(Val(v)).v = v
            /\ Dirty(Val(v)).dirty = 1
            /\ Clean(Val(v)) = Val(v) /\ Clean(Dirty(Val(v))) = Val(v)
  /\ \A d : /\ MwCASPtr(d).tag = "mwcas" /\ MwCASPtr(d).d = d
            /\ MwCASPtr(d).dirty = 0
            /\ Dirty(MwCASPtr(d)).tag = "mwcas" /\ Dirty(MwCASPtr(d)).d = d
            /\ Dirty(MwCASPtr(d)).dirty = 1
            /\ Clean(MwCASPtr(d)) = MwCASPtr(d)
            /\ Clean(Dirty(MwCASPtr(d))) = MwCASPtr(d)
  /\ \A d, i : /\ CondPtr(d, i).tag = "cond" /\ CondPtr(d, i).d = d
               /\ CondPtr(d, i).i = i /\ CondPtr(d, i).dirty = 0
               /\ Clean(CondPtr(d, i)) = CondPtr(d, i)
  /\ NoWord.tag = "none"
  <1>1. ASSUME NEW v
        PROVE  /\ Dirty(Val(v)) = [tag |-> "val", v |-> v, dirty |-> 1]
               /\ Clean(Val(v)) = Val(v) /\ Clean(Dirty(Val(v))) = Val(v)
    <2>1. Dirty(Val(v)) = [tag |-> "val", v |-> v, dirty |-> 1]
      BY DEF Val, Dirty
    <2>2. Clean([tag |-> "val", v |-> v, dirty |-> 1]) = Val(v)
      BY DEF Val, Clean
    <2>3. Clean(Val(v)) = Val(v)
      BY DEF Val, Clean
    <2> QED
      BY <2>1, <2>2, <2>3
  <1>2. ASSUME NEW d
        PROVE  /\ Dirty(MwCASPtr(d)) = [tag |-> "mwcas", d |-> d, dirty |-> 1]
               /\ Clean(MwCASPtr(d)) = MwCASPtr(d)
               /\ Clean(Dirty(MwCASPtr(d))) = MwCASPtr(d)
    <2>1. Dirty(MwCASPtr(d)) = [tag |-> "mwcas", d |-> d, dirty |-> 1]
      BY DEF MwCASPtr, Dirty
    <2>2. Clean([tag |-> "mwcas", d |-> d, dirty |-> 1]) = MwCASPtr(d)
      BY DEF MwCASPtr, Clean
    <2>3. Clean(MwCASPtr(d)) = MwCASPtr(d)
      BY DEF MwCASPtr, Clean
    <2> QED
      BY <2>1, <2>2, <2>3
  <1>3. ASSUME NEW d, NEW i
        PROVE  Clean(CondPtr(d, i)) = CondPtr(d, i)
    BY DEF CondPtr, Clean
  <1>4. ASSUME NEW v
        PROVE  /\ Val(v).tag = "val" /\ Val(v).v = v /\ Val(v).dirty = 0
               /\ Dirty(Val(v)).tag = "val" /\ Dirty(Val(v)).v = v
               /\ Dirty(Val(v)).dirty = 1
    <2>1. Val(v) = [tag |-> "val", v |-> v, dirty |-> 0]
      BY DEF Val
    <2>2. Dirty(Val(v)) = [tag |-> "val", v |-> v, dirty |-> 1]
      BY <1>1
    <2> QED
      BY <2>1, <2>2
  <1>5. ASSUME NEW d
        PROVE  /\ MwCASPtr(d).tag = "mwcas" /\ MwCASPtr(d).d = d
               /\ MwCASPtr(d).dirty = 0
               /\ Dirty(MwCASPtr(d)).tag = "mwcas" /\ Dirty(MwCASPtr(d)).d = d
               /\ Dirty(MwCASPtr(d)).dirty = 1
    <2>1. MwCASPtr(d) = [tag |-> "mwcas", d |-> d, dirty |-> 0]
      BY DEF MwCASPtr
    <2>2. Dirty(MwCASPtr(d)) = [tag |-> "mwcas", d |-> d, dirty |-> 1]
      BY <1>2
    <2> QED
      BY <2>1, <2>2
  <1>6. \A d, i : /\ CondPtr(d, i).tag = "cond" /\ CondPtr(d, i).d = d
                 /\ CondPtr(d, i).i = i /\ CondPtr(d, i).dirty = 0
    BY DEF CondPtr
  <1>7. NoWord.tag = "none"
    BY DEF NoWord
  <1> QED
    BY <1>1, <1>2, <1>3, <1>4, <1>5, <1>6, <1>7

LEMMA ValFields ==
  ASSUME NEW v
  PROVE  /\ Val(v).tag = "val" /\ Val(v).v = v /\ Val(v).dirty = 0
         /\ Dirty(Val(v)).tag = "val" /\ Dirty(Val(v)).v = v /\ Dirty(Val(v)).dirty = 1
         /\ Clean(Val(v)) = Val(v) /\ Clean(Dirty(Val(v))) = Val(v)
  BY Forms

LEMMA PtrFields ==
  ASSUME NEW d
  PROVE  /\ MwCASPtr(d).tag = "mwcas" /\ MwCASPtr(d).d = d
         /\ Dirty(MwCASPtr(d)).tag = "mwcas" /\ Dirty(MwCASPtr(d)).d = d
         /\ Dirty(MwCASPtr(d)).dirty = 1
         /\ Clean(MwCASPtr(d)) = MwCASPtr(d) /\ Clean(Dirty(MwCASPtr(d))) = MwCASPtr(d)
  BY Forms

LEMMA CondFields ==
  ASSUME NEW d, NEW i
  PROVE  /\ CondPtr(d, i).tag = "cond" /\ CondPtr(d, i).d = d /\ CondPtr(d, i).i = i
         /\ CondPtr(d, i).dirty = 0 /\ Clean(CondPtr(d, i)) = CondPtr(d, i)
  BY Forms

(* A status, and its dirty flag. *)
LEMMA StatusForms ==
  /\ \A s : /\ Status(s).s = s /\ Status(s).dirty = 0
            /\ Dirty(Status(s)).s = s /\ Dirty(Status(s)).dirty = 1
            /\ Clean(Status(s)) = Status(s) /\ Clean(Dirty(Status(s))) = Status(s)
  /\ \A x \in [s : States, dirty : 0 .. 1] :
       Clean(x) = Status(x.s) /\ x.s \in States
  /\ \A s \in States : Status(s) \in [s : States, dirty : 0 .. 1]
                     /\ Dirty(Status(s)) \in [s : States, dirty : 0 .. 1]
  <1>1. ASSUME NEW s
        PROVE  /\ Dirty(Status(s)) = [s |-> s, dirty |-> 1]
               /\ Clean(Status(s)) = Status(s) /\ Clean(Dirty(Status(s))) = Status(s)
    <2>1. Dirty(Status(s)) = [s |-> s, dirty |-> 1]
      BY DEF Status, Dirty
    <2>2. Clean([s |-> s, dirty |-> 1]) = Status(s)
      BY DEF Status, Clean
    <2>3. Clean(Status(s)) = Status(s)
      BY DEF Status, Clean
    <2> QED
      BY <2>1, <2>2, <2>3
  <1>2. ASSUME NEW x \in [s : States, dirty : 0 .. 1]
        PROVE  Clean(x) = Status(x.s) /\ x.s \in States
    BY DEF Clean, Status
  <1>3. ASSUME NEW s
        PROVE  /\ Status(s).s = s /\ Status(s).dirty = 0
               /\ Dirty(Status(s)).s = s /\ Dirty(Status(s)).dirty = 1
               /\ s \in States => /\ Status(s) \in [s : States, dirty : 0 .. 1]
                                 /\ Dirty(Status(s)) \in [s : States, dirty : 0 .. 1]
    <2>1. Status(s) = [s |-> s, dirty |-> 0]
      BY DEF Status
    <2>2. Dirty(Status(s)) = [s |-> s, dirty |-> 1]
      BY <1>1
    <2> QED
      BY <2>1, <2>2
  <1> QED
    BY <1>1, <1>2, <1>3

(* Every word has one of the three forms. *)
WordForm(x) ==
  \/ /\ x.tag = "val" /\ x.v \in Int
     /\ x = IF IsDirty(x) THEN Dirty(Val(x.v)) ELSE Val(x.v)
  \/ /\ x.tag = "mwcas" /\ x.d \in Descs
     /\ x = IF IsDirty(x) THEN Dirty(MwCASPtr(x.d)) ELSE MwCASPtr(x.d)
  \/ /\ x.tag = "cond" /\ x.d \in Descs /\ x.i \in DOMAIN words[x.d]
     /\ x.dirty = 0 /\ x = CondPtr(x.d, x.i)

LEMMA WordsHaveForm ==
  ASSUME NEW x \in Words
  PROVE  WordForm(x)
  <1> DEFINE plain == {Val(InitValue[a]) : a \in Addresses} \union
                      {MwCASPtr(d) : d \in Descs} \union
                      UNION {{Old(w[1], w[2]), New(w[1], w[2])} : w \in WordIds}
  <1>1. \/ x \in plain
        \/ \E y \in plain : x = Dirty(y)
        \/ \E w \in WordIds : x = CondPtr(w[1], w[2])
    BY DEF Words
  <1>2. ASSUME NEW y \in plain
        PROVE  (\E v \in Int : y = Val(v)) \/ (\E d \in Descs : y = MwCASPtr(d))
    <2>1. \A w \in WordIds : w[1] \in Descs /\ w[2] \in DOMAIN words[w[1]]
      BY DEF WordIds
    <2>2. \A w \in WordIds : /\ words[w[1]][w[2]].old \in Int
                             /\ words[w[1]][w[2]].new \in Int
      BY <2>1, WordsFacts
    <2>3. CASE \E a \in Addresses : y = Val(InitValue[a])
      BY <2>3, ConstantsAssumption
    <2>4. CASE \E w \in WordIds : y = Old(w[1], w[2]) \/ y = New(w[1], w[2])
      BY <2>2, <2>4 DEF Old, New
    <2> QED
      BY <2>3, <2>4
  <1> HIDE DEF plain
  <1>3. CASE x \in plain
    <2>1. CASE \E v \in Int : x = Val(v)
      BY <2>1, Forms DEF WordForm, IsDirty
    <2>2. CASE \E d \in Descs : x = MwCASPtr(d)
      BY <2>2, Forms DEF WordForm, IsDirty
    <2> QED
      BY <1>2, <1>3, <2>1, <2>2
  <1>4. CASE \E y \in plain : x = Dirty(y)
    <2>1. CASE \E v \in Int : x = Dirty(Val(v))
      BY <2>1, Forms DEF WordForm, IsDirty
    <2>2. CASE \E d \in Descs : x = Dirty(MwCASPtr(d))
      BY <2>2, Forms DEF WordForm, IsDirty
    <2> QED
      BY <1>2, <1>4, <2>1, <2>2
  <1>5. CASE \E w \in WordIds : x = CondPtr(w[1], w[2])
    <2>1. \A w \in WordIds : w[1] \in Descs /\ w[2] \in DOMAIN words[w[1]]
      BY DEF WordIds
    <2> QED
      BY <1>5, <2>1, Forms DEF WordForm, IsDirty
  <1> QED
    BY <1>1, <1>3, <1>4, <1>5

(* The dirty flag does not change the form. *)
LEMMA CleanTag ==
  ASSUME NEW x \in Words
  PROVE  Clean(x).tag = x.tag
  <1>1. WordForm(x)
    BY WordsHaveForm
  <1>2. CASE x.tag = "val"
    <2>1. PICK v : x = Val(v) \/ x = Dirty(Val(v))
      BY <1>1, <1>2 DEF WordForm
    <2>2. Clean(x) = Val(v) /\ Val(v).tag = "val"
      BY <2>1, ValFields
    <2> QED
      BY <1>2, <2>2
  <1>3. CASE x.tag = "mwcas"
    <2>1. PICK d : x = MwCASPtr(d) \/ x = Dirty(MwCASPtr(d))
      BY <1>1, <1>3 DEF WordForm
    <2>2. Clean(x) = MwCASPtr(d) /\ MwCASPtr(d).tag = "mwcas"
      BY <2>1, PtrFields
    <2> QED
      BY <1>3, <2>2
  <1>4. CASE x.tag = "cond"
    <2>1. PICK d, i : x = CondPtr(d, i)
      BY <1>1, <1>4 DEF WordForm
    <2> QED
      BY <2>1, CondFields
  <1> QED
    BY <1>1, <1>2, <1>3, <1>4 DEF WordForm

(* The words that the code stores. *)
LEMMA StoredWords ==
  /\ \A a \in Addresses : Val(InitValue[a]) \in Words
  /\ \A d \in Descs : MwCASPtr(d) \in Words /\ Dirty(MwCASPtr(d)) \in Words
  /\ \A d \in Descs : \A i \in DOMAIN words[d] :
       /\ Old(d, i) \in Words /\ Dirty(Old(d, i)) \in Words
       /\ New(d, i) \in Words /\ Dirty(New(d, i)) \in Words
       /\ CondPtr(d, i) \in Words
  <1> DEFINE plain == {Val(InitValue[a]) : a \in Addresses} \union
                      {MwCASPtr(d) : d \in Descs} \union
                      UNION {{Old(w[1], w[2]), New(w[1], w[2])} : w \in WordIds}
  <1>1. plain \subseteq Words /\ \A y \in plain : Dirty(y) \in Words
    BY DEF Words
  <1>2. \A w \in WordIds : CondPtr(w[1], w[2]) \in Words
    BY DEF Words
  <1>3. \A d \in Descs : \A i \in DOMAIN words[d] : <<d, i>> \in WordIds
    <2> SUFFICES ASSUME NEW d \in Descs, NEW i \in DOMAIN words[d]
                 PROVE  <<d, i>> \in WordIds
      OBVIOUS
    <2>1. i \in 1 .. kMaxCount
      BY WordsFacts DEF kMaxCount
    <2> QED
      BY <2>1 DEF WordIds
  <1>4. /\ \A a \in Addresses : Val(InitValue[a]) \in plain
        /\ \A d \in Descs : MwCASPtr(d) \in plain
    OBVIOUS
  <1>5. ASSUME NEW d \in Descs, NEW i \in DOMAIN words[d]
        PROVE  Old(d, i) \in plain /\ New(d, i) \in plain /\ CondPtr(d, i) \in Words
    <2> DEFINE w == <<d, i>>
    <2>1. w \in WordIds /\ w[1] = d /\ w[2] = i
      BY <1>3
    <2> HIDE DEF w
    <2>2. /\ {Old(w[1], w[2]), New(w[1], w[2])} \subseteq plain
          /\ CondPtr(w[1], w[2]) \in Words
      BY <1>2, <2>1
    <2> QED
      BY <2>1, <2>2
  <1> HIDE DEF plain
  <1> QED
    BY <1>1, <1>4, <1>5

(* Clearing the dirty flag of a word gives a word. *)
LEMMA CleanedWords ==
  ASSUME NEW x \in Words
  PROVE  Clean(x) \in Words
  <1> DEFINE plain == {Val(InitValue[a]) : a \in Addresses} \union
                      {MwCASPtr(d) : d \in Descs} \union
                      UNION {{Old(w[1], w[2]), New(w[1], w[2])} : w \in WordIds}
  <1>1. \/ x \in plain
        \/ \E y \in plain : x = Dirty(y)
        \/ \E w \in WordIds : x = CondPtr(w[1], w[2])
    BY DEF Words
  <1>2. plain \subseteq Words
    BY DEF Words
  <1>3. ASSUME NEW y \in plain
        PROVE  Clean(y) = y /\ Clean(Dirty(y)) = y
    BY Forms DEF Old, New
  <1> HIDE DEF plain
  <1> QED
    BY <1>1, <1>2, <1>3, Forms

-----------------------------------------------------------------------------

(* The last writer of a word *)

LEMMA LastsAppend ==
  ASSUME NEW S, NEW seq \in Seq(S), NEW x, Lasts(seq)
  PROVE  Lasts(<<>>) /\ Lasts(Append(seq, x))
  <1>1. PICK n, new : n = Len(seq) /\ new = Append(seq, x)
    OBVIOUS
  <1>2. n \in Nat /\ DOMAIN seq = 1 .. n /\ DOMAIN new = 1 .. n + 1
    BY <1>1
  <1>3. ASSUME NEW T \in SUBSET (1 .. n + 1), T # {}
        PROVE  \E k \in T : \A m \in T : m <= k
    <2>1. CASE n + 1 \in T
      BY <1>2, <2>1
    <2>2. CASE n + 1 \notin T
      <3>1. T \in SUBSET (1 .. n)
        BY <1>2, <2>2
      <3> QED
        BY <1>2, <1>3, <3>1 DEF Lasts
    <2> QED
      BY <2>1, <2>2
  <1>4. Lasts(<<>>)
    BY DEF Lasts
  <1> QED
    BY <1>1, <1>2, <1>3, <1>4 DEF Lasts

LEMMA LastOfFacts ==
  ASSUME NEW seq \in Seq(Descs), NEW done, NEW a, Lasts(seq)
  PROVE  \/ /\ LastOf(seq, done, a) = 0
            /\ \A k \in DOMAIN seq : seq[k] \in done => ~Targets(seq[k], a)
         \/ \E k \in DOMAIN seq :
              /\ LastOf(seq, done, a) = seq[k] /\ seq[k] \in done /\ Targets(seq[k], a)
              /\ \A m \in DOMAIN seq : seq[m] \in done /\ Targets(seq[m], a) => m <= k
  <1> DEFINE by == {k \in DOMAIN seq :
                      seq[k] \in done /\ \E e \in Range(words[seq[k]]) : e.address = a}
  <1>1. \A k \in DOMAIN seq : k \in by <=> seq[k] \in done /\ Targets(seq[k], a)
    BY DEF Range, Targets
  <1>2. LastOf(seq, done, a) =
          IF by = {} THEN 0 ELSE seq[CHOOSE k \in by : \A j \in by : j <= k]
    BY DEF LastOf
  <1>3. by \in SUBSET (DOMAIN seq)
    OBVIOUS
  <1> HIDE DEF by
  <1>4. CASE by = {}
    BY <1>1, <1>2, <1>4
  <1>5. CASE by # {}
    <2>1. \E k \in by : \A m \in by : m <= k
      BY <1>3, <1>5 DEF Lasts
    <2>2. PICK k \in by : /\ \A m \in by : m <= k
                         /\ k = CHOOSE n \in by : \A m \in by : m <= n
      BY <2>1
    <2> QED
      BY <1>1, <1>2, <1>3, <1>5, <2>2
  <1> QED
    BY <1>4, <1>5

LEMMA LastOfType ==
  ASSUME NEW seq \in Seq(Descs), NEW done, NEW a, Lasts(seq)
  PROVE  /\ LastOf(seq, done, a) \in {0} \union Range(seq)
         /\ LastOf(seq, done, a) \in 0 .. PoolSize
  <1>1. LastOf(seq, done, a) = 0 \/ \E k \in DOMAIN seq : LastOf(seq, done, a) = seq[k]
    BY LastOfFacts
  <1>2. \A k \in DOMAIN seq : seq[k] \in Range(seq) /\ seq[k] \in 0 .. PoolSize
    BY ConstantsAssumption DEF Range, Descs
  <1> QED
    BY <1>1, <1>2, ConstantsAssumption

-----------------------------------------------------------------------------

(* Frames and stacks *)

LEMMA FrameFields ==
  ASSUME NEW f \in Frame
  PROVE  /\ f.d \in 0 .. PoolSize /\ f.i \in Int /\ f.pc \in ReadPCs \union MwCASPCs
         /\ f.my_status \in {"Succeeded", "Failed"} /\ f.ret \in Words \union {NoWord}
         /\ f.desired \in Words \union {NoWord} /\ f.new \in Words \union {NoWord}
         /\ f.saw \in 0 .. PoolSize
  BY DEF Frame

(* What FrameOK gives, one kind of frame at a time. *)
LEMMA FrameKinds ==
  ASSUME NEW f, FrameOK(f)
  PROVE  /\ f \in Frame /\ Addr(f) \in Addresses
         /\ f.d # 0 => /\ f.d \in Descs /\ f.i \in DOMAIN words[f.d] /\ f.pc \in MwCASPCs
                       /\ Addr(f) = words[f.d][f.i].address
         /\ f.d = 0 => f.i \in Addresses /\ f.pc \in ReadPCs /\ Addr(f) = f.i
         /\ f.pc \notin ReadPCs => f.d # 0
         /\ f.pc = "load" => f.d = 0
         /\ f.pc \in CondPCs => f.ret \in Words /\ f.ret.tag = "cond"
         /\ f.pc \in DirtyPCs =>
              f.ret \in Words /\ f.ret.tag \in {"val", "mwcas"} /\ IsDirty(f.ret)
         /\ f.pc = "install" => f.new \in Words
  <1>1. /\ f \in Frame
        /\ \/ f.d = 0 /\ f.i \in Addresses /\ f.pc \in ReadPCs
           \/ f.d \in Descs /\ f.i \in DOMAIN words[f.d] /\ f.pc \in MwCASPCs
        /\ f.pc \in CondPCs => f.ret \in Words /\ f.ret.tag = "cond"
        /\ f.pc \in DirtyPCs =>
             f.ret \in Words /\ f.ret.tag \in {"val", "mwcas"} /\ IsDirty(f.ret)
        /\ f.pc = "install" => f.new \in Words
    BY DEF FrameOK
  <1>2. 0 \notin Descs /\ "load" \notin MwCASPCs
    BY DEF Descs, MwCASPCs
  <1>3. f.d \in Descs => words[f.d][f.i].address \in Addresses
    BY <1>1, <1>2, WordsFacts
  <1> QED
    BY <1>1, <1>2, <1>3 DEF Addr

WithPC(f, p) == [f EXCEPT !.pc = p]

LEMMA SetPC ==
  ASSUME NEW f \in Frame, NEW p \in ReadPCs \union MwCASPCs, NEW g,
         g = WithPC(f, p)
  PROVE  /\ g \in Frame /\ g.pc = p
         /\ g.d = f.d /\ g.i = f.i /\ g.my_status = f.my_status /\ g.ret = f.ret
         /\ g.desired = f.desired /\ g.new = f.new /\ g.saw = f.saw
  BY DEF Frame, WithPC

WithRet(f, p, r) == [f EXCEPT !.pc = p, !.ret = r]

LEMMA SetRet ==
  ASSUME NEW f \in Frame, NEW p \in ReadPCs \union MwCASPCs, NEW r \in Words, NEW g,
         g = WithRet(f, p, r)
  PROVE  /\ g \in Frame /\ g.pc = p /\ g.ret = r
         /\ g.d = f.d /\ g.i = f.i /\ g.my_status = f.my_status
         /\ g.desired = f.desired /\ g.new = f.new /\ g.saw = f.saw
  BY DEF Frame, WithRet

WithDesired(f, p, r) == [f EXCEPT !.pc = p, !.desired = r]

LEMMA SetDesired ==
  ASSUME NEW f \in Frame, NEW p \in ReadPCs \union MwCASPCs, NEW r \in Words, NEW g,
         g = WithDesired(f, p, r)
  PROVE  /\ g \in Frame /\ g.pc = p /\ g.desired = r
         /\ g.d = f.d /\ g.i = f.i /\ g.my_status = f.my_status
         /\ g.ret = f.ret /\ g.new = f.new /\ g.saw = f.saw
  BY DEF Frame, WithDesired

WithNew(f, p, r) == [f EXCEPT !.pc = p, !.new = r]

LEMMA SetNew ==
  ASSUME NEW f \in Frame, NEW p \in ReadPCs \union MwCASPCs, NEW r \in Words, NEW g,
         g = WithNew(f, p, r)
  PROVE  /\ g \in Frame /\ g.pc = p /\ g.new = r
         /\ g.d = f.d /\ g.i = f.i /\ g.my_status = f.my_status
         /\ g.ret = f.ret /\ g.desired = f.desired /\ g.saw = f.saw
  BY DEF Frame, WithNew

WithSaw(f, r, s) == [f EXCEPT !.ret = r, !.saw = s]

LEMMA SetSaw ==
  ASSUME NEW f \in Frame, NEW r \in Words, NEW s \in 0 .. PoolSize, NEW g,
         g = WithSaw(f, r, s)
  PROVE  /\ g \in Frame /\ g.ret = r /\ g.saw = s
         /\ g.d = f.d /\ g.i = f.i /\ g.pc = f.pc /\ g.my_status = f.my_status
         /\ g.new = f.new /\ g.desired = f.desired
  BY DEF Frame, WithSaw

(* A call that begins, or begins again at a word. *)
Fresh(g, d, i, pc) ==
  /\ g \in Frame /\ g.d = d /\ g.i = i /\ g.pc = pc
  /\ g.ret = NoWord /\ g.desired = NoWord /\ g.new = NoWord /\ g.saw = 0

LEMMA FreshMwCAS ==
  ASSUME NEW d \in 0 .. PoolSize, NEW p \in ReadPCs \union MwCASPCs
  PROVE  /\ Fresh(MwCASFrame(d, p), d, 1, p)
         /\ MwCASFrame(d, p).my_status = "Succeeded"
  BY ConstantsAssumption DEF MwCASFrame, Fresh, Frame

FrameAt(d, p, i) == [MwCASFrame(d, p) EXCEPT !.i = i]

LEMMA FreshAt ==
  ASSUME NEW d \in 0 .. PoolSize, NEW p \in ReadPCs \union MwCASPCs, NEW i \in Int
  PROVE  /\ Fresh(FrameAt(d, p, i), d, i, p)
         /\ FrameAt(d, p, i).my_status = "Succeeded"
  <1>1. MwCASFrame(d, p) \in Frame
    BY FreshMwCAS DEF Fresh
  <1>2. FrameAt(d, p, i) =
          [d |-> d, i |-> i, pc |-> p, my_status |-> "Succeeded", ret |-> NoWord,
           desired |-> NoWord, new |-> NoWord, saw |-> 0]
    BY DEF MwCASFrame, FrameAt
  <1> QED
    BY <1>2, ConstantsAssumption DEF Fresh, Frame

FailedFrame(d) == [MwCASFrame(d, "decide") EXCEPT !.my_status = "Failed"]

LEMMA FreshFailed ==
  ASSUME NEW d \in Descs
  PROVE  /\ Fresh(FailedFrame(d), d, 1, "decide")
         /\ FailedFrame(d).my_status = "Failed"
  <1>1. FailedFrame(d) =
          [d |-> d, i |-> 1, pc |-> "decide", my_status |-> "Failed", ret |-> NoWord,
           desired |-> NoWord, new |-> NoWord, saw |-> 0]
    BY DEF MwCASFrame, FailedFrame
  <1> QED
    <2>1. "decide" \in ReadPCs \union MwCASPCs /\ d \in 0 .. PoolSize
      BY ConstantsAssumption DEF MwCASPCs, Descs
    <2> QED
      BY <1>1, <2>1, ConstantsAssumption DEF Fresh, Frame

(***************************************************************************)
(* A step leaves the frames of every stack alone, except that it drops     *)
(* some at the end and puts frames of S there.                             *)
(***************************************************************************)
Changed(S) ==
  /\ stack' \in [Threads -> Seq(Frame)]
  /\ \A u \in Threads : \A k \in DOMAIN stack'[u] :
       \/ k \in DOMAIN stack[u] /\ stack'[u][k] = stack[u][k]
       \/ stack'[u][k] \in S /\ (stack'[u][k].d = 0 => k = 1)

LEMMA TopFacts ==
  ASSUME TypeInv, NEW t \in Threads, stack[t] # <<>>
  PROVE  /\ Top(t) = stack[t][Len(stack[t])] /\ Len(stack[t]) \in DOMAIN stack[t]
         /\ Len(stack[t]) \in Nat \ {0} /\ DOMAIN stack[t] = 1 .. Len(stack[t])
         /\ Callers(stack[t]) \in Seq(Frame) /\ Len(Callers(stack[t])) = Len(stack[t]) - 1
         /\ \A k \in 1 .. Len(stack[t]) - 1 : Callers(stack[t])[k] = stack[t][k]
         /\ Top(t) \in Frame /\ FrameOK(Top(t))
         /\ Top(t).saw \in {0} \union Range(hist)
         /\ Top(t).d = 0 => Len(stack[t]) = 1
  <1>1. stack[t] \in Seq(Frame) /\ StackOK(stack[t]) /\ SawOK(stack[t])
    BY DEF TypeInv
  <1>2. Len(stack[t]) \in Nat \ {0} /\ DOMAIN stack[t] = 1 .. Len(stack[t])
    BY <1>1
  <1>3. Top(t) = stack[t][Len(stack[t])]
    BY DEF Top
  <1>4. /\ Callers(stack[t]) \in Seq(Frame) /\ Len(Callers(stack[t])) = Len(stack[t]) - 1
        /\ \A k \in 1 .. Len(stack[t]) - 1 : Callers(stack[t])[k] = stack[t][k]
    BY <1>1, <1>2 DEF Callers
  <1>5. Len(stack[t]) \in DOMAIN stack[t]
    BY <1>2
  <1>6. FrameOK(Top(t)) /\ Top(t).saw \in {0} \union Range(hist)
        /\ (Top(t).d = 0 => Len(stack[t]) = 1)
    BY <1>1, <1>3, <1>5 DEF StackOK, SawOK
  <1>7. Top(t) \in Frame
    BY <1>6 DEF FrameOK
  <1> QED
    BY <1>2, <1>3, <1>4, <1>5, <1>6, <1>7

LEMMA GotoChanges ==
  ASSUME TypeInv, NEW t \in Threads, stack[t] # <<>>, NEW g \in Frame,
         g.d = Top(t).d, Goto(t, g)
  PROVE  Changed({g})
  <1> DEFINE n == Len(stack[t])
             s == Append(Callers(stack[t]), g)
  <1>1. stack \in [Threads -> Seq(Frame)]
    BY DEF TypeInv
  <1>2. stack' = [stack EXCEPT ![t] = s]
    BY DEF Goto
  <1>3. s \in Seq(Frame) /\ Len(s) = n /\ s[n] = g /\ \A k \in 1 .. n - 1 : s[k] = stack[t][k]
    BY TopFacts
  <1>4. n \in Nat \ {0} /\ DOMAIN stack[t] = 1 .. n /\ (g.d = 0 => n = 1)
    BY TopFacts
  <1> HIDE DEF s, n
  <1>5. stack' \in [Threads -> Seq(Frame)] /\ stack'[t] = s
        /\ \A u \in Threads \ {t} : stack'[u] = stack[u]
    BY <1>1, <1>2, <1>3
  <1>6. \A k \in DOMAIN s : k \in 1 .. n /\ (k = n \/ k \in 1 .. n - 1)
    BY <1>3, <1>4
  <1>7. ASSUME NEW u \in Threads, NEW k \in DOMAIN stack'[u]
        PROVE  \/ k \in DOMAIN stack[u] /\ stack'[u][k] = stack[u][k]
               \/ stack'[u][k] \in {g} /\ (stack'[u][k].d = 0 => k = 1)
    <2>1. CASE u = t
      BY <1>3, <1>4, <1>5, <1>6, <2>1
    <2>2. CASE u # t
      BY <1>5, <2>2
    <2> QED
      BY <2>1, <2>2
  <1> QED
    BY <1>5, <1>7 DEF Changed

LEMMA HelpChanges ==
  ASSUME TypeInv, NEW t \in Threads, stack[t] # <<>>, NEW f \in Frame,
         f.d = Top(t).d, NEW d \in Descs, Help(t, f, d)
  PROVE  Changed({f, MwCASFrame(d, "status")})
  <1> DEFINE n == Len(stack[t])
             g == MwCASFrame(d, "status")
             s == Callers(stack[t]) \o <<f, g>>
  <1>1. stack \in [Threads -> Seq(Frame)]
    BY DEF TypeInv
  <1>2. stack' = [stack EXCEPT ![t] = s]
    BY DEF Help
  <1>3. g \in Frame /\ g.d = d /\ d # 0
    <2>1. "status" \in ReadPCs \union MwCASPCs /\ d \in 0 .. PoolSize
      BY ConstantsAssumption DEF MwCASPCs, Descs
    <2> QED
      BY <2>1, FreshMwCAS DEF Fresh, Descs
  <1> HIDE DEF g
  <1>4. /\ s \in Seq(Frame) /\ Len(s) = n + 1 /\ s[n] = f /\ s[n + 1] = g
        /\ \A k \in 1 .. n - 1 : s[k] = stack[t][k]
    <2> DEFINE b == Callers(stack[t])
               c == <<f, g>>
    <2>1. b \in Seq(Frame) /\ Len(b) = n - 1 /\ n \in Nat \ {0}
          /\ \A k \in 1 .. n - 1 : b[k] = stack[t][k]
      BY TopFacts
    <2>2. c \in Seq(Frame) /\ Len(c) = 2 /\ c[1] = f /\ c[2] = g
      BY <1>3
    <2>3. s = b \o c
      OBVIOUS
    <2> HIDE DEF b, c, s, n
    <2>4. s \in Seq(Frame) /\ Len(s) = n + 1
          /\ \A k \in 1 .. n + 1 : s[k] = IF k <= n - 1 THEN b[k] ELSE c[k - (n - 1)]
      <3>1. b \in Seq(Frame) /\ c \in Seq(Frame)
        BY <2>1, <2>2
      <3>2. /\ b \o c \in Seq(Frame) /\ Len(b \o c) = Len(b) + Len(c)
            /\ \A k \in 1 .. Len(b) + Len(c) :
                 (b \o c)[k] = IF k <= Len(b) THEN b[k] ELSE c[k - Len(b)]
        BY <3>1
      <3>3. Len(b) + Len(c) = n + 1
        BY <2>1, <2>2
      <3> QED
        BY <2>1, <2>3, <3>2, <3>3
    <2>5. s[n] = f /\ s[n + 1] = g
      <3>1. n \in 1 .. n + 1 /\ n + 1 \in 1 .. n + 1 /\ ~(n <= n - 1) /\ ~(n + 1 <= n - 1)
            /\ n - (n - 1) = 1 /\ n + 1 - (n - 1) = 2
        BY <2>1
      <3> QED
        BY <2>2, <2>4, <3>1
    <2>6. \A k \in 1 .. n - 1 : s[k] = stack[t][k]
      BY <2>1, <2>4
    <2> QED
      BY <2>4, <2>5, <2>6
  <1>5. n \in Nat \ {0} /\ DOMAIN stack[t] = 1 .. n /\ (f.d = 0 => n = 1)
    BY TopFacts
  <1> HIDE DEF s, n
  <1>6. stack' \in [Threads -> Seq(Frame)] /\ stack'[t] = s
        /\ \A u \in Threads \ {t} : stack'[u] = stack[u]
    BY <1>1, <1>2, <1>4
  <1>7. \A k \in DOMAIN s : k = n + 1 \/ k = n \/ k \in 1 .. n - 1
    BY <1>4, <1>5
  <1>8. ASSUME NEW u \in Threads, NEW k \in DOMAIN stack'[u]
        PROVE  \/ k \in DOMAIN stack[u] /\ stack'[u][k] = stack[u][k]
               \/ stack'[u][k] \in {f, g} /\ (stack'[u][k].d = 0 => k = 1)
    <2>1. CASE u = t
      BY <1>3, <1>4, <1>5, <1>6, <1>7, <2>1
    <2>2. CASE u # t
      BY <1>6, <2>2
    <2> QED
      BY <2>1, <2>2
  <1> QED
    BY <1>6, <1>8 DEF Changed, g

LEMMA ReturnChanges ==
  ASSUME TypeInv, NEW t \in Threads,
         \/ stack' = [stack EXCEPT ![t] = <<>>]
         \/ stack[t] # <<>> /\ stack' = [stack EXCEPT ![t] = Callers(@)]
  PROVE  Changed({})
  <1>1. stack \in [Threads -> Seq(Frame)]
    BY DEF TypeInv
  <1>2. CASE stack' = [stack EXCEPT ![t] = <<>>]
    <2>1. stack' \in [Threads -> Seq(Frame)] /\ stack'[t] = <<>> /\ DOMAIN stack'[t] = {}
      BY <1>1, <1>2
    <2> QED
      BY <1>1, <1>2, <2>1 DEF Changed
  <1>3. CASE stack[t] # <<>> /\ stack' = [stack EXCEPT ![t] = Callers(@)]
    <2> DEFINE s == Callers(stack[t])
               n == Len(stack[t])
    <2>1. /\ s \in Seq(Frame) /\ Len(s) = n - 1 /\ n \in Nat \ {0} /\ DOMAIN stack[t] = 1 .. n
          /\ \A k \in 1 .. n - 1 : s[k] = stack[t][k]
      BY <1>3, TopFacts
    <2>2. stack' = [stack EXCEPT ![t] = s]
      BY <1>3
    <2> HIDE DEF s, n
    <2>3. stack' \in [Threads -> Seq(Frame)] /\ stack'[t] = s
          /\ \A u \in Threads \ {t} : stack'[u] = stack[u]
      BY <1>1, <2>1, <2>2
    <2>4. \A k \in DOMAIN s : k \in 1 .. n - 1 /\ k \in 1 .. n
      BY <2>1
    <2>5. ASSUME NEW u \in Threads, NEW k \in DOMAIN stack'[u]
          PROVE  k \in DOMAIN stack[u] /\ stack'[u][k] = stack[u][k]
      <3>1. CASE u = t
        BY <2>1, <2>3, <2>4, <3>1
      <3>2. CASE u # t
        BY <2>3, <3>2
      <3> QED
        BY <3>1, <3>2
    <2> QED
      BY <2>3, <2>5 DEF Changed
  <1> QED
    BY <1>2, <1>3

LEMMA BeginChanges ==
  ASSUME TypeInv, NEW t \in Threads, NEW g \in Frame,
         stack' = [stack EXCEPT ![t] = <<g>>]
  PROVE  Changed({g})
  <1>1. stack \in [Threads -> Seq(Frame)]
    BY DEF TypeInv
  <1>2. <<g>> \in Seq(Frame) /\ DOMAIN <<g>> = {1} /\ <<g>>[1] = g
    OBVIOUS
  <1>3. stack' \in [Threads -> Seq(Frame)] /\ stack'[t] = <<g>>
        /\ \A u \in Threads \ {t} : stack'[u] = stack[u]
    BY <1>1, <1>2
  <1> QED
    BY <1>2, <1>3 DEF Changed

(* The frames stay well formed if those that are new are. *)
LEMMA StacksOK ==
  ASSUME TypeInv, NEW S, Changed(S), Range(hist) \subseteq Range(hist'),
         \A g \in S : FrameOK(g) /\ g.saw \in {0} \union Range(hist')
  PROVE  /\ stack' \in [Threads -> Seq(Frame)]
         /\ \A u \in Threads : StackOK(stack'[u]) /\ SawOK(stack[u])'
  <1> SUFFICES ASSUME NEW u \in Threads
               PROVE  StackOK(stack'[u]) /\ SawOK(stack[u])'
    BY DEF Changed
  <1>1. stack'[u] \in Seq(Frame)
    BY DEF Changed
  <1>2. ASSUME NEW k \in DOMAIN stack'[u]
        PROVE  /\ FrameOK(stack'[u][k]) /\ (stack'[u][k].d = 0 => k = 1)
               /\ stack'[u][k].saw \in {0} \union Range(hist')
    <2>1. CASE k \in DOMAIN stack[u] /\ stack'[u][k] = stack[u][k]
      BY <2>1 DEF TypeInv, StackOK, SawOK
    <2>2. CASE stack'[u][k] \in S /\ (stack'[u][k].d = 0 => k = 1)
      BY <2>2
    <2> QED
      BY <2>1, <2>2 DEF Changed
  <1> QED
    BY <1>1, <1>2 DEF StackOK, SawOK

-----------------------------------------------------------------------------

(* The frames that the actions make *)

LEMMA FreshOK ==
  ASSUME NEW g, NEW d, NEW i, NEW pc, Fresh(g, d, i, pc),
         \/ d = 0 /\ i \in Addresses /\ pc = "load"
         \/ /\ d \in Descs /\ i \in DOMAIN words[d]
            /\ pc \in MwCASPCs \ (CondPCs \union DirtyPCs)
  PROVE  FrameOK(g) /\ g.saw = 0
  BY DEF FrameOK, Fresh, ReadPCs, MwCASPCs, CondPCs, DirtyPCs

LEMMA NextWordFrame ==
  ASSUME NEW f, f.d \in Descs, f.i \in DOMAIN words[f.d],
         NEW p \in MwCASPCs, NEW e \in MwCASPCs, NEW g, g = NextWord(f, p, e)
  PROVE  /\ g.my_status = "Succeeded"
         /\ \/ f.i + 1 \in DOMAIN words[f.d] /\ Fresh(g, f.d, f.i + 1, p)
            \/ f.i = Len(words[f.d]) /\ Fresh(g, f.d, 1, e)
  <1>1. /\ DOMAIN words[f.d] = 1 .. Len(words[f.d]) /\ Len(words[f.d]) \in Nat
        /\ f.d \in 0 .. PoolSize
    BY WordsFacts, ConstantsAssumption DEF Descs, kMaxCount
  <1>2. CASE f.i < Len(words[f.d])
    <2>1. g = FrameAt(f.d, p, f.i + 1)
      BY <1>2 DEF NextWord, FrameAt
    <2>2. f.i + 1 \in Int /\ f.i + 1 \in DOMAIN words[f.d]
      BY <1>1, <1>2
    <2>3. g.my_status = "Succeeded" /\ Fresh(g, f.d, f.i + 1, p)
      <3>1. p \in ReadPCs \union MwCASPCs
        OBVIOUS
      <3> QED
        BY <1>1, <2>1, <2>2, <3>1, FreshAt
    <2> QED
      BY <2>2, <2>3
  <1>3. CASE ~(f.i < Len(words[f.d]))
    BY <1>1, <1>3, FreshMwCAS DEF NextWord
  <1> QED
    BY <1>2, <1>3

LEMMA RetryFrame ==
  ASSUME NEW f, FrameOK(f), NEW g, g = Retry(f)
  PROVE  /\ g.my_status = "Succeeded" /\ FrameOK(g) /\ g \in Frame
         /\ Fresh(g, f.d, f.i, IF f.d = 0 THEN "load" ELSE "condcas")
  <1>1. f.d \in 0 .. PoolSize /\ f.i \in Int
    BY FrameKinds, FrameFields
  <1>2. "load" \in ReadPCs \union MwCASPCs /\ "condcas" \in ReadPCs \union MwCASPCs
    BY DEF ReadPCs, MwCASPCs
  <1>3. /\ g.my_status = "Succeeded"
        /\ Fresh(g, f.d, f.i, IF f.d = 0 THEN "load" ELSE "condcas")
    BY <1>1, <1>2, FreshAt DEF Retry, ReadFrame, FrameAt
  <1>4. FrameOK(g)
    <2>1. "condcas" \in MwCASPCs \ (CondPCs \union DirtyPCs)
      BY DEF MwCASPCs, CondPCs, DirtyPCs
    <2> QED
      BY <1>3, <2>1, FrameKinds, FreshOK
  <1> QED
    BY <1>3, <1>4, FrameKinds

(* A word that is a value or a pointer to another operation, persisted. *)
LEMMA PersistFrame ==
  ASSUME NEW f, FrameOK(f), f.d # 0, NEW r \in Words, r.tag \in {"val", "mwcas"},
         IsDirty(r), NEW g, g = WithRet(f, "persist", r)
  PROVE  /\ FrameOK(g) /\ g.pc = "persist" /\ g.ret = r
         /\ g.d = f.d /\ g.i = f.i /\ g.my_status = f.my_status
         /\ g.desired = f.desired /\ g.new = f.new /\ g.saw = f.saw
  <1>1. "persist" \in MwCASPCs /\ "persist" \notin CondPCs /\ "persist" # "install"
    BY DEF MwCASPCs, CondPCs
  <1>2. /\ g \in Frame /\ g.pc = "persist" /\ g.ret = r
        /\ g.d = f.d /\ g.i = f.i /\ g.my_status = f.my_status
        /\ g.desired = f.desired /\ g.new = f.new /\ g.saw = f.saw
    <2>1. f \in Frame /\ "persist" \in ReadPCs \union MwCASPCs
      BY <1>1, FrameKinds
    <2> QED
      BY <2>1, SetRet
  <1> QED
    BY <1>1, <1>2, FrameKinds DEF FrameOK

(* The words that the code stores, with the dirty flag if the build has it. *)
LEMMA FlaggedPtr ==
  ASSUME NEW d \in Descs
  PROVE  /\ Flag(MwCASPtr(d)) \in Words /\ Flag(MwCASPtr(d)) \in Ptrs(d)
         /\ Flag(MwCASPtr(d)).tag = "mwcas" /\ Flag(MwCASPtr(d)).d = d
         /\ build = "pmem" => IsDirty(Flag(MwCASPtr(d)))
  <1>1. PICK p, q : p = MwCASPtr(d) /\ q = Dirty(p)
    OBVIOUS
  <1>2. p \in Words /\ q \in Words /\ p \in Ptrs(d) /\ q \in Ptrs(d)
    BY <1>1, StoredWords DEF Ptrs
  <1>3. p.tag = "mwcas" /\ p.d = d /\ q.tag = "mwcas" /\ q.d = d /\ IsDirty(q)
    BY <1>1, PtrFields DEF IsDirty
  <1>4. Flag(p) = IF build = "pmem" THEN q ELSE p
    BY <1>1 DEF Flag
  <1> QED
    BY <1>1, <1>2, <1>3, <1>4

LEMMA FlaggedValue ==
  ASSUME NEW d \in Descs, NEW i \in DOMAIN words[d], NEW x \in {Old(d, i), New(d, i)}
  PROVE  /\ x \in Words /\ x.tag = "val" /\ x.dirty = 0 /\ x.v \in Int
         /\ Flag(x) \in Words /\ Flag(x).tag = "val" /\ Flag(x).v = x.v
         /\ build = "pmem" => IsDirty(Flag(x))
  <1>1. PICK v \in Int : x = Val(v)
    BY WordsFacts DEF Old, New
  <1>2. PICK y : y = Dirty(x)
    OBVIOUS
  <1>3. x \in Words /\ y \in Words
    BY <1>2, StoredWords
  <1>4. /\ x.tag = "val" /\ x.dirty = 0 /\ x.v \in Int
        /\ y.tag = "val" /\ y.v = x.v /\ IsDirty(y)
    BY <1>1, <1>2, ValFields DEF IsDirty
  <1>5. Flag(x) = IF build = "pmem" THEN y ELSE x
    BY <1>2 DEF Flag
  <1> QED
    BY <1>3, <1>4, <1>5

LEMMA CondForm ==
  ASSUME NEW x \in Words, x.tag = "cond"
  PROVE  /\ x.d \in Descs /\ x.i \in DOMAIN words[x.d] /\ x = CondPtr(x.d, x.i)
         /\ Desired(x) \in Words
         /\ Desired(x) = (IF Undecided(x.d) THEN Flag(MwCASPtr(x.d)) ELSE Old(x.d, x.i))
         /\ Desired(x).tag \in {"mwcas", "val"}
         /\ Desired(x).tag = "mwcas" => Undecided(x.d) /\ Desired(x) = Flag(MwCASPtr(x.d))
  <1>1. PICK d, i : d = x.d /\ i = x.i
    OBVIOUS
  <1>2. d \in Descs /\ i \in DOMAIN words[d] /\ x = CondPtr(d, i)
    BY <1>1, WordsHaveForm DEF WordForm
  <1>3. PICK p, o : p = Flag(MwCASPtr(d)) /\ o = Old(d, i)
    OBVIOUS
  <1>4. p \in Words /\ p.tag = "mwcas"
    BY <1>2, <1>3, FlaggedPtr
  <1>5. o \in Words /\ o.tag = "val"
    BY <1>2, <1>3, FlaggedValue
  <1>6. Desired(x) = IF Undecided(d) THEN p ELSE o
    BY <1>1, <1>3 DEF Desired, Undecided
  <1> QED
    BY <1>1, <1>2, <1>3, <1>4, <1>5, <1>6

(* A dirty word is a pointer or a value with the flag. *)
LEMMA DirtyForm ==
  ASSUME NEW x \in Words, IsDirty(x)
  PROVE  /\ x.tag \in {"val", "mwcas"} /\ Clean(x) \in Words
         /\ Clean(x).tag = x.tag /\ Clean(x).dirty = 0
         /\ x.tag = "val" => x.v \in Int /\ x = Dirty(Val(x.v)) /\ Clean(x) = Val(x.v)
         /\ x.tag = "mwcas" =>
              x.d \in Descs /\ x = Dirty(MwCASPtr(x.d)) /\ Clean(x) = MwCASPtr(x.d)
  <1>1. WordForm(x) /\ Clean(x) \in Words
    BY WordsHaveForm, CleanedWords
  <1>2. CASE x.tag = "val"
    <2>1. x.v \in Int /\ x = Dirty(Val(x.v))
      BY <1>1, <1>2 DEF WordForm
    <2>2. Clean(x) = Val(x.v) /\ Clean(x).tag = "val" /\ Clean(x).dirty = 0
      BY <2>1, Forms
    <2> QED
      BY <1>1, <1>2, <2>1, <2>2
  <1>3. CASE x.tag = "mwcas"
    <2>1. x.d \in Descs /\ x = Dirty(MwCASPtr(x.d))
      BY <1>1, <1>3 DEF WordForm
    <2>2. Clean(x) = MwCASPtr(x.d) /\ Clean(x).tag = "mwcas" /\ Clean(x).dirty = 0
      BY <2>1, Forms
    <2> QED
      BY <1>1, <1>3, <2>1, <2>2
  <1>4. x.tag # "cond"
    BY <1>1 DEF WordForm, IsDirty
  <1> QED
    BY <1>1, <1>2, <1>3, <1>4 DEF WordForm

LEMMA MwCASForm ==
  ASSUME NEW x \in Words, x.tag = "mwcas"
  PROVE  x.d \in Descs /\ x \in Ptrs(x.d) /\ Clean(x) = MwCASPtr(x.d)
         /\ (~IsDirty(x) => x = MwCASPtr(x.d)) /\ (IsDirty(x) => x = Dirty(MwCASPtr(x.d)))
  <1>1. x.d \in Descs /\ x = IF IsDirty(x) THEN Dirty(MwCASPtr(x.d)) ELSE MwCASPtr(x.d)
    BY WordsHaveForm DEF WordForm
  <1> QED
    BY <1>1, Forms DEF Ptrs

-----------------------------------------------------------------------------

(* What the actions do to the calling thread's frames *)

(* Frame f goes to place p, nothing else of it changes. *)
Moved(g, f, p) ==
  /\ g \in Frame /\ g.pc = p /\ g.d = f.d /\ g.i = f.i /\ g.my_status = f.my_status
  /\ g.ret = f.ret /\ g.desired = f.desired /\ g.new = f.new /\ g.saw = f.saw

LEMMA Current ==
  ASSUME TypeInv, NEW t \in Threads, NEW pc, At(t, pc), NEW f, f = Top(t)
  PROVE  /\ stack[t] # <<>> /\ f.pc = pc /\ f \in Frame /\ FrameOK(f)
         /\ f.saw \in {0} \union Range(hist)
  BY TopFacts DEF At

LEMMA CurrentCall ==
  ASSUME TypeInv, NEW t \in Threads, NEW pc, pc \notin ReadPCs, At(t, pc),
         NEW f, f = Top(t)
  PROVE  /\ stack[t] # <<>> /\ f.pc = pc /\ f \in Frame /\ FrameOK(f)
         /\ f.saw \in {0} \union Range(hist)
         /\ f.d \in Descs /\ f.d # 0 /\ f.i \in DOMAIN words[f.d]
         /\ Addr(f) = words[f.d][f.i].address /\ Addr(f) \in Addresses
  <1>1. /\ stack[t] # <<>> /\ f.pc = pc /\ f \in Frame /\ FrameOK(f)
        /\ f.saw \in {0} \union Range(hist)
    BY Current
  <1> QED
    BY <1>1, FrameKinds

LEMMA GotoMoved ==
  ASSUME TypeInv, NEW t \in Threads, stack[t] # <<>>, NEW f, f = Top(t),
         NEW p \in ReadPCs \union MwCASPCs, Goto(t, WithPC(f, p))
  PROVE  \E g : Moved(g, f, p) /\ Changed({g})
  <1>1. PICK g : g = WithPC(f, p)
    OBVIOUS
  <1>2. f \in Frame
    BY TopFacts
  <1>3. Moved(g, f, p) /\ g \in Frame /\ g.d = Top(t).d
    BY <1>1, <1>2, SetPC DEF Moved
  <1> QED
    BY <1>1, <1>3, GotoChanges

(* The places where a frame needs no word. *)
PlainPCs == MwCASPCs \ (CondPCs \union DirtyPCs)

LEMMA MovedOK ==
  ASSUME NEW f, FrameOK(f), f.d # 0, NEW p \in PlainPCs, NEW g, Moved(g, f, p)
  PROVE  FrameOK(g)
  <1>1. p \in MwCASPCs /\ p \notin CondPCs /\ p \notin DirtyPCs /\ p # "install"
    BY DEF PlainPCs, CondPCs
  <1> QED
    BY <1>1, FrameKinds DEF Moved, FrameOK

(* The frame of a loop over the words goes on, or to the place after it. *)
NextOf(f, p, e) ==
  \E g : /\ Changed({g}) /\ FrameOK(g) /\ g.my_status = "Succeeded"
        /\ \/ f.i + 1 \in DOMAIN words[f.d] /\ Fresh(g, f.d, f.i + 1, p)
           \/ f.i = Len(words[f.d]) /\ Fresh(g, f.d, 1, e)

LEMMA GotoNext ==
  ASSUME TypeInv, NEW t \in Threads, stack[t] # <<>>, NEW f, f = Top(t), f.d # 0,
         NEW p \in PlainPCs, NEW e \in PlainPCs, Goto(t, NextWord(f, p, e))
  PROVE  NextOf(f, p, e)
  <1>1. /\ f.d \in Descs /\ f.i \in DOMAIN words[f.d] /\ 1 \in DOMAIN words[f.d]
    BY TopFacts, FrameKinds, WordsFacts
  <1>2. PICK g : g = NextWord(f, p, e)
    OBVIOUS
  <1>3. p \in MwCASPCs /\ e \in MwCASPCs
    BY DEF PlainPCs
  <1>4. /\ g.my_status = "Succeeded"
        /\ \/ f.i + 1 \in DOMAIN words[f.d] /\ Fresh(g, f.d, f.i + 1, p)
           \/ f.i = Len(words[f.d]) /\ Fresh(g, f.d, 1, e)
    BY <1>1, <1>2, <1>3, NextWordFrame
  <1>5. FrameOK(g)
    BY <1>1, <1>4, FreshOK DEF PlainPCs
  <1>6. g \in Frame /\ g.d = f.d
    BY <1>4 DEF Fresh
  <1>7. Changed({g})
    BY <1>2, <1>6, GotoChanges
  <1> QED
    BY <1>4, <1>5, <1>7 DEF NextOf

LEMMA FlushDescriptorEffect ==
  ASSUME TypeInv, NEW t \in Threads, FlushDescriptor(t), NEW f, f = Top(t)
  PROVE  /\ f.pc = "flush" /\ FrameOK(f) /\ f.d \in Descs
         /\ \E g : Changed({g}) /\ Moved(g, f, "status") /\ FrameOK(g)
  <1>1. stack[t] # <<>> /\ f.pc = "flush" /\ FrameOK(f) /\ f.d \in Descs /\ f.d # 0
    <2>1. At(t, "flush") /\ "flush" \notin ReadPCs
      BY DEF FlushDescriptor, ReadPCs
    <2> QED
      BY <2>1, CurrentCall
  <1>2. Goto(t, WithPC(f, "status"))
    BY DEF FlushDescriptor, WithPC
  <1>3. "status" \in PlainPCs /\ "status" \in ReadPCs \union MwCASPCs
    BY DEF PlainPCs, MwCASPCs, CondPCs, DirtyPCs
  <1> QED
    BY <1>1, <1>2, <1>3, GotoMoved, MovedOK

LEMMA ReadStatusEffect ==
  ASSUME TypeInv, NEW t \in Threads, ReadStatus(t), NEW f, f = Top(t)
  PROVE  /\ f.pc = "status" /\ FrameOK(f) /\ f.d \in Descs
         /\ \E g, p : /\ Changed({g}) /\ Moved(g, f, p) /\ FrameOK(g)
                      /\ p \in {"return", "persist_status_first", "condcas"}
                      /\ p = "return" => ~Undecided(f.d) /\ build = "volatile"
  <1>1. stack[t] # <<>> /\ f.pc = "status" /\ FrameOK(f) /\ f.d \in Descs /\ f.d # 0
    <2>1. At(t, "status") /\ "status" \notin ReadPCs
      BY DEF ReadStatus, ReadPCs
    <2> QED
      BY <2>1, CurrentCall
  <1>2. PICK p : p = IF build = "volatile" /\ status[f.d] # Status("Undecided")
                     THEN "return"
                     ELSE IF IsDirty(status[f.d]) THEN "persist_status_first"
                     ELSE "condcas"
    OBVIOUS
  <1>3. Goto(t, WithPC(f, p))
    BY <1>2 DEF ReadStatus, WithPC
  <1>4. /\ p \in {"return", "persist_status_first", "condcas"}
        /\ p = "return" => ~Undecided(f.d) /\ build = "volatile"
    BY <1>2 DEF Undecided
  <1>5. p \in PlainPCs /\ p \in ReadPCs \union MwCASPCs
    BY <1>4 DEF PlainPCs, MwCASPCs, CondPCs, DirtyPCs
  <1> QED
    BY <1>1, <1>3, <1>4, <1>5, GotoMoved, MovedOK

LEMMA FlushStatusEffect ==
  ASSUME TypeInv, NEW t \in Threads, FlushStatus(t), NEW f, f = Top(t)
  PROVE  /\ FrameOK(f) /\ f.d \in Descs
         /\ \E g, p : /\ Changed({g}) /\ Moved(g, f, p) /\ FrameOK(g)
                      /\ \/ f.pc = "persist_status_first" /\ p = "clean_status_first"
                         \/ f.pc = "persist_status" /\ p = "clean_status"
  <1>1. /\ stack[t] # <<>> /\ FrameOK(f) /\ f.d \in Descs /\ f.d # 0
        /\ f.pc \in {"persist_status_first", "persist_status"}
    <2>1. At(t, "persist_status_first") \/ At(t, "persist_status")
      BY DEF FlushStatus
    <2>2. CASE At(t, "persist_status_first")
      <3>1. "persist_status_first" \notin ReadPCs
        BY DEF ReadPCs
      <3> QED
        BY <2>2, <3>1, CurrentCall
    <2>3. CASE At(t, "persist_status")
      <3>1. "persist_status" \notin ReadPCs
        BY DEF ReadPCs
      <3> QED
        BY <2>3, <3>1, CurrentCall
    <2> QED
      BY <2>1, <2>2, <2>3
  <1>2. PICK p : p = IF f.pc = "persist_status" THEN "clean_status"
                     ELSE "clean_status_first"
    OBVIOUS
  <1>3. Goto(t, WithPC(f, p))
    BY <1>2 DEF FlushStatus, WithPC
  <1>4. p \in PlainPCs /\ p \in ReadPCs \union MwCASPCs
    BY <1>2 DEF PlainPCs, MwCASPCs, CondPCs, DirtyPCs
  <1> QED
    BY <1>1, <1>2, <1>3, <1>4, GotoMoved, MovedOK

LEMMA CleanStatusEffect ==
  ASSUME TypeInv, NEW t \in Threads, CleanStatus(t), NEW f, f = Top(t)
  PROVE  /\ FrameOK(f) /\ f.d \in Descs
         /\ \E g, p : /\ Changed({g}) /\ Moved(g, f, p) /\ FrameOK(g)
                      /\ \/ f.pc = "clean_status_first" /\ p = "condcas"
                         \/ f.pc = "clean_status" /\ p = "swap"
  <1>1. /\ stack[t] # <<>> /\ FrameOK(f) /\ f.d \in Descs /\ f.d # 0
        /\ f.pc \in {"clean_status_first", "clean_status"}
    <2>1. At(t, "clean_status_first") \/ At(t, "clean_status")
      BY DEF CleanStatus
    <2>2. CASE At(t, "clean_status_first")
      <3>1. "clean_status_first" \notin ReadPCs
        BY DEF ReadPCs
      <3> QED
        BY <2>2, <3>1, CurrentCall
    <2>3. CASE At(t, "clean_status")
      <3>1. "clean_status" \notin ReadPCs
        BY DEF ReadPCs
      <3> QED
        BY <2>3, <3>1, CurrentCall
    <2> QED
      BY <2>1, <2>2, <2>3
  <1>2. PICK p : p = IF f.pc = "clean_status" THEN "swap" ELSE "condcas"
    OBVIOUS
  <1>3. Goto(t, WithPC(f, p))
    BY <1>2 DEF CleanStatus, WithPC
  <1>4. p \in PlainPCs /\ p \in ReadPCs \union MwCASPCs
    BY <1>2 DEF PlainPCs, MwCASPCs, CondPCs, DirtyPCs
  <1> QED
    BY <1>1, <1>2, <1>3, <1>4, GotoMoved, MovedOK

(***************************************************************************)
(* What AfterCondCAS leads to: the next word, or the stage after the last; *)
(* another operation's pointer persisted, or that operation helped; or the *)
(* decision that this one has failed.                                      *)
(***************************************************************************)
AfterInstall == IF build = "pmem" THEN "precommit" ELSE "decide"

NextInstall(f, rval) ==
  /\ rval = Old(f.d, f.i) \/ rval \in Ptrs(f.d)
  /\ NextOf(f, "condcas", AfterInstall)

PersistOther(f, rval) ==
  /\ rval.tag = "mwcas" /\ rval.d # f.d /\ IsDirty(rval)
  /\ \E g : /\ Changed({g}) /\ FrameOK(g) /\ g.d = f.d /\ g.i = f.i /\ g.pc = "persist"
            /\ g.ret = rval /\ g.desired = NoWord /\ g.saw = 0

HelpOther(f, rval) ==
  /\ rval = MwCASPtr(rval.d) /\ rval.d \in Descs /\ rval.d # f.d
  /\ \E g, h : /\ Changed({g, h}) /\ FrameOK(g) /\ FrameOK(h)
               /\ Fresh(g, f.d, f.i, IF f.d = 0 THEN "load" ELSE "condcas")
               /\ Fresh(h, rval.d, 1, "status")

GiveUp(f, rval) ==
  /\ rval # Old(f.d, f.i)
  /\ \E g : /\ Changed({g}) /\ FrameOK(g) /\ g.my_status = "Failed"
            /\ Fresh(g, f.d, 1, "decide")

(* A call waits for another operation, which its thread helps. *)
LEMMA HelpEffect ==
  ASSUME TypeInv, NEW t \in Threads, stack[t] # <<>>, NEW f, f = Top(t),
         NEW x \in Words, x.tag = "mwcas",
         NEW g, g = Retry(f), Help(t, g, x.d)
  PROVE  \E h : /\ Changed({g, h}) /\ FrameOK(g) /\ FrameOK(h)
               /\ Fresh(g, f.d, f.i, IF f.d = 0 THEN "load" ELSE "condcas")
               /\ Fresh(h, x.d, 1, "status")
  <1>1. FrameOK(f)
    BY TopFacts
  <1>2. /\ g \in Frame /\ FrameOK(g)
        /\ Fresh(g, f.d, f.i, IF f.d = 0 THEN "load" ELSE "condcas")
    BY <1>1, RetryFrame
  <1>3. x.d \in Descs
    BY MwCASForm
  <1>4. PICK h : h = MwCASFrame(x.d, "status")
    OBVIOUS
  <1>5. Changed({g, h})
    BY <1>2, <1>3, <1>4, HelpChanges DEF Fresh
  <1>6. "status" \in MwCASPCs \ (CondPCs \union DirtyPCs) /\ x.d \in 0 .. PoolSize
        /\ "status" \in ReadPCs \union MwCASPCs
    BY <1>3, ConstantsAssumption DEF MwCASPCs, CondPCs, DirtyPCs, Descs
  <1>7. Fresh(h, x.d, 1, "status")
    BY <1>4, <1>6, FreshMwCAS
  <1>8. FrameOK(h)
    <2>1. 1 \in DOMAIN words[x.d]
      BY <1>3, WordsFacts
    <2> QED
      BY <1>3, <1>6, <1>7, <2>1, FreshOK
  <1> QED
    BY <1>2, <1>5, <1>7, <1>8

LEMMA AfterCondCASEffect ==
  ASSUME TypeInv, NEW t \in Threads, stack[t] # <<>>, NEW f, f = Top(t), f.d # 0,
         NEW rval \in Words, AfterCondCAS(t, f, rval)
  PROVE  \/ NextInstall(f, rval) \/ PersistOther(f, rval) \/ HelpOther(f, rval)
         \/ GiveUp(f, rval)
  <1>1. /\ FrameOK(f) /\ f \in Frame /\ f.d \in Descs /\ f.i \in DOMAIN words[f.d]
        /\ 1 \in DOMAIN words[f.d]
    BY TopFacts, FrameKinds, WordsFacts
  <1>2. CASE rval = Old(f.d, f.i) \/ Clean(rval) = MwCASPtr(f.d)
    <2>1. rval = Old(f.d, f.i) \/ rval \in Ptrs(f.d)
      <3>1. ASSUME Clean(rval) = MwCASPtr(f.d)
            PROVE  rval \in Ptrs(f.d)
        <4>1. rval.tag = "mwcas"
          BY <3>1, CleanTag, PtrFields
        <4>2. rval \in Ptrs(rval.d) /\ MwCASPtr(rval.d) = MwCASPtr(f.d)
          BY <3>1, <4>1, MwCASForm
        <4>3. rval.d = f.d
          BY <4>2, PtrFields
        <4> QED
          BY <4>2, <4>3
      <3> QED
        BY <1>2, <3>1
    <2>2. ~(rval.tag = "mwcas" /\ rval.d # f.d)
      <3>1. rval = Old(f.d, f.i) => rval.tag = "val"
        BY <1>1, FlaggedValue
      <3>2. rval \in Ptrs(f.d) => rval.d = f.d
        BY PtrFields DEF Ptrs
      <3> QED
        BY <2>1, <3>1, <3>2
    <2>3. Goto(t, NextWord(f, "condcas", AfterInstall))
      BY <1>2, <2>2 DEF AfterCondCAS, AfterInstall
    <2>4. "condcas" \in PlainPCs /\ AfterInstall \in PlainPCs
      BY DEF AfterInstall, PlainPCs, MwCASPCs, CondPCs, DirtyPCs
    <2> QED
      BY <1>1, <2>1, <2>3, <2>4, GotoNext DEF NextInstall
  <1>3. CASE /\ ~(rval = Old(f.d, f.i) \/ Clean(rval) = MwCASPtr(f.d))
             /\ rval.tag = "mwcas" /\ rval.d # f.d /\ IsDirty(rval)
    <2>1. PICK r : r = Retry(f)
      OBVIOUS
    <2>2. PICK g : g = WithRet(r, "persist", rval)
      OBVIOUS
    <2>3. Goto(t, g)
      BY <1>3, <2>1, <2>2 DEF AfterCondCAS, WithRet
    <2>4. FrameOK(r) /\ r.d = f.d /\ r.i = f.i /\ r.desired = NoWord /\ r.saw = 0
      BY <1>1, <2>1, RetryFrame DEF Fresh
    <2>5. FrameOK(g) /\ g.d = f.d /\ g.i = f.i /\ g.pc = "persist"
          /\ g.ret = rval /\ g.desired = NoWord /\ g.saw = 0
      <3>1. r.d # 0 /\ rval.tag \in {"val", "mwcas"} /\ IsDirty(rval)
        BY <1>3, <2>4
      <3>2. /\ FrameOK(g) /\ g.pc = "persist" /\ g.ret = rval /\ g.d = r.d /\ g.i = r.i
            /\ g.desired = r.desired /\ g.saw = r.saw
        BY <2>2, <2>4, <3>1, PersistFrame
      <3> QED
        BY <2>4, <3>2
    <2>6. g \in Frame
      BY <2>5, FrameKinds
    <2>7. Changed({g})
      BY <2>3, <2>5, <2>6, GotoChanges
    <2> QED
      BY <1>3, <2>5, <2>7 DEF PersistOther
  <1>4. CASE /\ ~(rval = Old(f.d, f.i) \/ Clean(rval) = MwCASPtr(f.d))
             /\ rval.tag = "mwcas" /\ rval.d # f.d /\ ~IsDirty(rval)
    <2>1. PICK g : g = Retry(f)
      OBVIOUS
    <2>2. Help(t, g, rval.d)
      BY <1>4, <2>1 DEF AfterCondCAS
    <2>3. rval.d \in Descs /\ rval = MwCASPtr(rval.d)
      BY <1>4, MwCASForm
    <2> QED
      BY <1>4, <2>1, <2>2, <2>3, HelpEffect DEF HelpOther
  <1>5. CASE /\ ~(rval = Old(f.d, f.i) \/ Clean(rval) = MwCASPtr(f.d))
             /\ ~(rval.tag = "mwcas" /\ rval.d # f.d)
    <2>1. PICK g : g = FailedFrame(f.d)
      OBVIOUS
    <2>2. Goto(t, g)
      BY <1>5, <2>1 DEF AfterCondCAS, FailedFrame
    <2>3. Fresh(g, f.d, 1, "decide") /\ g.my_status = "Failed"
      BY <1>1, <2>1, FreshFailed
    <2>4. "decide" \in MwCASPCs \ (CondPCs \union DirtyPCs)
      BY DEF MwCASPCs, CondPCs, DirtyPCs
    <2>5. FrameOK(g)
      BY <1>1, <2>3, <2>4, FreshOK
    <2>6. g \in Frame /\ g.d = f.d
      BY <2>3 DEF Fresh
    <2>7. Changed({g})
      BY <2>2, <2>6, GotoChanges
    <2> QED
      BY <1>5, <2>3, <2>5, <2>7 DEF GiveUp
  <1> QED
    BY <1>2, <1>3, <1>4, <1>5

(* A call that deals with a CondCAS pointer. *)
LEMMA CondFrameOK ==
  ASSUME NEW f, FrameOK(f), NEW g \in Frame, g.d = f.d, g.i = f.i, g.pc \in CondPCs,
         g.d = 0 => g.pc \in {"final_status", "install"},
         g.ret \in Words, g.ret.tag = "cond", g.pc = "install" => g.new \in Words
  PROVE  FrameOK(g)
  <1>1. g.pc \in MwCASPCs /\ g.pc \notin DirtyPCs /\ (g.d = 0 => g.pc \in ReadPCs)
    BY DEF CondPCs, MwCASPCs, DirtyPCs, ReadPCs
  <1> QED
    BY <1>1, FrameKinds DEF FrameOK

(* A thread's frame f meets the CondCAS pointer r and goes to place p. *)
Meets(f, r, p) ==
  \E g : /\ Changed({g}) /\ FrameOK(g) /\ g.pc = p /\ g.ret = r
        /\ g.d = f.d /\ g.i = f.i /\ g.desired = f.desired /\ g.saw = f.saw

LEMMA GotoMeets ==
  ASSUME TypeInv, NEW t \in Threads, stack[t] # <<>>, NEW f, f = Top(t), f.d # 0,
         NEW r \in Words, r.tag = "cond", NEW p \in {"final_status", "cond_status"},
         Goto(t, WithRet(f, p, r))
  PROVE  Meets(f, r, p)
  <1>1. f \in Frame /\ FrameOK(f)
    BY TopFacts
  <1>2. p \in ReadPCs \union MwCASPCs /\ p \in CondPCs /\ p # "install"
    BY DEF MwCASPCs, CondPCs
  <1>3. PICK g : g = WithRet(f, p, r)
    OBVIOUS
  <1>4. /\ g \in Frame /\ g.pc = p /\ g.ret = r /\ g.d = f.d /\ g.i = f.i
        /\ g.desired = f.desired /\ g.saw = f.saw
    BY <1>1, <1>2, <1>3, SetRet
  <1>5. FrameOK(g)
    BY <1>1, <1>2, <1>4, CondFrameOK
  <1>6. Changed({g})
    BY <1>3, <1>4, GotoChanges
  <1> QED
    BY <1>4, <1>5, <1>6 DEF Meets

LEMMA CondCASEffect ==
  ASSUME TypeInv, NEW t \in Threads, CondCAS(t), NEW f, f = Top(t), NEW a, a = Addr(f)
  PROVE  /\ f.pc = "condcas" /\ FrameOK(f) /\ f.d \in Descs /\ f.d # 0
         /\ f.i \in DOMAIN words[f.d] /\ a = words[f.d][f.i].address /\ a \in Addresses
         /\ \/ /\ mem[a] = Old(f.d, f.i) /\ Store(a, CondPtr(f.d, f.i))
               /\ Meets(f, CondPtr(f.d, f.i), "final_status")
            \/ /\ UNCHANGED memVars /\ mem[a] # Old(f.d, f.i) /\ mem[a].tag = "cond"
               /\ Meets(f, mem[a], "cond_status")
            \/ /\ UNCHANGED memVars /\ mem[a] # Old(f.d, f.i)
               /\ mem[a].tag \in {"val", "mwcas"}
               /\ \/ NextInstall(f, mem[a]) \/ PersistOther(f, mem[a])
                  \/ HelpOther(f, mem[a]) \/ GiveUp(f, mem[a])
  <1>1. "condcas" \notin ReadPCs /\ At(t, "condcas")
    BY DEF ReadPCs, CondCAS
  <1>2. /\ stack[t] # <<>> /\ f.pc = "condcas" /\ FrameOK(f) /\ f.d \in Descs /\ f.d # 0
        /\ f.i \in DOMAIN words[f.d] /\ a = words[f.d][f.i].address /\ a \in Addresses
    <2>1. PICK pc : pc = "condcas"
      OBVIOUS
    <2>2. pc \notin ReadPCs /\ At(t, pc)
      BY <1>1, <2>1
    <2>3. /\ stack[t] # <<>> /\ f.pc = pc /\ FrameOK(f) /\ f.d \in Descs /\ f.d # 0
          /\ f.i \in DOMAIN words[f.d]
          /\ Addr(f) = words[f.d][f.i].address /\ Addr(f) \in Addresses
      BY <2>2, CurrentCall
    <2> QED
      BY <2>1, <2>3
  <1>3. mem[a] \in Words
    BY <1>2 DEF TypeInv, MemType
  <1>4. PICK cond : cond = CondPtr(f.d, f.i)
    OBVIOUS
  <1>5. cond \in Words /\ cond.tag = "cond"
    <2>1. CondPtr(f.d, f.i) \in Words
      BY <1>2, StoredWords
    <2>2. CondPtr(f.d, f.i).tag = "cond"
      BY CondFields
    <2> QED
      BY <1>4, <2>1, <2>2
  <1>6. PICK ret : ret = mem[a]
    OBVIOUS
  <1>7. /\ CAS(a, Old(f.d, f.i), cond)
        /\ CASE ret = Old(f.d, f.i) -> Goto(t, WithRet(f, "final_status", cond))
             [] ret.tag = "cond" -> Goto(t, WithRet(f, "cond_status", ret))
             [] OTHER -> AfterCondCAS(t, f, ret)
    BY <1>4, <1>6 DEF CondCAS, WithRet
  <1>8. Old(f.d, f.i).tag = "val"
    BY <1>2, FlaggedValue
  <1>9. CASE ret = Old(f.d, f.i)
    <2>1. Store(a, cond) /\ Goto(t, WithRet(f, "final_status", cond))
      BY <1>6, <1>7, <1>8, <1>9 DEF CAS
    <2> QED
      BY <1>2, <1>4, <1>5, <1>6, <1>9, <2>1, GotoMeets
  <1>10. CASE ret # Old(f.d, f.i) /\ ret.tag = "cond"
    <2>1. UNCHANGED memVars /\ Goto(t, WithRet(f, "cond_status", ret))
      BY <1>6, <1>7, <1>10 DEF CAS
    <2> QED
      BY <1>2, <1>3, <1>6, <1>10, <2>1, GotoMeets
  <1>11. CASE ret # Old(f.d, f.i) /\ ret.tag # "cond"
    <2>1. UNCHANGED memVars /\ AfterCondCAS(t, f, ret)
      BY <1>6, <1>7, <1>11 DEF CAS
    <2>2. ret.tag \in {"val", "mwcas"}
      BY <1>3, <1>6, <1>11, WordsHaveForm DEF WordForm
    <2>3. \/ NextInstall(f, ret) \/ PersistOther(f, ret) \/ HelpOther(f, ret) \/ GiveUp(f, ret)
      BY <1>2, <1>3, <1>6, <2>1, AfterCondCASEffect
    <2> QED
      BY <1>2, <1>6, <1>11, <2>1, <2>2, <2>3
  <1> QED
    BY <1>9, <1>10, <1>11

LEMMA CondStatusEffect ==
  ASSUME TypeInv, NEW t \in Threads, CondStatus(t), NEW f, f = Top(t)
  PROVE  /\ f.pc = "cond_status" /\ FrameOK(f) /\ f.d # 0
         /\ \E g : /\ Changed({g}) /\ FrameOK(g) /\ g.pc = "cond_recheck" /\ g.ret = f.ret
                   /\ g.d = f.d /\ g.i = f.i /\ g.desired = Desired(f.ret) /\ g.saw = f.saw
  <1>1. "cond_status" \notin ReadPCs /\ At(t, "cond_status") /\ "cond_status" \in CondPCs
    BY DEF ReadPCs, CondStatus, CondPCs
  <1>2. stack[t] # <<>> /\ f.pc = "cond_status" /\ f \in Frame /\ FrameOK(f) /\ f.d # 0
    BY <1>1, CurrentCall
  <1>3. f.ret \in Words /\ f.ret.tag = "cond" /\ Desired(f.ret) \in Words
    BY <1>1, <1>2, FrameKinds, CondForm
  <1>4. PICK r : r = Desired(f.ret)
    OBVIOUS
  <1>5. PICK g : g = WithDesired(f, "cond_recheck", r)
    OBVIOUS
  <1>6. Goto(t, g)
    BY <1>4, <1>5 DEF CondStatus, WithDesired
  <1>7. "cond_recheck" \in CondPCs /\ "cond_recheck" \in ReadPCs \union MwCASPCs
    BY DEF CondPCs, MwCASPCs
  <1>8. /\ g \in Frame /\ g.pc = "cond_recheck" /\ g.ret = f.ret
        /\ g.d = f.d /\ g.i = f.i /\ g.desired = Desired(f.ret) /\ g.saw = f.saw
    BY <1>2, <1>3, <1>4, <1>5, <1>7, SetDesired
  <1>9. FrameOK(g)
    BY <1>2, <1>3, <1>7, <1>8, CondFrameOK
  <1>10. Changed({g})
    BY <1>2, <1>6, <1>8, GotoChanges
  <1> QED
    BY <1>2, <1>8, <1>9, <1>10

LEMMA CondRecheckEffect ==
  ASSUME TypeInv, NEW t \in Threads, CondRecheck(t), NEW f, f = Top(t)
  PROVE  /\ f.pc = "cond_recheck" /\ FrameOK(f) /\ f.d # 0
         /\ \E g : /\ Changed({g}) /\ FrameOK(g)
                   /\ \/ mem[Addr(f)] = f.ret /\ Moved(g, f, "final_status")
                      \/ Fresh(g, f.d, f.i, "condcas")
  <1>1. "cond_recheck" \notin ReadPCs /\ At(t, "cond_recheck") /\ "cond_recheck" \in CondPCs
    BY DEF ReadPCs, CondRecheck, CondPCs
  <1>2. stack[t] # <<>> /\ f.pc = "cond_recheck" /\ f \in Frame /\ FrameOK(f) /\ f.d # 0
    BY <1>1, CurrentCall
  <1>3. f.ret \in Words /\ f.ret.tag = "cond"
    BY <1>1, <1>2, FrameKinds
  <1>4. CASE mem[Addr(f)] = f.ret
    <2>1. Goto(t, WithPC(f, "final_status"))
      BY <1>4 DEF CondRecheck, WithPC
    <2>2. "final_status" \in ReadPCs \union MwCASPCs /\ "final_status" \in CondPCs
      BY DEF MwCASPCs, CondPCs
    <2>3. PICK g : Moved(g, f, "final_status") /\ Changed({g})
      BY <1>2, <2>1, <2>2, GotoMoved
    <2>4. FrameOK(g)
      BY <1>2, <1>3, <2>2, <2>3, CondFrameOK DEF Moved
    <2> QED
      BY <1>2, <1>4, <2>3, <2>4
  <1>5. CASE mem[Addr(f)] # f.ret
    <2>1. PICK g : g = Retry(f)
      OBVIOUS
    <2>2. Goto(t, g)
      BY <1>5, <2>1 DEF CondRecheck
    <2>3. g \in Frame /\ FrameOK(g) /\ Fresh(g, f.d, f.i, "condcas")
      BY <1>2, <2>1, RetryFrame
    <2>4. Changed({g})
      BY <1>2, <2>2, <2>3, GotoChanges DEF Fresh
    <2> QED
      BY <1>2, <2>3, <2>4
  <1> QED
    BY <1>4, <1>5

LEMMA ReadCondStatusEffect ==
  ASSUME TypeInv, NEW t \in Threads, ReadCondStatus(t), NEW f, f = Top(t)
  PROVE  /\ f.pc = "final_status" /\ FrameOK(f)
         /\ \E g : /\ Changed({g}) /\ FrameOK(g) /\ g.pc = "install" /\ g.ret = f.ret
                   /\ g.d = f.d /\ g.i = f.i /\ g.desired = f.desired
                   /\ g.new = Desired(f.ret) /\ g.saw = f.saw
  <1>1. At(t, "final_status") /\ "final_status" \in CondPCs
    BY DEF ReadCondStatus, CondPCs
  <1>2. stack[t] # <<>> /\ f.pc = "final_status" /\ f \in Frame /\ FrameOK(f)
    BY <1>1, Current
  <1>3. f.ret \in Words /\ f.ret.tag = "cond" /\ Desired(f.ret) \in Words
    BY <1>1, <1>2, FrameKinds, CondForm
  <1>4. PICK r : r = Desired(f.ret)
    OBVIOUS
  <1>5. PICK g : g = WithNew(f, "install", r)
    OBVIOUS
  <1>6. Goto(t, g)
    BY <1>4, <1>5 DEF ReadCondStatus, WithNew
  <1>7. "install" \in CondPCs /\ "install" \in ReadPCs \union MwCASPCs
    BY DEF CondPCs, MwCASPCs
  <1>8. /\ g \in Frame /\ g.pc = "install" /\ g.ret = f.ret /\ g.d = f.d /\ g.i = f.i
        /\ g.desired = f.desired /\ g.new = Desired(f.ret) /\ g.saw = f.saw
    BY <1>2, <1>3, <1>4, <1>5, <1>7, SetNew
  <1>9. FrameOK(g)
    BY <1>2, <1>3, <1>7, <1>8, CondFrameOK
  <1>10. Changed({g})
    BY <1>2, <1>6, <1>8, GotoChanges
  <1> QED
    BY <1>2, <1>8, <1>9, <1>10

LEMMA InstallEffect ==
  ASSUME TypeInv, NEW t \in Threads, InstallOverCond(t), NEW f, f = Top(t)
  PROVE  /\ f.pc = "install" /\ FrameOK(f) /\ CAS(Addr(f), f.ret, f.new)
         /\ \/ f.d # 0 /\ f.desired.tag = "none" /\ NextInstall(f, Old(f.d, f.i))
            \/ /\ f.d # 0 /\ f.desired.tag = "mwcas" /\ mem[Addr(f)] = f.ret
               /\ f.desired \in Words
               /\ \/ NextInstall(f, f.desired) \/ PersistOther(f, f.desired)
                  \/ HelpOther(f, f.desired) \/ GiveUp(f, f.desired)
            \/ \E g : /\ Changed({g}) /\ FrameOK(g)
                      /\ Fresh(g, f.d, f.i, IF f.d = 0 THEN "load" ELSE "condcas")
  <1>1. At(t, "install")
    BY DEF InstallOverCond
  <1>2. stack[t] # <<>> /\ f.pc = "install" /\ f \in Frame /\ FrameOK(f)
    BY <1>1, Current
  <1>3. CAS(Addr(f), f.ret, f.new)
    BY DEF InstallOverCond
  <1>4. CASE f.d # 0 /\ f.desired.tag = "none"
    <2>1. AfterCondCAS(t, f, Old(f.d, f.i))
      BY <1>4 DEF InstallOverCond
    <2>2. Old(f.d, f.i) \in Words /\ Old(f.d, f.i).tag = "val"
      <3>1. f.d \in Descs /\ f.i \in DOMAIN words[f.d]
        BY <1>2, <1>4, FrameKinds
      <3> QED
        BY <3>1, FlaggedValue
    <2>3. PICK old : old = Old(f.d, f.i)
      OBVIOUS
    <2>4. \/ NextInstall(f, old) \/ PersistOther(f, old) \/ HelpOther(f, old)
          \/ GiveUp(f, old)
      BY <1>2, <1>4, <2>1, <2>2, <2>3, AfterCondCASEffect
    <2>5. NextInstall(f, old)
      BY <2>2, <2>3, <2>4, PtrFields DEF PersistOther, HelpOther, GiveUp
    <2> QED
      BY <1>2, <1>3, <1>4, <2>3, <2>5
  <1>5. CASE f.d # 0 /\ f.desired.tag = "mwcas" /\ mem[Addr(f)] = f.ret
    <2>1. AfterCondCAS(t, f, f.desired)
      BY <1>5 DEF InstallOverCond
    <2>2. f.desired \in Words
      BY <1>2, <1>5, FrameFields, Forms
    <2>3. \/ NextInstall(f, f.desired) \/ PersistOther(f, f.desired)
          \/ HelpOther(f, f.desired) \/ GiveUp(f, f.desired)
      BY <1>2, <1>5, <2>1, <2>2, AfterCondCASEffect
    <2> QED
      BY <1>2, <1>3, <1>5, <2>2, <2>3
  <1>6. CASE /\ ~(f.d # 0 /\ f.desired.tag = "none")
             /\ ~(f.d # 0 /\ f.desired.tag = "mwcas" /\ mem[Addr(f)] = f.ret)
    <2>1. PICK g : g = Retry(f)
      OBVIOUS
    <2>2. Goto(t, g)
      BY <1>6, <2>1 DEF InstallOverCond
    <2>3. /\ g \in Frame /\ FrameOK(g)
          /\ Fresh(g, f.d, f.i, IF f.d = 0 THEN "load" ELSE "condcas")
      BY <1>2, <2>1, RetryFrame
    <2>4. Changed({g})
      BY <1>2, <2>2, <2>3, GotoChanges DEF Fresh
    <2> QED
      BY <1>2, <1>3, <2>3, <2>4
  <1> QED
    BY <1>4, <1>5, <1>6

LEMMA PrecommitEffect ==
  ASSUME TypeInv, NEW t \in Threads, Precommit(t), NEW f, f = Top(t)
  PROVE  /\ f.pc = "precommit" /\ FrameOK(f) /\ f.d \in Descs /\ f.d # 0
         /\ \/ /\ mem[Addr(f)] = Dirty(MwCASPtr(f.d))
               /\ \E g : /\ Changed({g}) /\ FrameOK(g) /\ g.pc = "persist"
                         /\ g.ret = Dirty(MwCASPtr(f.d)) /\ g.d = f.d /\ g.i = f.i
                         /\ g.desired = f.desired /\ g.saw = f.saw
            \/ /\ mem[Addr(f)] # Dirty(MwCASPtr(f.d))
               /\ NextOf(f, "precommit", "decide")
  <1>1. "precommit" \notin ReadPCs /\ At(t, "precommit")
    BY DEF ReadPCs, Precommit
  <1>2. /\ stack[t] # <<>> /\ f.pc = "precommit" /\ f \in Frame /\ FrameOK(f)
        /\ f.d \in Descs /\ f.d # 0
    BY <1>1, CurrentCall
  <1>3. PICK r : r = Dirty(MwCASPtr(f.d))
    OBVIOUS
  <1>4. r \in Words /\ r.tag \in {"val", "mwcas"} /\ IsDirty(r)
    <2>1. r \in Words
      BY <1>2, <1>3, StoredWords
    <2>2. r.tag = "mwcas" /\ IsDirty(r)
      BY <1>3, PtrFields DEF IsDirty
    <2> QED
      BY <2>1, <2>2
  <1>5. CASE mem[Addr(f)] = r
    <2>1. PICK g : g = WithRet(f, "persist", r)
      OBVIOUS
    <2>2. Goto(t, g)
      BY <1>3, <1>5, <2>1 DEF Precommit, WithRet
    <2>3. /\ FrameOK(g) /\ g.pc = "persist" /\ g.ret = r /\ g.d = f.d /\ g.i = f.i
          /\ g.desired = f.desired /\ g.saw = f.saw
      BY <1>2, <1>4, <2>1, PersistFrame
    <2>4. Changed({g})
      BY <1>2, <2>2, <2>3, GotoChanges, FrameKinds
    <2> QED
      BY <1>2, <1>3, <1>5, <2>3, <2>4
  <1>6. CASE mem[Addr(f)] # r
    <2>1. Goto(t, NextWord(f, "precommit", "decide"))
      BY <1>3, <1>6 DEF Precommit
    <2>2. "precommit" \in PlainPCs /\ "decide" \in PlainPCs
      BY DEF PlainPCs, MwCASPCs, CondPCs, DirtyPCs
    <2> QED
      BY <1>2, <1>3, <1>6, <2>1, <2>2, GotoNext
  <1> QED
    BY <1>5, <1>6

LEMMA DecideEffect ==
  ASSUME TypeInv, NEW t \in Threads, Decide(t), NEW f, f = Top(t)
  PROVE  /\ f.pc = "decide" /\ FrameOK(f) /\ f.d \in Descs /\ f.d # 0
         /\ f.my_status \in {"Succeeded", "Failed"}
         /\ \E g : Changed({g}) /\ FrameOK(g) /\ Fresh(g, f.d, 1, AfterDecision)
  <1>1. "decide" \notin ReadPCs /\ At(t, "decide")
    BY DEF ReadPCs, Decide
  <1>2. /\ stack[t] # <<>> /\ f.pc = "decide" /\ f \in Frame /\ FrameOK(f)
        /\ f.d \in Descs /\ f.d # 0
    BY <1>1, CurrentCall
  <1>3. f.my_status \in {"Succeeded", "Failed"} /\ f.d \in 0 .. PoolSize
    BY <1>2, FrameFields
  <1>4. PICK g : g = MwCASFrame(f.d, AfterDecision)
    OBVIOUS
  <1>5. Goto(t, g)
    BY <1>4 DEF Decide
  <1>6. AfterDecision \in MwCASPCs \ (CondPCs \union DirtyPCs)
    BY DEF AfterDecision, MwCASPCs, CondPCs, DirtyPCs
  <1>7. Fresh(g, f.d, 1, AfterDecision)
    BY <1>3, <1>4, <1>6, FreshMwCAS
  <1>8. FrameOK(g) /\ 1 \in DOMAIN words[f.d]
    BY <1>2, <1>6, <1>7, FreshOK, WordsFacts
  <1>9. Changed({g})
    BY <1>2, <1>5, <1>7, GotoChanges DEF Fresh
  <1> QED
    BY <1>2, <1>3, <1>7, <1>8, <1>9

(* The final value of a word, as the status says. *)
Final(d, i) == IF status[d].s = "Succeeded" THEN New(d, i) ELSE Old(d, i)

LEMMA SwapEffect ==
  ASSUME TypeInv, NEW t \in Threads, Swap(t), NEW f, f = Top(t),
         NEW val, val = Flag(Final(f.d, f.i))
  PROVE  /\ f.pc \in {"swap", "swap_clean"} /\ FrameOK(f) /\ f.d \in Descs /\ f.d # 0
         /\ val \in Words /\ val.tag = "val"
         /\ CAS(Addr(f), IF f.pc = "swap" THEN Flag(MwCASPtr(f.d)) ELSE MwCASPtr(f.d), val)
         /\ \/ build = "volatile" /\ NextOf(f, "swap", "return")
            \/ /\ f.pc = "swap" /\ mem[Addr(f)] = MwCASPtr(f.d)
               /\ \E g : Changed({g}) /\ FrameOK(g) /\ Moved(g, f, "swap_clean")
            \/ /\ build = "pmem" /\ ~(f.pc = "swap" /\ mem[Addr(f)] = MwCASPtr(f.d))
               /\ Meets(f, val, "persist")
  <1>1. /\ stack[t] # <<>> /\ f.pc \in {"swap", "swap_clean"} /\ f \in Frame /\ FrameOK(f)
        /\ f.d \in Descs /\ f.d # 0 /\ f.i \in DOMAIN words[f.d]
    <2>1. At(t, "swap") \/ At(t, "swap_clean")
      BY DEF Swap
    <2>2. "swap" \notin ReadPCs /\ "swap_clean" \notin ReadPCs
      BY DEF ReadPCs
    <2>3. CASE At(t, "swap")
      BY <2>2, <2>3, CurrentCall
    <2>4. CASE At(t, "swap_clean")
      BY <2>2, <2>4, CurrentCall
    <2> QED
      BY <2>1, <2>3, <2>4
  <1>2. val \in Words /\ val.tag = "val" /\ (build = "pmem" => IsDirty(val))
    <2>1. PICK final : final = Final(f.d, f.i)
      OBVIOUS
    <2>2. final \in {Old(f.d, f.i), New(f.d, f.i)} /\ val = Flag(final)
      BY <2>1 DEF Final
    <2>3. f.d \in Descs /\ f.i \in DOMAIN words[f.d]
      BY <1>1
    <2> QED
      BY <2>2, <2>3, FlaggedValue
  <1>3. CAS(Addr(f), IF f.pc = "swap" THEN Flag(MwCASPtr(f.d)) ELSE MwCASPtr(f.d), val)
    BY DEF Swap, Final
  <1>4. build \in {"pmem", "volatile"}
    BY DEF TypeInv
  <1>5. CASE build = "volatile"
    <2>1. Goto(t, NextWord(f, "swap", "return"))
      BY <1>5 DEF Swap
    <2>2. "swap" \in PlainPCs /\ "return" \in PlainPCs
      BY DEF PlainPCs, MwCASPCs, CondPCs, DirtyPCs
    <2> QED
      BY <1>1, <1>2, <1>3, <1>5, <2>1, <2>2, GotoNext
  <1>6. CASE build = "pmem" /\ f.pc = "swap" /\ mem[Addr(f)] = MwCASPtr(f.d)
    <2>1. Goto(t, WithPC(f, "swap_clean"))
      BY <1>6 DEF Swap, WithPC
    <2>2. "swap_clean" \in PlainPCs /\ "swap_clean" \in ReadPCs \union MwCASPCs
      BY DEF PlainPCs, MwCASPCs, CondPCs, DirtyPCs
    <2>3. PICK g : Moved(g, f, "swap_clean") /\ Changed({g})
      BY <1>1, <2>1, <2>2, GotoMoved
    <2>4. FrameOK(g)
      BY <1>1, <2>2, <2>3, MovedOK
    <2> QED
      BY <1>1, <1>2, <1>3, <1>6, <2>3, <2>4
  <1>7. CASE build = "pmem" /\ ~(f.pc = "swap" /\ mem[Addr(f)] = MwCASPtr(f.d))
    <2>1. PICK g : g = WithRet(f, "persist", val)
      OBVIOUS
    <2>2. Goto(t, g)
      BY <1>7, <2>1 DEF Swap, WithRet, Final
    <2>3. /\ FrameOK(g) /\ g.pc = "persist" /\ g.ret = val /\ g.d = f.d /\ g.i = f.i
          /\ g.desired = f.desired /\ g.saw = f.saw
      <3>1. FrameOK(f) /\ f.d # 0
        BY <1>1
      <3>2. val \in Words /\ val.tag \in {"val", "mwcas"} /\ IsDirty(val)
        BY <1>2, <1>7
      <3> QED
        BY <2>1, <3>1, <3>2, PersistFrame
    <2>4. Changed({g})
      <3>1. stack[t] # <<>> /\ g.d = Top(t).d
        BY <1>1, <2>3
      <3>2. g \in Frame
        BY <2>3 DEF FrameOK
      <3> QED
        BY <2>2, <3>1, <3>2, GotoChanges
    <2>5. Meets(f, val, "persist")
      BY <2>3, <2>4 DEF Meets
    <2> QED
      BY <1>1, <1>2, <1>3, <1>7, <2>5
  <1> QED
    BY <1>4, <1>5, <1>6, <1>7

(* A read finds a CondCAS pointer or a dirty word r. *)
Finds(f, r) ==
  \E g : /\ Changed({g}) /\ FrameOK(g) /\ g.d = 0 /\ g.i = f.i
        /\ g.pc = (IF r.tag = "cond" THEN "final_status" ELSE "persist")
        /\ g.ret = r /\ g.desired = f.desired /\ g.saw = LastWriter(f.i)

LEMMA LoadEffect ==
  ASSUME TypeInv, NEW t \in Threads, Load(t), NEW f, f = Top(t),
         NEW val, val = mem[f.i]
  PROVE  /\ f.pc = "load" /\ FrameOK(f) /\ f.d = 0 /\ f.i \in Addresses /\ val \in Words
         /\ \/ /\ \/ val.tag = "cond"
                  \/ val.tag # "cond" /\ IsDirty(val)
               /\ UNCHANGED acked /\ Finds(f, val)
            \/ /\ val = MwCASPtr(val.d) /\ val.d \in Descs /\ UNCHANGED acked
               /\ \E h : Changed({f, h}) /\ FrameOK(h) /\ Fresh(h, val.d, 1, "status")
            \/ /\ val.tag = "val" /\ ~IsDirty(val) /\ Changed({})
               /\ acked' = acked \union ({LastWriter(f.i)} \ {0})
  <1>1. At(t, "load")
    BY DEF Load
  <1>2. /\ stack[t] # <<>> /\ f.pc = "load" /\ f \in Frame /\ FrameOK(f)
        /\ f.d = 0 /\ f.i \in Addresses
    BY <1>1, Current, FrameKinds
  <1>3. val \in Words
    BY <1>2 DEF TypeInv, MemType
  <1>4. LastWriter(f.i) \in 0 .. PoolSize
    BY LastOfType DEF TypeInv, LastWriter
  <1>5. PICK lw : lw = LastWriter(f.i)
    OBVIOUS
  <1>6. PICK r : r = WithSaw(f, val, lw)
    OBVIOUS
  <1>7. /\ r \in Frame /\ r.ret = val /\ r.saw = lw /\ r.d = 0 /\ r.i = f.i
        /\ r.desired = f.desired
    BY <1>2, <1>3, <1>4, <1>5, <1>6, SetSaw
  <1>8. /\ CASE val.tag = "cond" -> Goto(t, WithPC(r, "final_status")) /\ UNCHANGED acked
             [] val.tag # "cond" /\ IsDirty(val) ->
                  Goto(t, WithPC(r, "persist")) /\ UNCHANGED acked
             [] val.tag = "mwcas" /\ ~IsDirty(val) -> Help(t, f, val.d) /\ UNCHANGED acked
             [] OTHER -> ReturnValue(t, r.saw)
    BY <1>5, <1>6 DEF Load, WithPC, WithSaw
  <1>9. CASE val.tag = "cond" \/ (val.tag # "cond" /\ IsDirty(val))
    <2>1. PICK p : p = IF val.tag = "cond" THEN "final_status" ELSE "persist"
      OBVIOUS
    <2>2. PICK g : g = WithPC(r, p)
      OBVIOUS
    <2>3. Goto(t, g) /\ UNCHANGED acked
      BY <1>8, <1>9, <2>1, <2>2
    <2>4. p \in ReadPCs \union MwCASPCs /\ p \in ReadPCs
      BY <2>1 DEF ReadPCs
    <2>5. /\ g \in Frame /\ g.pc = p /\ g.d = 0 /\ g.i = f.i /\ g.ret = val /\ g.saw = lw
          /\ g.desired = f.desired
      BY <1>7, <2>2, <2>4, SetPC
    <2>6. FrameOK(g)
      <3>1. val.tag # "cond" => val.tag \in {"val", "mwcas"} /\ IsDirty(val)
        BY <1>3, <1>9, DirtyForm
      <3>2. (p \in CondPCs => val.tag = "cond") /\ (p \in DirtyPCs => val.tag # "cond")
            /\ p # "install"
        BY <2>1 DEF CondPCs, DirtyPCs
      <3> QED
        BY <1>2, <1>3, <2>4, <2>5, <3>1, <3>2 DEF FrameOK
    <2>7. Changed({g})
      BY <1>2, <2>3, <2>5, GotoChanges
    <2>8. Finds(f, val)
      BY <1>5, <2>1, <2>5, <2>6, <2>7 DEF Finds
    <2> QED
      BY <1>2, <1>3, <1>9, <2>3, <2>8
  <1>10. CASE val.tag = "mwcas" /\ ~IsDirty(val)
    <2>1. Help(t, f, val.d) /\ UNCHANGED acked
      BY <1>8, <1>10
    <2>2. val.d \in Descs /\ val = MwCASPtr(val.d)
      BY <1>3, <1>10, MwCASForm
    <2>3. PICK h : h = MwCASFrame(val.d, "status")
      OBVIOUS
    <2>4. Changed({f, h})
      BY <1>2, <2>1, <2>2, <2>3, HelpChanges
    <2>5. /\ "status" \in MwCASPCs \ (CondPCs \union DirtyPCs) /\ val.d \in 0 .. PoolSize
          /\ "status" \in ReadPCs \union MwCASPCs
      BY <2>2, ConstantsAssumption DEF MwCASPCs, CondPCs, DirtyPCs, Descs
    <2>6. Fresh(h, val.d, 1, "status")
      BY <2>3, <2>5, FreshMwCAS
    <2>7. FrameOK(h)
      <3>1. 1 \in DOMAIN words[val.d]
        BY <2>2, WordsFacts
      <3> QED
        BY <2>2, <2>5, <2>6, <3>1, FreshOK
    <2> QED
      BY <1>2, <1>3, <2>1, <2>2, <2>4, <2>6, <2>7
  <1>11. CASE val.tag # "cond" /\ ~IsDirty(val) /\ val.tag # "mwcas"
    <2>1. ReturnValue(t, lw)
      BY <1>7, <1>8, <1>11
    <2>2. Changed({}) /\ acked' = acked \union ({lw} \ {0})
      BY <2>1, ReturnChanges DEF ReturnValue
    <2>3. val.tag = "val"
      BY <1>3, <1>11, WordsHaveForm DEF WordForm
    <2> QED
      BY <1>2, <1>3, <1>5, <1>11, <2>2, <2>3
  <1> QED
    BY <1>9, <1>10, <1>11

LEMMA FlushWordEffect ==
  ASSUME TypeInv, NEW t \in Threads, FlushWord(t), NEW f, f = Top(t)
  PROVE  /\ f.pc = "persist" /\ FrameOK(f)
         /\ \E g : Changed({g}) /\ FrameOK(g) /\ Moved(g, f, "clean")
  <1>1. At(t, "persist")
    BY DEF FlushWord
  <1>2. stack[t] # <<>> /\ f.pc = "persist" /\ f \in Frame /\ FrameOK(f)
    BY <1>1, Current
  <1>3. Goto(t, WithPC(f, "clean"))
    BY DEF FlushWord, WithPC
  <1>4. "clean" \in ReadPCs \union MwCASPCs
    BY DEF ReadPCs
  <1>5. PICK g : Moved(g, f, "clean") /\ Changed({g})
    BY <1>2, <1>3, <1>4, GotoMoved
  <1>6. FrameOK(g)
    <2>1. /\ "persist" \in DirtyPCs /\ "clean" \in ReadPCs /\ "clean" \in MwCASPCs
          /\ "clean" \notin CondPCs /\ "clean" # "install"
      BY DEF DirtyPCs, ReadPCs, MwCASPCs, CondPCs
    <2> QED
      BY <1>2, <1>5, <2>1, FrameKinds DEF FrameOK, Moved
  <1> QED
    BY <1>2, <1>5, <1>6

LEMMA CleanWordEffect ==
  ASSUME TypeInv, NEW t \in Threads, CleanWord(t), NEW f, f = Top(t)
  PROVE  /\ f.pc = "clean" /\ FrameOK(f) /\ CAS(Addr(f), f.ret, Clean(f.ret))
         /\ \/ /\ f.ret.tag = "mwcas" /\ f.ret.d \in Descs /\ f.ret.d # f.d
               /\ UNCHANGED acked
               /\ \E g, h : /\ Changed({g, h}) /\ FrameOK(g) /\ FrameOK(h)
                            /\ Fresh(g, f.d, f.i, IF f.d = 0 THEN "load" ELSE "condcas")
                            /\ Fresh(h, f.ret.d, 1, "status")
            \/ /\ f.ret.tag = "mwcas" /\ f.ret.d = f.d /\ f.d # 0 /\ UNCHANGED acked
               /\ NextOf(f, "precommit", "decide")
            \/ /\ f.ret.tag = "val" /\ f.d # 0 /\ UNCHANGED acked
               /\ NextOf(f, "swap", "return")
            \/ /\ f.ret.tag = "val" /\ f.d = 0 /\ Changed({})
               /\ acked' = acked \union ({f.saw} \ {0})
  <1>1. At(t, "clean") /\ "clean" \in DirtyPCs
    BY DEF CleanWord, DirtyPCs
  <1>2. stack[t] # <<>> /\ f.pc = "clean" /\ f \in Frame /\ FrameOK(f)
    BY <1>1, Current
  <1>3. f.ret \in Words /\ f.ret.tag \in {"val", "mwcas"}
    BY <1>1, <1>2, FrameKinds
  <1>4. CAS(Addr(f), f.ret, Clean(f.ret))
    BY DEF CleanWord
  <1>5. f.ret.tag = "mwcas" => f.ret.d \in Descs /\ f.ret.d # 0
    BY <1>3, MwCASForm DEF Descs
  <1>6. PICK r : r = f.ret
    OBVIOUS
  <1>7. /\ CASE r.tag = "mwcas" /\ r.d # f.d -> Help(t, Retry(f), r.d) /\ UNCHANGED acked
             [] r.tag = "mwcas" /\ r.d = f.d ->
                  Goto(t, NextWord(f, "precommit", "decide")) /\ UNCHANGED acked
             [] r.tag = "val" /\ f.d # 0 ->
                  Goto(t, NextWord(f, "swap", "return")) /\ UNCHANGED acked
             [] OTHER -> ReturnValue(t, f.saw)
    BY <1>6 DEF CleanWord
  <1>8. CASE r.tag = "mwcas" /\ r.d # f.d
    <2>1. PICK g : g = Retry(f)
      OBVIOUS
    <2>2. Help(t, g, r.d) /\ UNCHANGED acked
      BY <1>7, <1>8, <2>1
    <2> QED
      BY <1>2, <1>3, <1>4, <1>5, <1>6, <1>8, <2>1, <2>2, HelpEffect
  <1>9. CASE r.tag = "mwcas" /\ r.d = f.d
    <2>1. Goto(t, NextWord(f, "precommit", "decide")) /\ UNCHANGED acked
      BY <1>7, <1>9
    <2>2. "precommit" \in PlainPCs /\ "decide" \in PlainPCs
      BY DEF PlainPCs, MwCASPCs, CondPCs, DirtyPCs
    <2>3. f.d # 0
      BY <1>5, <1>6, <1>9
    <2>4. NextOf(f, "precommit", "decide")
      BY <1>2, <2>1, <2>2, <2>3, GotoNext
    <2> QED
      BY <1>2, <1>4, <1>6, <1>9, <2>1, <2>3, <2>4
  <1>10. CASE r.tag = "val" /\ f.d # 0
    <2>1. Goto(t, NextWord(f, "swap", "return")) /\ UNCHANGED acked
      BY <1>7, <1>10
    <2>2. "swap" \in PlainPCs /\ "return" \in PlainPCs
      BY DEF PlainPCs, MwCASPCs, CondPCs, DirtyPCs
    <2>3. NextOf(f, "swap", "return")
      BY <1>2, <1>10, <2>1, <2>2, GotoNext
    <2> QED
      BY <1>2, <1>4, <1>6, <1>10, <2>1, <2>3
  <1>11. CASE r.tag = "val" /\ f.d = 0
    <2>1. ReturnValue(t, f.saw)
      BY <1>7, <1>11
    <2>2. Changed({}) /\ acked' = acked \union ({f.saw} \ {0})
      BY <2>1, ReturnChanges DEF ReturnValue
    <2> QED
      BY <1>2, <1>4, <1>6, <1>11, <2>2
  <1> QED
    BY <1>3, <1>6, <1>8, <1>9, <1>10, <1>11

LEMMA ReturnEffect ==
  ASSUME TypeInv, NEW t \in Threads,
         ReturnOwner(t) \/ ReturnHelper(t) \/ ReturnWithFailure(t)
  PROVE  Changed({})
  BY ReturnChanges DEF ReturnOwner, ReturnHelper, ReturnWithFailure, At

LEMMA BeginMwCASEffect ==
  ASSUME TypeInv, NEW t \in Threads, BeginMwCAS(t), NEW d, d = Script[t][next[t]].d
  PROVE  /\ d \in Descs /\ next[t] \in DOMAIN Script[t]
         /\ Script[t][next[t]].op = "mwcas"
         /\ next' \in [Threads -> Nat \ {0}] /\ next' = [next EXCEPT ![t] = @ + 1]
         /\ \E g : /\ Changed({g}) /\ FrameOK(g)
                   /\ Fresh(g, d, 1, IF build = "pmem" THEN "flush" ELSE "status")
  <1>1. /\ next[t] <= Len(Script[t]) /\ Script[t][next[t]].op = "mwcas"
        /\ next' = [next EXCEPT ![t] = @ + 1]
    BY DEF BeginMwCAS, Begin
  <1>2. next \in [Threads -> Nat \ {0}]
    BY DEF TypeInv
  <1>3. Script[t] \in Seq(Operations)
    BY ScriptAssumption
  <1>4. next[t] \in DOMAIN Script[t] /\ Script[t][next[t]] \in Operations
    BY <1>1, <1>2, <1>3
  <1>5. d \in Descs
    BY <1>1, <1>4 DEF Operations
  <1>6. PICK p : p = IF build = "pmem" THEN "flush" ELSE "status"
    OBVIOUS
  <1>7. PICK g : g = MwCASFrame(d, p)
    OBVIOUS
  <1>8. stack' = [stack EXCEPT ![t] = <<g>>]
    BY <1>6, <1>7 DEF BeginMwCAS, Begin
  <1>9. p \in MwCASPCs \ (CondPCs \union DirtyPCs) /\ d \in 0 .. PoolSize
    BY <1>5, <1>6, ConstantsAssumption DEF MwCASPCs, CondPCs, DirtyPCs, Descs
  <1>10. Fresh(g, d, 1, p)
    BY <1>7, <1>9, FreshMwCAS
  <1>11. FrameOK(g)
    <2>1. 1 \in DOMAIN words[d]
      BY <1>5, WordsFacts
    <2> QED
      BY <1>5, <1>9, <1>10, <2>1, FreshOK
  <1>12. Changed({g})
    BY <1>8, <1>10, BeginChanges DEF Fresh
  <1>13. next' \in [Threads -> Nat \ {0}]
    BY <1>1, <1>2
  <1> QED
    BY <1>1, <1>4, <1>5, <1>6, <1>10, <1>11, <1>12, <1>13

LEMMA BeginReadEffect ==
  ASSUME TypeInv, NEW t \in Threads, BeginRead(t)
  PROVE  /\ next' \in [Threads -> Nat \ {0}] /\ next' = [next EXCEPT ![t] = @ + 1]
         /\ \E g : Changed({g}) /\ FrameOK(g) /\ Fresh(g, 0, g.i, "load")
  <1>1. /\ next[t] <= Len(Script[t]) /\ Script[t][next[t]].op = "read"
        /\ next' = [next EXCEPT ![t] = @ + 1]
    BY DEF BeginRead, Begin
  <1>2. next \in [Threads -> Nat \ {0}]
    BY DEF TypeInv
  <1>3. Script[t] \in Seq(Operations)
    BY ScriptAssumption
  <1>4. Script[t][next[t]] \in Operations
    BY <1>1, <1>2, <1>3
  <1>5. PICK a : a = Script[t][next[t]].a
    OBVIOUS
  <1>6. a \in Addresses /\ a \in Int
    BY <1>1, <1>4, <1>5, ConstantsAssumption DEF Operations
  <1>7. PICK g : g = FrameAt(0, "load", a)
    OBVIOUS
  <1>8. stack' = [stack EXCEPT ![t] = <<g>>]
    BY <1>5, <1>7 DEF BeginRead, Begin, ReadFrame, FrameAt
  <1>9. "load" \in ReadPCs \union MwCASPCs /\ 0 \in 0 .. PoolSize
    BY ConstantsAssumption DEF ReadPCs
  <1>10. Fresh(g, 0, a, "load")
    BY <1>6, <1>7, <1>9, FreshAt
  <1>11. FrameOK(g)
    BY <1>6, <1>10, FreshOK
  <1>12. Changed({g})
    BY <1>8, <1>10, BeginChanges DEF Fresh
  <1>13. next' \in [Threads -> Nat \ {0}]
    BY <1>1, <1>2
  <1>14. Fresh(g, 0, g.i, "load")
    BY <1>10 DEF Fresh
  <1> QED
    BY <1>1, <1>11, <1>12, <1>13, <1>14

LEMMA DecidedStatus ==
  ASSUME NEW s \in States
  PROVE  /\ Flag(Status(s)) \in [s : States, dirty : 0 .. 1] /\ Flag(Status(s)).s = s
         /\ Flag(Status(s)) \in {Status(s), Dirty(Status(s))}
  BY StatusForms DEF Flag

LEMMA AppendRange ==
  ASSUME NEW seq \in Seq(Descs), NEW d \in Descs
  PROVE  Range(Append(seq, d)) = Range(seq) \union {d} /\ Append(seq, d) \in Seq(Descs)
  <1>1. PICK new : new = Append(seq, d)
    OBVIOUS
  <1>2. /\ new \in Seq(Descs) /\ Len(new) = Len(seq) + 1 /\ Len(seq) \in Nat
        /\ DOMAIN new = 1 .. Len(seq) + 1 /\ DOMAIN seq = 1 .. Len(seq)
        /\ \A k \in 1 .. Len(seq) : new[k] = seq[k]
        /\ new[Len(seq) + 1] = d
    BY <1>1
  <1>3. Range(new) \subseteq Range(seq) \union {d}
    BY <1>2 DEF Range
  <1>4. Range(seq) \subseteq Range(new)
    BY <1>2 DEF Range
  <1>5. d \in Range(new)
    BY <1>2 DEF Range
  <1> QED
    BY <1>1, <1>2, <1>3, <1>4, <1>5

-----------------------------------------------------------------------------

(* What the invariant says of one operation and one call *)

LEMMA StatusCases ==
  ASSUME StatusInv, NEW d \in Descs
  PROVE  /\ Active(d) => Undecided(d) \/ Decided(d)
         /\ Undecided(d) => Active(d) /\ ~Decided(d)
         /\ Decided(d) => Active(d)
         /\ ~Active(d) => status[d] = Status("Finished")
  BY StatusForms DEF StatusInv, Active, Undecided, Decided

LEMMA PtrForms ==
  ASSUME NEW d, NEW x \in Ptrs(d)
  PROVE  x.tag = "mwcas" /\ x.d = d
  BY Forms DEF Ptrs

LEMMA Here ==
  ASSUME OpInv, NEW t \in Threads, stack[t] # <<>>, NEW f, f = Top(t)
  PROVE  FrameOK(f) /\ FrameInv(f)
  <1>1. f = stack[t][Len(stack[t])] /\ Len(stack[t]) \in DOMAIN stack[t] /\ FrameOK(f)
    BY TopFacts DEF OpInv
  <1>2. FrameInv(f)
    BY <1>1 DEF OpInv, FramesInv, Range
  <1> QED
    BY <1>1, <1>2

(* A step that decides an operation finds what its call knows. *)
LEMMA DecideFinds ==
  ASSUME OpInv, NEW t \in Threads, Decide(t), NEW f, f = Top(t), Undecided(f.d),
         f.my_status = "Succeeded"
  PROVE  \A j \in DOMAIN words[f.d] : Installed(f.d, j) /\ Persisted(f.d, j)
  <1>1. stack[t] # <<>> /\ f.pc = "decide"
    BY DEF Decide, At
  <1>2. TypeInv
    BY DEF OpInv
  <1>3. f.d # 0
    BY <1>2, DecideEffect
  <1>4. FrameInv(f)
    BY <1>1, Here
  <1> QED
    BY <1>1, <1>3, <1>4 DEF FrameInv, CallInv

-----------------------------------------------------------------------------

(* Replaying the history *)

(* What Replay amounts to: the new value of the last writer, or the first value. *)
Yields(seq, done, a, v) ==
  \/ /\ v = InitValue[a]
     /\ \A k \in DOMAIN seq : seq[k] \in done => ~Targets(seq[k], a)
  \/ \E k \in DOMAIN seq : \E i \in DOMAIN words[seq[k]] :
       /\ seq[k] \in done /\ words[seq[k]][i].address = a /\ v = words[seq[k]][i].new
       /\ \A m \in DOMAIN seq : seq[m] \in done /\ Targets(seq[m], a) => m <= k

(* A history in which those outside done come last on all their words. *)
Revocable(seq, done) ==
  \A k \in DOMAIN seq : seq[k] \notin done =>
    \A j \in DOMAIN seq : j > k => \A a \in Addresses : Targets(seq[k], a) => ~Targets(seq[j], a)

LEMMA ReplayYields ==
  ASSUME NEW seq \in Seq(Descs), NEW done, NEW a \in Addresses, Lasts(seq)
  PROVE  Yields(seq, done, a, Replay(seq, done)[a])
  <1>1. Replay(seq, done)[a] =
          IF LastOf(seq, done, a) = 0 THEN InitValue[a]
          ELSE EntryAt(LastOf(seq, done, a), a).new
    BY DEF Replay, EntryAt
  <1>2. CASE /\ LastOf(seq, done, a) = 0
             /\ \A k \in DOMAIN seq : seq[k] \in done => ~Targets(seq[k], a)
    BY <1>1, <1>2 DEF Yields
  <1>3. ASSUME NEW k \in DOMAIN seq, LastOf(seq, done, a) = seq[k], seq[k] \in done,
               Targets(seq[k], a),
               \A m \in DOMAIN seq : seq[m] \in done /\ Targets(seq[m], a) => m <= k
        PROVE  Yields(seq, done, a, Replay(seq, done)[a])
    <2>1. PICK i \in DOMAIN words[seq[k]] : words[seq[k]][i].address = a
      BY <1>3 DEF Targets
    <2>2. seq[k] \in Descs /\ seq[k] # 0
      BY ConstantsAssumption DEF Descs
    <2>3. EntryAt(seq[k], a) = words[seq[k]][i]
      BY <2>1, <2>2, EntryOf DEF EntryAt
    <2>4. Replay(seq, done)[a] = words[seq[k]][i].new
      BY <1>1, <1>3, <2>2, <2>3
    <2> QED
      BY <1>3, <2>1, <2>4 DEF Yields
  <1> QED
    BY <1>2, <1>3, LastOfFacts

LEMMA YieldsOne ==
  ASSUME NEW seq \in Seq(Descs), NEW done, NEW a, NEW v, NEW w,
         Yields(seq, done, a, v), Yields(seq, done, a, w)
  PROVE  v = w
  <1>1. CASE \A k \in DOMAIN seq : seq[k] \in done => ~Targets(seq[k], a)
    BY <1>1 DEF Yields, Targets
  <1>2. CASE ~ \A k \in DOMAIN seq : seq[k] \in done => ~Targets(seq[k], a)
    <2>1. PICK k \in DOMAIN seq : \E i \in DOMAIN words[seq[k]] :
            /\ seq[k] \in done /\ words[seq[k]][i].address = a /\ v = words[seq[k]][i].new
            /\ \A m \in DOMAIN seq : seq[m] \in done /\ Targets(seq[m], a) => m <= k
      BY <1>2 DEF Yields
    <2>2. PICK n \in DOMAIN seq : \E j \in DOMAIN words[seq[n]] :
            /\ seq[n] \in done /\ words[seq[n]][j].address = a /\ w = words[seq[n]][j].new
            /\ \A m \in DOMAIN seq : seq[m] \in done /\ Targets(seq[m], a) => m <= n
      BY <1>2 DEF Yields
    <2>3. k = n
      <3>1. k <= n /\ n <= k
        BY <2>1, <2>2 DEF Targets
      <3> QED
        BY <3>1
    <2>4. seq[k] \in Descs
      OBVIOUS
    <2> QED
      BY <2>1, <2>2, <2>3, <2>4, WordsFacts
  <1> QED
    BY <1>1, <1>2

LEMMA ReplayIs ==
  ASSUME NEW seq \in Seq(Descs), NEW done, NEW a \in Addresses, NEW v, Lasts(seq),
         Yields(seq, done, a, v)
  PROVE  Replay(seq, done)[a] = v
  BY ReplayYields, YieldsOne

LEMMA Appended ==
  ASSUME NEW seq \in Seq(Descs), NEW d \in Descs, NEW s, s = Append(seq, d)
  PROVE  /\ s \in Seq(Descs) /\ Len(s) = Len(seq) + 1 /\ Len(seq) \in Nat
         /\ DOMAIN s = 1 .. Len(seq) + 1 /\ DOMAIN seq = 1 .. Len(seq)
         /\ s[Len(seq) + 1] = d /\ \A k \in DOMAIN seq : s[k] = seq[k]
  OBVIOUS

LEMMA Prefix ==
  ASSUME NEW seq \in Seq(Descs), NEW n \in 0 .. Len(seq), NEW p, p = SubSeq(seq, 1, n)
  PROVE  /\ p \in Seq(Descs) /\ DOMAIN p \subseteq DOMAIN seq
         /\ DOMAIN p = 1 .. n /\ \A k \in 1 .. n : p[k] = seq[k]
  OBVIOUS

LEMMA PrefixLasts ==
  ASSUME NEW seq, NEW p, Lasts(seq), DOMAIN p \subseteq DOMAIN seq
  PROVE  Lasts(p)
  BY DEF Lasts

LEMMA PrefixAppended ==
  ASSUME NEW seq \in Seq(Descs), NEW d \in Descs, NEW n \in 0 .. Len(seq)
  PROVE  /\ SubSeq(Append(seq, d), 1, n) = SubSeq(seq, 1, n)
         /\ SubSeq(seq, 1, Len(seq)) = seq
  OBVIOUS

LEMMA ReplayAppend ==
  ASSUME NEW seq \in Seq(Descs), NEW d \in Descs, NEW done, d \in done,
         NEW a \in Addresses, Lasts(seq)
  PROVE  /\ \A i \in DOMAIN words[d] : words[d][i].address = a =>
              Replay(Append(seq, d), done)[a] = words[d][i].new
         /\ ~Targets(d, a) => Replay(Append(seq, d), done)[a] = Replay(seq, done)[a]
  <1>1. PICK s : s = Append(seq, d)
    OBVIOUS
  <1>2. /\ s \in Seq(Descs) /\ Lasts(s) /\ Len(seq) \in Nat
        /\ DOMAIN s = 1 .. Len(seq) + 1 /\ DOMAIN seq = 1 .. Len(seq)
        /\ s[Len(seq) + 1] = d /\ \A k \in DOMAIN seq : s[k] = seq[k]
    <2>1. Lasts(s)
      BY <1>1, LastsAppend
    <2> QED
      BY <1>1, <2>1, Appended
  <1>3. ASSUME NEW i \in DOMAIN words[d], words[d][i].address = a
        PROVE  Replay(s, done)[a] = words[d][i].new
    <2>1. Len(seq) + 1 \in DOMAIN s /\ \A m \in DOMAIN s : m <= Len(seq) + 1
      BY <1>2
    <2>2. Yields(s, done, a, words[d][i].new)
      BY <1>2, <1>3, <2>1 DEF Yields
    <2> QED
      BY <1>2, <2>2, ReplayIs
  <1>4. ASSUME ~Targets(d, a)
        PROVE  Replay(s, done)[a] = Replay(seq, done)[a]
    <2>1. PICK v : v = Replay(seq, done)[a]
      OBVIOUS
    <2>2. Yields(seq, done, a, v)
      BY <2>1, ReplayYields
    <2>3. \A m \in DOMAIN s : s[m] \in done /\ Targets(s[m], a) =>
            m \in DOMAIN seq /\ seq[m] \in done /\ Targets(seq[m], a)
      BY <1>2, <1>4
    <2>4. \A m \in DOMAIN seq : m \in DOMAIN s /\ s[m] = seq[m]
      BY <1>2
    <2>5. CASE /\ v = InitValue[a]
               /\ \A k \in DOMAIN seq : seq[k] \in done => ~Targets(seq[k], a)
      <3>1. Yields(s, done, a, v)
        BY <2>3, <2>5 DEF Yields
      <3> QED
        BY <1>2, <2>1, <3>1, ReplayIs
    <2>6. ASSUME NEW k \in DOMAIN seq, NEW i \in DOMAIN words[seq[k]],
                 seq[k] \in done, words[seq[k]][i].address = a, v = words[seq[k]][i].new,
                 \A m \in DOMAIN seq : seq[m] \in done /\ Targets(seq[m], a) => m <= k
          PROVE  Replay(s, done)[a] = Replay(seq, done)[a]
      <3>1. \A m \in DOMAIN s : s[m] \in done /\ Targets(s[m], a) => m <= k
        BY <2>3, <2>6
      <3>2. Yields(s, done, a, v)
        BY <2>4, <2>6, <3>1 DEF Yields
      <3> QED
        BY <1>2, <2>1, <3>2, ReplayIs
    <2> QED
      BY <2>2, <2>5, <2>6 DEF Yields
  <1> QED
    BY <1>1, <1>3, <1>4

LEMMA LegalAppend ==
  ASSUME NEW seq \in Seq(Descs), NEW d \in Descs, NEW done, Lasts(seq), Legal(seq, done),
         \A i \in DOMAIN words[d] :
           Replay(seq, done)[words[d][i].address] = words[d][i].old
  PROVE  Legal(Append(seq, d), done)
  <1>1. PICK s : s = Append(seq, d)
    OBVIOUS
  <1>2. /\ s \in Seq(Descs) /\ Lasts(s) /\ Len(seq) \in Nat
        /\ DOMAIN s = 1 .. Len(seq) + 1 /\ DOMAIN seq = 1 .. Len(seq)
        /\ s[Len(seq) + 1] = d /\ \A k \in DOMAIN seq : s[k] = seq[k]
    <2>1. Lasts(s)
      BY <1>1, LastsAppend
    <2> QED
      BY <1>1, <2>1, Appended
  <1>3. ASSUME NEW k \in DOMAIN s, s[k] \in done, NEW e \in Range(words[s[k]])
        PROVE  Replay(SubSeq(s, 1, k - 1), done)[e.address] = e.old
    <2>1. SubSeq(s, 1, k - 1) = SubSeq(seq, 1, k - 1)
      <3>1. k - 1 \in 0 .. Len(seq)
        BY <1>2
      <3> QED
        BY <1>1, <3>1, PrefixAppended
    <2>2. CASE k \in DOMAIN seq
      <3>1. seq[k] \in done /\ e \in Range(words[seq[k]])
        BY <1>2, <1>3, <2>2
      <3> QED
        BY <2>1, <2>2, <3>1 DEF Legal
    <2>3. CASE k = Len(seq) + 1
      <3>1. k - 1 = Len(seq)
        BY <1>2, <2>3
      <3>2. SubSeq(s, 1, k - 1) = seq
        BY <2>1, <3>1, PrefixAppended
      <3>3. PICK i \in DOMAIN words[d] : e = words[d][i]
        BY <1>2, <1>3, <2>3 DEF Range
      <3> QED
        BY <3>2, <3>3
    <2> QED
      BY <1>2, <2>2, <2>3
  <1> QED
    BY <1>1, <1>3 DEF Legal

LEMMA SamePrefix ==
  ASSUME NEW seq \in Seq(Descs), NEW done \in SUBSET Descs, NEW a \in Addresses, Lasts(seq),
         \A k \in DOMAIN seq : Targets(seq[k], a) => seq[k] \in done
  PROVE  Replay(seq, done)[a] = Replay(seq, Descs)[a]
  <1>1. PICK v : v = Replay(seq, Descs)[a]
    OBVIOUS
  <1>2. Yields(seq, Descs, a, v)
    BY <1>1, ReplayYields
  <1>3. Yields(seq, done, a, v)
    <2>1. \A k \in DOMAIN seq : seq[k] \in Descs
      OBVIOUS
    <2> QED
      BY <1>2, <2>1 DEF Yields, Targets
  <1> QED
    BY <1>1, <1>3, ReplayIs

LEMMA LegalSurvivors ==
  ASSUME NEW seq \in Seq(Descs), NEW done \in SUBSET Descs, Lasts(seq), Legal(seq, Descs),
         Revocable(seq, done)
  PROVE  Legal(seq, done)
  <1> SUFFICES ASSUME NEW k \in DOMAIN seq, seq[k] \in done, NEW e \in Range(words[seq[k]])
               PROVE  Replay(SubSeq(seq, 1, k - 1), done)[e.address] = e.old
    BY DEF Legal
  <1>1. PICK p : p = SubSeq(seq, 1, k - 1)
    OBVIOUS
  <1>2. /\ p \in Seq(Descs) /\ Lasts(p)
        /\ DOMAIN p = 1 .. k - 1 /\ \A j \in 1 .. k - 1 : p[j] = seq[j]
    <2>1. PICK n \in 0 .. Len(seq) : n = k - 1
      OBVIOUS
    <2>2. /\ p \in Seq(Descs) /\ DOMAIN p \subseteq DOMAIN seq
          /\ DOMAIN p = 1 .. n /\ \A j \in 1 .. n : p[j] = seq[j]
      BY <1>1, <2>1, Prefix
    <2>3. Lasts(p)
      BY <2>2, PrefixLasts
    <2> QED
      BY <2>1, <2>2, <2>3
  <1>3. seq[k] \in Descs /\ Targets(seq[k], e.address) /\ e.address \in Addresses
    <2>1. PICK i \in DOMAIN words[seq[k]] : e = words[seq[k]][i]
      BY DEF Range
    <2> QED
      BY <2>1, WordsFacts DEF Targets
  <1>4. \A j \in DOMAIN p : Targets(p[j], e.address) => p[j] \in done
    <2>1. \A j \in 1 .. k - 1 : j \in DOMAIN seq /\ k > j
      OBVIOUS
    <2> QED
      BY <1>2, <1>3, <2>1 DEF Revocable
  <1>5. Replay(p, done)[e.address] = Replay(p, Descs)[e.address]
    BY <1>2, <1>3, <1>4, SamePrefix
  <1>6. Replay(p, Descs)[e.address] = e.old
    BY <1>1, <1>3 DEF Legal
  <1> QED
    BY <1>1, <1>5, <1>6

(* The last writer of a survives, or its old value comes back. *)
LEMMA ReplaySurvivors ==
  ASSUME NEW seq \in Seq(Descs), NEW done \in SUBSET Descs, Legal(seq, Descs),
         Revocable(seq, done), NEW a \in Addresses, NEW m, Lasts(seq), m = LastOf(seq, Descs, a)
  PROVE  /\ m = 0 \/ m \in done => Replay(seq, done)[a] = Replay(seq, Descs)[a]
         /\ m # 0 /\ m \notin done =>
              \E i \in DOMAIN words[m] :
                words[m][i].address = a /\ words[m][i].old = Replay(seq, done)[a]
         /\ m # 0 => /\ m \in Range(seq)
                     /\ \A i \in DOMAIN words[m] : words[m][i].address = a =>
                          words[m][i].new = Replay(seq, Descs)[a]
  <1>1. \A k \in DOMAIN seq : seq[k] \in Descs /\ seq[k] # 0
    BY ConstantsAssumption DEF Descs
  <1>2. CASE m = 0
    <2>1. \A k \in DOMAIN seq : ~Targets(seq[k], a)
      <3>1. LastOf(seq, Descs, a) = 0
        BY <1>2
      <3> QED
        BY <1>1, <3>1, LastOfFacts
    <2> QED
      BY <1>2, <2>1, SamePrefix
  <1>3. CASE m # 0
    <2>1. PICK k \in DOMAIN seq :
            /\ m = seq[k] /\ Targets(seq[k], a)
            /\ \A j \in DOMAIN seq : seq[j] \in Descs /\ Targets(seq[j], a) => j <= k
      BY <1>3, LastOfFacts
    <2>2. PICK i \in DOMAIN words[m] : words[m][i].address = a
      BY <2>1 DEF Targets
    <2>3. \A j \in DOMAIN seq : Targets(seq[j], a) /\ j # k => j < k /\ seq[j] \in done
      <3>1. \A j \in DOMAIN seq : Targets(seq[j], a) /\ j # k => j < k
        BY <1>1, <2>1
      <3> QED
        BY <2>1, <3>1 DEF Revocable
    <2>4. m \in Range(seq) /\ m \in Descs
      BY <1>1, <2>1 DEF Range
    <2>5. \A j \in DOMAIN words[m] : words[m][j].address = a =>
            words[m][j].new = Replay(seq, Descs)[a]
      <3>1. Yields(seq, Descs, a, words[m][i].new)
        BY <1>1, <2>1, <2>2 DEF Yields
      <3>2. Replay(seq, Descs)[a] = words[m][i].new
        BY <3>1, ReplayIs
      <3> QED
        BY <2>2, <2>4, <3>2, WordsFacts
    <2>6. CASE m \in done
      <3>1. \A j \in DOMAIN seq : Targets(seq[j], a) => seq[j] \in done
        BY <2>1, <2>3, <2>6
      <3> QED
        BY <1>3, <2>4, <2>5, <2>6, <3>1, SamePrefix
    <2>7. CASE m \notin done
      <3>1. PICK p : p = SubSeq(seq, 1, k - 1)
        OBVIOUS
      <3>2. /\ p \in Seq(Descs) /\ Lasts(p)
            /\ DOMAIN p = 1 .. k - 1 /\ \A j \in 1 .. k - 1 : p[j] = seq[j]
        <4>1. PICK n \in 0 .. Len(seq) : n = k - 1
          OBVIOUS
        <4>2. /\ p \in Seq(Descs) /\ DOMAIN p \subseteq DOMAIN seq
              /\ DOMAIN p = 1 .. n /\ \A j \in 1 .. n : p[j] = seq[j]
          BY <3>1, <4>1, Prefix
        <4>3. Lasts(p)
          BY <4>2, PrefixLasts
        <4> QED
          BY <4>1, <4>2, <4>3
      <3>3. \A j \in DOMAIN p : j \in DOMAIN seq /\ j # k /\ p[j] = seq[j]
        BY <3>2
      <3>4. Replay(p, done)[a] = Replay(p, Descs)[a]
        BY <2>3, <3>2, <3>3, SamePrefix
      <3>5. Replay(p, Descs)[a] = words[m][i].old
        BY <2>1, <2>2, <2>4, <3>1 DEF Legal, Range
      <3>6. Replay(seq, done)[a] = Replay(p, done)[a]
        <4>1. PICK v : v = Replay(p, done)[a]
          OBVIOUS
        <4>2. Yields(p, done, a, v)
          BY <3>2, <4>1, ReplayYields
        <4>3. \A j \in DOMAIN seq : seq[j] \in done /\ Targets(seq[j], a) => j \in DOMAIN p
          <5>1. ASSUME NEW j \in DOMAIN seq, seq[j] \in done, Targets(seq[j], a)
                PROVE  j \in DOMAIN p
            <6>1. j # k
              BY <2>1, <2>7, <5>1
            <6>2. j < k /\ j >= 1 /\ j \in Int /\ k \in Int
              BY <2>3, <5>1, <6>1
            <6> QED
              BY <3>2, <6>2
          <5> QED
            BY <5>1
        <4>4. Yields(seq, done, a, v)
          <5>1. CASE /\ v = InitValue[a]
                     /\ \A j \in DOMAIN p : p[j] \in done => ~Targets(p[j], a)
            BY <3>3, <4>3, <5>1 DEF Yields
          <5>2. ASSUME NEW n \in DOMAIN p, NEW j \in DOMAIN words[p[n]], p[n] \in done,
                       words[p[n]][j].address = a, v = words[p[n]][j].new,
                       \A l \in DOMAIN p : p[l] \in done /\ Targets(p[l], a) => l <= n
                PROVE  Yields(seq, done, a, v)
            <6>1. \A l \in DOMAIN seq : seq[l] \in done /\ Targets(seq[l], a) => l <= n
              BY <3>3, <4>3, <5>2
            <6> QED
              BY <3>3, <5>2, <6>1 DEF Yields
          <5> QED
            BY <4>2, <5>1, <5>2 DEF Yields
        <4> QED
          BY <4>1, <4>4, ReplayIs
      <3> QED
        BY <1>3, <2>2, <2>4, <2>5, <2>7, <3>4, <3>5, <3>6
    <2> QED
      BY <2>6, <2>7
  <1> QED
    BY <1>2, <1>3

(* The last successful operation on a word gave it its value. *)
LEMMA WriterValue ==
  ASSUME TypeInv, NEW a \in Addresses, NEW m, m = LastWriter(a), m # 0
  PROVE  /\ m \in Range(hist) /\ m \in Descs /\ Targets(m, a)
         /\ \A i \in DOMAIN words[m] : words[m][i].address = a => words[m][i].new = Value(a)
  <1>1. hist \in Seq(Descs) /\ Lasts(hist)
    BY DEF TypeInv
  <1>2. m = LastOf(hist, Descs, a)
    BY DEF LastWriter
  <1>3. PICK k \in DOMAIN hist :
          /\ m = hist[k] /\ hist[k] \in Descs /\ Targets(hist[k], a)
          /\ \A n \in DOMAIN hist : hist[n] \in Descs /\ Targets(hist[n], a) => n <= k
    BY <1>1, <1>2, LastOfFacts
  <1>4. PICK i \in DOMAIN words[m] : words[m][i].address = a
    BY <1>3 DEF Targets
  <1>5. Yields(hist, Descs, a, words[m][i].new)
    BY <1>3, <1>4 DEF Yields
  <1>6. Value(a) = words[m][i].new
    BY <1>1, <1>5, ReplayIs DEF Value
  <1> QED
    BY <1>3, <1>4, <1>6, WordsFacts DEF Range

-----------------------------------------------------------------------------

(* Crashes, and recovery of one word *)

(* Steps that leave calls and history alone. *)
LEMMA TypeOutside ==
  ASSUME TypeInv, UNCHANGED <<build, next, history>>, MemType', StatusType',
         stack' = stack \/ stack' = [t \in Threads |-> <<>>]
  PROVE  TypeInv'
  <1>1. /\ build \in {"pmem", "volatile"} /\ next \in [Threads -> Nat \ {0}]
        /\ stack \in [Threads -> Seq(Frame)]
        /\ \A t \in Threads : StackOK(stack[t]) /\ SawOK(stack[t])
        /\ hist \in Seq(Descs) /\ Lasts(hist) /\ acked \subseteq Range(hist)
    BY DEF TypeInv
  <1>2. /\ hist' = hist /\ acked' = acked /\ build' = build /\ next' = next
        /\ Lasts(hist)'
    BY <1>1 DEF history, Lasts
  <1>3. PICK none : none = <<>>
    OBVIOUS
  <1>4. CASE stack' = stack
    BY <1>1, <1>2, <1>4 DEF TypeInv, SawOK
  <1>5. CASE stack' = [t \in Threads |-> none]
    <2>1. stack' \in [Threads -> Seq(Frame)]
      BY <1>3, <1>5
    <2>2. \A t \in Threads : StackOK(stack'[t]) /\ SawOK(stack[t])'
      BY <1>3, <1>5 DEF StackOK, SawOK
    <2> QED
      BY <1>1, <1>2, <2>1, <2>2 DEF TypeInv
  <1> QED
    BY <1>3, <1>4, <1>5

LEMMA RunPool ==
  ASSUME TypeInv, PoolType, NEW t \in Threads, Run(t)
  PROVE  PoolType'
  <1>1. UNCHANGED systemVars
    BY DEF Run
  <1>2. retired' \subseteq Descs /\ grace' \in [Descs -> SUBSET Threads]
    <2>1. PICK mine : mine = IF Stops(t) THEN {} ELSE {Top(t).d} \ {0}
      OBVIOUS
    <2>2. CASE Protected(t)
      <3>1. mine \subseteq Descs
        <4>1. Top(t) \in Frame
          BY <2>2, TopFacts DEF Protected
        <4> QED
          BY <2>1, <4>1, FrameFields, ConstantsAssumption DEF Descs
      <3>2. \/ UNCHANGED poolVars
            \/ /\ retired' = retired \union mine
               /\ grace' = [d \in Descs |->
                    (IF d \in mine THEN {u \in Threads : Protected(u)} ELSE grace[d]) \ {t}]
        BY <2>1 DEF Run
      <3> QED
        BY <3>1, <3>2 DEF PoolType, poolVars
    <2>3. CASE ~Protected(t)
      BY <2>3 DEF Run, PoolType, poolVars
    <2> QED
      BY <2>2, <2>3
  <1> QED
    BY <1>1, <1>2 DEF PoolType, systemVars

(* What a crash leaves of memory and statuses. *)
LEMMA CrashEffect ==
  ASSUME TypeInv, Crash
  PROVE  /\ \A a \in Addresses : mem'[a] \in nvram[a] /\ nvram'[a] = {mem'[a]}
         /\ \A d \in Descs : \E s \in nvstatus[d] :
              s \in States /\ nvstatus'[d] = {s} /\ status'[d] = Status(s)
         /\ MemType' /\ StatusType'
  <1>1. MemType /\ StatusType
    BY DEF TypeInv
  <1>2. /\ mem' \in [Addresses -> UNION Range(nvram)]
        /\ \A a \in Addresses : mem'[a] \in nvram[a]
        /\ nvram' = [a \in Addresses |-> {mem'[a]}]
    BY DEF Crash
  <1>3. /\ nvstatus' \in [Descs -> {{x} : x \in States}]
        /\ \A d \in Descs : nvstatus'[d] \subseteq nvstatus[d]
        /\ status' = [d \in Descs |-> Status(CHOOSE s \in nvstatus'[d] : TRUE)]
    BY DEF Crash
  <1>4. ASSUME NEW d \in Descs
        PROVE  \E s \in nvstatus[d] :
                 s \in States /\ nvstatus'[d] = {s} /\ status'[d] = Status(s)
    <2>1. PICK s \in States : nvstatus'[d] = {s}
      BY <1>3
    <2>2. (CHOOSE x \in nvstatus'[d] : TRUE) = s
      BY <2>1
    <2> QED
      BY <1>3, <2>1, <2>2
  <1>5. MemType'
    <2>1. \A a \in Addresses : mem'[a] \in Words
      BY <1>1, <1>2 DEF MemType
    <2> QED
      BY <1>2, <2>1 DEF MemType
  <1>6. StatusType'
    <2>1. \A d \in Descs : status'[d] \in [s : States, dirty : 0 .. 1]
      BY <1>4, StatusForms
    <2> QED
      BY <1>3, <2>1 DEF StatusType
  <1> QED
    BY <1>2, <1>4, <1>5, <1>6

(* What recovery makes of word i of operation d. *)
RecoveredWord(d, i, x) ==
  CASE Clean(x) = MwCASPtr(d) -> IF status[d].s = "Succeeded" THEN New(d, i) ELSE Old(d, i)
    [] Clean(x) = CondPtr(d, i) -> Old(d, i)
    [] OTHER -> Clean(x)

LEMMA RecoverWordEffect ==
  ASSUME TypeInv, NEW d \in Descs, NEW i \in 1 .. kMaxCount + 1, RecoverWord(d, i),
         NEW a, a = words[d][i].address
  PROVE  /\ phase = "recover" /\ recovery = <<d, i>> /\ i \in DOMAIN words[d]
         /\ a \in Addresses /\ status[d].s \in {"Undecided", "Failed", "Succeeded"}
         /\ \/ /\ status[d].s = "Succeeded" /\ Clean(mem[a]) = CondPtr(d, i)
               /\ phase' = "invalid_field_value" /\ UNCHANGED <<memVars, recovery>>
            \/ /\ ~(status[d].s = "Succeeded" /\ Clean(mem[a]) = CondPtr(d, i))
               /\ RecoveredWord(d, i, mem[a]) \in Words
               /\ mem' = [mem EXCEPT ![a] = RecoveredWord(d, i, mem[a])]
               /\ nvram' = [nvram EXCEPT ![a] = {RecoveredWord(d, i, mem[a])}]
               /\ recovery' = <<d, i + 1>> /\ phase' = phase
  <1>1. /\ phase = "recover" /\ recovery = <<d, i>> /\ i <= Len(words[d])
        /\ status[d].s \in {"Undecided", "Failed", "Succeeded"}
    BY DEF RecoverWord, Recovering
  <1>2. i \in DOMAIN words[d] /\ a \in Addresses
    <2>1. i \in DOMAIN words[d]
      BY <1>1, WordsFacts
    <2> QED
      BY <2>1, WordsFacts
  <1>3. RecoveredWord(d, i, mem[a]) \in Words
    <2>1. mem[a] \in Words
      BY <1>2 DEF TypeInv, MemType
    <2> QED
      BY <1>2, <2>1, CleanedWords, StoredWords DEF RecoveredWord
  <1> QED
    BY <1>1, <1>2, <1>3 DEF RecoverWord, RecoveredWord

LEMMA LinInit ==
  ASSUME OpInit
  PROVE  LinInv
  <1>1. hist = <<>> /\ mem = [a \in Addresses |-> Val(InitValue[a])]
    BY DEF OpInit
  <1>2. hist \in Seq(Descs) /\ DOMAIN hist = {} /\ Lasts(hist)
    BY <1>1 DEF Lasts
  <1>3. \A a \in Addresses : Logical(a) = InitValue[a]
    BY <1>1, Forms DEF Logical
  <1>4. \A a \in Addresses : Replay(hist, Descs)[a] = InitValue[a]
    <2>1. \A a \in Addresses : Yields(hist, Descs, a, InitValue[a])
      BY <1>2 DEF Yields
    <2> QED
      BY <1>2, <2>1, ReplayIs
  <1>5. Legal(hist, Descs)
    BY <1>2 DEF Legal
  <1> QED
    BY <1>3, <1>4, <1>5 DEF LinInv, Value

-----------------------------------------------------------------------------

(* The pass over the pool *)

LEMMA SurvivesSame ==
  ASSUME NEW done, Survives(done), hist' = hist, acked' = acked
  PROVE  Survives(done)' /\ \A a : Restored(done, a)' = Restored(done, a)
  BY DEF Survives, Restored

LEMMA PlainForm ==
  ASSUME NEW done, NEW a, Plain(done, a)
  PROVE  mem[a].tag = "val" /\ Clean(mem[a]) = Val(Restored(done, a))
  BY Forms DEF Plain

LEMMA AheadAt ==
  ASSUME NEW d, NEW i, recovery = <<d, i>>, NEW e, NEW j
  PROVE  Ahead(e, j) <=> e > d \/ (e = d /\ j >= i)
  BY DEF Ahead

(* The word that recovery writes at address a: done, or left to another one. *)
LEMMA RecoveredPlain ==
  ASSUME NEW done, NEW d, NEW i, NEW a, Plain(done, a)
  PROVE  RecoveredWord(d, i, mem[a]) = Val(Restored(done, a)) /\ Clean(mem[a]) # CondPtr(d, i)
  <1>1. Clean(mem[a]) = Val(Restored(done, a))
    BY PlainForm
  <1>2. Val(Restored(done, a)) # MwCASPtr(d) /\ Val(Restored(done, a)) # CondPtr(d, i)
    BY ValFields, PtrFields, CondFields
  <1> QED
    BY <1>1, <1>2 DEF RecoveredWord

LEMMA RecoveredPending ==
  ASSUME NEW done, NEW d \in Descs, NEW i \in DOMAIN words[d], NEW a,
         a = words[d][i].address, recovery = <<d, i>>, Pending(done, a)
  PROVE  /\ status[d].s = "Succeeded" => Clean(mem[a]) # CondPtr(d, i)
         /\ \/ RecoveredWord(d, i, mem[a]) = Val(Restored(done, a))
            \/ \E e \in Descs : \E j \in DOMAIN words[e] :
                 /\ words[e][j].address = a /\ e > d
                 /\ PendingWord(RecoveredWord(d, i, mem[a]), e, j, Restored(done, a))
  <1>1. PICK e \in Descs : \E j \in DOMAIN words[e] :
          /\ words[e][j].address = a /\ Ahead(e, j)
          /\ PendingWord(mem[a], e, j, Restored(done, a))
    BY DEF Pending
  <1>2. PICK j \in DOMAIN words[e] :
          /\ words[e][j].address = a /\ Ahead(e, j)
          /\ PendingWord(mem[a], e, j, Restored(done, a))
    BY <1>1
  <1>3. PICK x : x = mem[a]
    OBVIOUS
  <1>4. /\ x \in Ptrs(e) => Clean(x) = MwCASPtr(e) /\ MwCASPtr(e) \in Ptrs(e)
        /\ x = CondPtr(e, j) => Clean(x) = CondPtr(e, j)
    <2>1. x \in Ptrs(e) => x = MwCASPtr(e) \/ x = Dirty(MwCASPtr(e))
      BY DEF Ptrs
    <2>2. Clean(MwCASPtr(e)) = MwCASPtr(e) /\ Clean(Dirty(MwCASPtr(e))) = MwCASPtr(e)
      BY PtrFields
    <2>3. MwCASPtr(e) \in Ptrs(e)
      BY DEF Ptrs
    <2>4. Clean(CondPtr(e, j)) = CondPtr(e, j)
      BY CondFields
    <2> QED
      BY <2>1, <2>2, <2>3, <2>4
  <1>5. MwCASPtr(e) # CondPtr(d, i) /\ CondPtr(e, j) # MwCASPtr(d)
    <2>1. MwCASPtr(e).tag = "mwcas" /\ MwCASPtr(d).tag = "mwcas"
      BY PtrFields
    <2>2. CondPtr(e, j).tag = "cond" /\ CondPtr(d, i).tag = "cond"
      BY CondFields
    <2> QED
      BY <2>1, <2>2
  <1>6. CASE e = d
    <2>1. i = j
      BY <1>2, <1>6, WordsFacts
    <2>2. CASE x \in Ptrs(d) /\ status[d].s = "Succeeded" /\ words[d][i].new = Restored(done, a)
      <3>1. RecoveredWord(d, i, x) = New(d, i) /\ Clean(x) # CondPtr(d, i)
        BY <1>4, <1>5, <1>6, <2>2 DEF RecoveredWord
      <3> QED
        BY <1>3, <2>2, <3>1 DEF New
    <2>3. CASE /\ x \in Ptrs(d) \union {CondPtr(d, i)}
               /\ status[d].s \in {"Undecided", "Failed"}
               /\ words[d][i].old = Restored(done, a)
      <3>1. RecoveredWord(d, i, x) = Old(d, i)
        BY <1>4, <1>5, <1>6, <2>1, <2>3 DEF RecoveredWord
      <3> QED
        BY <1>3, <2>3, <3>1 DEF Old
    <2> QED
      BY <1>2, <1>3, <1>6, <2>1, <2>2, <2>3 DEF PendingWord
  <1>7. CASE e # d
    <2>1. e > d
      BY <1>2, <1>7, AheadAt
    <2>2. MwCASPtr(e) # MwCASPtr(d) /\ CondPtr(e, j) # CondPtr(d, i)
      <3>1. MwCASPtr(e).d = e /\ MwCASPtr(d).d = d
        BY PtrFields
      <3>2. CondPtr(e, j).d = e /\ CondPtr(d, i).d = d
        BY CondFields
      <3> QED
        BY <1>7, <3>1, <3>2
    <2>3. x \in Ptrs(e) \union {CondPtr(e, j)}
      BY <1>2, <1>3 DEF PendingWord
    <2>4. RecoveredWord(d, i, x) = Clean(x) /\ Clean(x) # CondPtr(d, i)
      BY <1>4, <1>5, <2>2, <2>3 DEF RecoveredWord
    <2>5. PendingWord(Clean(x), e, j, Restored(done, a))
      BY <1>2, <1>3, <1>4 DEF PendingWord
    <2> QED
      BY <1>2, <1>3, <2>1, <2>4, <2>5
  <1> QED
    BY <1>6, <1>7

LEMMA PendingNotCond ==
  ASSUME NEW done, NEW d \in Descs, NEW i \in DOMAIN words[d], NEW a,
         a = words[d][i].address, recovery = <<d, i>>, Pending(done, a)
  PROVE  status[d].s = "Succeeded" => Clean(mem[a]) # CondPtr(d, i)
  BY RecoveredPending

(* A word that recovery leaves alone stays plain or pending. *)
LEMMA PendingKept ==
  ASSUME NEW done, NEW a, hist' = hist, \A d \in Descs : status'[d].s = status[d].s,
         mem'[a] = mem[a], Plain(done, a) \/ Pending(done, a),
         \A e \in Descs : \A j \in DOMAIN words[e] :
           words[e][j].address = a /\ Ahead(e, j) /\
           status[e].s \in {"Undecided", "Failed", "Succeeded"} => Ahead(e, j)'
  PROVE  Plain(done, a)' \/ Pending(done, a)'
  <1>1. Restored(done, a)' = Restored(done, a)
    BY DEF Restored
  <1>2. CASE Plain(done, a)
    BY <1>1, <1>2 DEF Plain
  <1>3. CASE Pending(done, a)
    <2>1. PICK e \in Descs : \E j \in DOMAIN words[e] :
            /\ words[e][j].address = a /\ Ahead(e, j)
            /\ PendingWord(mem[a], e, j, Restored(done, a))
      BY <1>3 DEF Pending
    <2>2. PICK j \in DOMAIN words[e] :
            /\ words[e][j].address = a /\ Ahead(e, j)
            /\ PendingWord(mem[a], e, j, Restored(done, a))
      BY <2>1
    <2>3. status[e].s \in {"Undecided", "Failed", "Succeeded"}
      BY <2>2 DEF PendingWord
    <2>4. Ahead(e, j)'
      BY <2>2, <2>3
    <2>5. PendingWord(mem[a], e, j, Restored(done, a))'
      BY <1>1, <2>2 DEF PendingWord
    <2> QED
      BY <2>2, <2>4, <2>5 DEF Pending
  <1> QED
    BY <1>2, <1>3

(* Among the decided operations, those that NVRAM keeps as succeeded survive. *)
Survivors(done) ==
  \A d \in Descs : d \in done <=> d \in Range(hist) /\ status'[d].s = "Succeeded"

LEMMA CrashSurvivors ==
  ASSUME OpInv, LinInv, NvInv, Crash, NEW done \in SUBSET Descs, Survivors(done)
  PROVE  Revocable(hist, done) /\ Survives(done)'
  <1>1. TypeInv /\ UnsettledInv /\ AckedInv /\ Legal(hist, Descs)
    BY DEF OpInv, NvInv, LinInv
  <1>2. hist \in Seq(Descs) /\ Lasts(hist) /\ acked \subseteq Range(hist)
    BY <1>1 DEF TypeInv
  <1>3. hist' = hist /\ acked' = acked
    BY DEF Crash, history
  <1>4. \A d \in Descs : Settled(d) => status'[d].s = "Succeeded"
    <2>1. \A d \in Descs : \E s \in nvstatus[d] : status'[d] = Status(s)
      BY <1>1, CrashEffect
    <2> QED
      BY <2>1, StatusForms DEF Settled
  <1>5. \A k \in DOMAIN hist : hist[k] \in Descs /\ hist[k] \in Range(hist)
    BY <1>2 DEF Range
  <1>6. Revocable(hist, done)
    <2> SUFFICES ASSUME NEW k \in DOMAIN hist, hist[k] \notin done,
                        NEW j \in DOMAIN hist, j > k, NEW a \in Addresses, Targets(hist[k], a)
                 PROVE  ~Targets(hist[j], a)
      BY DEF Revocable
    <2>1. ~Settled(hist[k])
      BY <1>4, <1>5 DEF Survivors
    <2>2. PICK i \in DOMAIN words[hist[k]] : words[hist[k]][i].address = a
      BY DEF Targets
    <2> QED
      BY <1>1, <2>1, <2>2 DEF UnsettledInv
  <1>7. acked \subseteq done
    <2> SUFFICES ASSUME NEW d \in acked
                 PROVE  d \in done
      OBVIOUS
    <2>1. Settled(d) /\ d \in Range(hist)
      BY <1>1, <1>2 DEF AckedInv
    <2>2. d \in Descs
      BY <1>2, <2>1 DEF Range
    <2> QED
      BY <1>4, <2>1, <2>2 DEF Survivors
  <1>8. Legal(hist, done)
    BY <1>1, <1>2, <1>6, LegalSurvivors
  <1>9. done \subseteq Range(hist)
    BY DEF Survivors
  <1> QED
    BY <1>3, <1>6, <1>7, <1>8, <1>9 DEF Survives

(* What a crash leaves of a status: never that of a new pool. *)
LEMMA CrashStatus ==
  ASSUME OpInv, NvInv, Crash, NEW d \in Descs
  PROVE  /\ nvstatus'[d] = {status'[d].s} /\ status'[d].s \in nvstatus[d]
         /\ status'[d].s # "Invalid"
         /\ Published(d) /\ status[d].s = "Succeeded" =>
              status'[d].s \in {"Undecided", "Succeeded"}
         /\ Published(d) /\ status[d].s # "Succeeded" =>
              status'[d].s \in {"Undecided", "Failed"}
  <1>1. TypeInv /\ StatusInv /\ NvStatusInv
    BY DEF OpInv, NvInv
  <1>2. PICK s \in nvstatus[d] : nvstatus'[d] = {s} /\ status'[d] = Status(s)
    BY <1>1, CrashEffect
  <1>3. status'[d].s = s
    BY <1>2, StatusForms
  <1>4. status[d].s \in {"Finished", "Undecided", "Succeeded", "Failed"}
    <2>1. status[d] \in {Status("Finished"), Status("Undecided"), Status("Succeeded"),
                         Dirty(Status("Succeeded")), Status("Failed"), Dirty(Status("Failed"))}
      BY <1>1 DEF StatusInv
    <2> QED
      BY <2>1, StatusForms
  <1>5. s \in {"Finished", "Undecided", status[d].s}
    BY <1>1, <1>2 DEF NvStatusInv
  <1> QED
    BY <1>2, <1>3, <1>4, <1>5 DEF Published

LEMMA CrashAhead ==
  ASSUME Crash, NEW d \in Descs, NEW i \in DOMAIN words[d]
  PROVE  Ahead(d, i)'
  <1>1. recovery' = <<1, 1>>
    BY DEF Crash
  <1>2. d \in Nat /\ d >= 1 /\ i \in Nat /\ i >= 1
    BY WordsFacts, ConstantsAssumption DEF Descs
  <1> QED
    BY <1>1, <1>2 DEF Ahead

LEMMA SurvivorValue ==
  ASSUME hist \in Seq(Descs), Lasts(hist), Legal(hist, Descs), NEW done \in SUBSET Descs,
         Revocable(hist, done), NEW a \in Addresses, NEW m, m = LastWriter(a),
         NEW v, v = Replay(hist, done)[a]
  PROVE  /\ m = 0 \/ m \in done => v = Value(a)
         /\ m # 0 /\ m \notin done =>
              \E i \in DOMAIN words[m] : words[m][i].address = a /\ words[m][i].old = v
  <1>1. m = LastOf(hist, Descs, a) /\ Value(a) = Replay(hist, Descs)[a]
    BY DEF LastWriter, Value
  <1>2. /\ m = 0 \/ m \in done => Replay(hist, done)[a] = Replay(hist, Descs)[a]
        /\ m # 0 /\ m \notin done =>
             \E i \in DOMAIN words[m] :
               words[m][i].address = a /\ words[m][i].old = Replay(hist, done)[a]
    BY <1>1, ReplaySurvivors
  <1> QED
    BY <1>1, <1>2

LEMMA CrashWord ==
  ASSUME OpInv, LinInv, NvInv, Crash, NEW done \in SUBSET Descs, Survivors(done),
         NEW a \in Addresses
  PROVE  Plain(done, a)' \/ Pending(done, a)'
  <1>1. TypeInv /\ StatusInv /\ NvMemInv /\ UnsettledInv /\ Legal(hist, Descs)
    BY DEF OpInv, NvInv, LinInv
  <1>2. hist \in Seq(Descs) /\ Lasts(hist) /\ hist' = hist
    BY <1>1 DEF TypeInv, Crash, history
  <1>3. Revocable(hist, done)
    BY CrashSurvivors
  <1>4. PICK x : x = mem'[a]
    OBVIOUS
  <1>5. PICK v : v = Replay(hist, done)[a]
    OBVIOUS
  <1>6. PICK m : m = LastWriter(a)
    OBVIOUS
  <1>7. x \in nvram[a] /\ Restored(done, a)' = v
    BY <1>1, <1>2, <1>4, <1>5, CrashEffect DEF Restored
  <1>8. /\ Holds(x, a)
        /\ x.tag \in {"mwcas", "cond"} => Published(x.d)
    BY <1>1, <1>7 DEF NvMemInv, Holds
  <1>9. /\ m = 0 \/ m \in done => v = Value(a)
        /\ m # 0 /\ m \notin done =>
             \E i \in DOMAIN words[m] : words[m][i].address = a /\ words[m][i].old = v
    <2>1. hist \in Seq(Descs) /\ Lasts(hist) /\ Legal(hist, Descs)
      BY <1>1, <1>2
    <2> QED
      BY <1>3, <1>5, <1>6, <2>1, SurvivorValue
  <1>10. m # 0 => /\ m \in Range(hist) /\ m \in Descs /\ Targets(m, a)
                  /\ \A i \in DOMAIN words[m] : words[m][i].address = a =>
                       words[m][i].new = Value(a)
    BY <1>1, <1>6, WriterValue
  <1>11. m # 0 /\ m \notin done => x \in Ptrs(m)
    <2> SUFFICES ASSUME m # 0, m \notin done
                 PROVE  x \in Ptrs(m)
      OBVIOUS
    <2>1. PICK k \in DOMAIN hist : m = hist[k]
      BY <1>10 DEF Range
    <2>2. ~Settled(m)
      <3>1. status'[m].s # "Succeeded"
        BY <1>10 DEF Survivors
      <3>2. status'[m].s \in nvstatus[m]
        BY <1>10, CrashStatus
      <3> QED
        BY <3>1, <3>2 DEF Settled
    <2>3. PICK i \in DOMAIN words[m] : words[m][i].address = a
      BY <1>10 DEF Targets
    <2> QED
      BY <1>1, <1>7, <2>1, <2>2, <2>3 DEF UnsettledInv
  <1>12. \A d : x \in Ptrs(d) => x.tag = "mwcas" /\ x.d = d
    BY PtrForms
  <1>13. CASE HoldsValue(x, a)
    <2>1. x.tag = "val"
      <3>1. PICK w : w = Value(a)
        OBVIOUS
      <3>2. x = Val(w) \/ x = Dirty(Val(w))
        BY <1>13, <3>1 DEF HoldsValue
      <3>3. Val(w).tag = "val" /\ Dirty(Val(w)).tag = "val"
        BY ValFields
      <3> QED
        BY <3>2, <3>3
    <2>2. v = Value(a)
      BY <1>9, <1>11, <1>12, <2>1
    <2> QED
      BY <1>4, <1>7, <1>13, <2>2 DEF HoldsValue, Plain
  <1>14. CASE HoldsWriter(x, a)
    <2>1. m # 0 /\ x \in Ptrs(m) /\ m \in Range(hist) /\ m \in Descs
      BY <1>6, <1>10, <1>14 DEF HoldsWriter
    <2>2. status'[m].s \in {"Undecided", "Succeeded"}
      <3>1. Published(m) /\ status[m].s = "Succeeded"
        BY <1>1, <1>8, <1>12, <2>1 DEF StatusInv
      <3> QED
        BY <2>1, <3>1, CrashStatus
    <2>3. CASE status'[m].s = "Succeeded"
      <3>1. m \in done
        BY <2>1, <2>3 DEF Survivors
      <3>2. PICK i \in DOMAIN words[m] : words[m][i].address = a
        BY <1>10, <2>1 DEF Targets
      <3>3. words[m][i].new = v
        BY <1>9, <1>10, <2>1, <3>1, <3>2
      <3>4. PendingWord(mem[a], m, i, Restored(done, a))'
        BY <1>4, <1>7, <2>1, <2>3, <3>3 DEF PendingWord
      <3> QED
        BY <2>1, <3>2, <3>4, CrashAhead DEF Pending
    <2>4. CASE status'[m].s = "Undecided"
      <3>1. m \notin done
        BY <2>1, <2>4 DEF Survivors
      <3>2. PICK i \in DOMAIN words[m] : words[m][i].address = a /\ words[m][i].old = v
        BY <1>9, <2>1, <3>1
      <3>3. PendingWord(mem[a], m, i, Restored(done, a))'
        BY <1>4, <1>7, <2>1, <2>4, <3>2 DEF PendingWord
      <3> QED
        BY <2>1, <3>2, <3>3, CrashAhead DEF Pending
    <2> QED
      BY <2>2, <2>3, <2>4
  <1>15. CASE HoldsOther(x, a)
    <2>1. PICK d \in Descs \ Range(hist) : \E i \in DOMAIN words[d] :
            /\ words[d][i].address = a /\ words[d][i].old = Value(a)
            /\ x \in Ptrs(d) \union {CondPtr(d, i)}
      BY <1>15 DEF HoldsOther
    <2>2. PICK i \in DOMAIN words[d] :
            /\ words[d][i].address = a /\ words[d][i].old = Value(a)
            /\ x \in Ptrs(d) \union {CondPtr(d, i)}
      BY <2>1
    <2>3. x.tag \in {"mwcas", "cond"} /\ x.d = d
      <3>1. CASE x \in Ptrs(d)
        BY <3>1, PtrForms
      <3>2. CASE x = CondPtr(d, i)
        BY <3>2, CondFields
      <3> QED
        BY <2>2, <3>1, <3>2
    <2>4. status'[d].s \in {"Undecided", "Failed"}
      <3>1. Published(d) /\ status[d].s # "Succeeded"
        BY <1>1, <1>8, <2>3 DEF StatusInv
      <3> QED
        BY <3>1, CrashStatus
    <2>5. v = Value(a)
      <3>1. m = 0 \/ m \in done
        BY <1>10, <1>11, <1>12, <2>3
      <3> QED
        BY <1>9, <3>1
    <2>6. PendingWord(mem[a], d, i, Restored(done, a))'
      BY <1>4, <1>7, <2>2, <2>4, <2>5 DEF PendingWord
    <2> QED
      BY <2>2, <2>6, CrashAhead DEF Pending
  <1> QED
    BY <1>8, <1>13, <1>14, <1>15 DEF Holds

LEMMA CrashRunning ==
  ASSUME OpInv, LinInv, NvInv, Crash
  PROVE  Recoverable'
  <1>1. TypeInv /\ hist \in Seq(Descs)
    BY DEF OpInv, TypeInv
  <1>2. PICK done \in SUBSET Descs : Survivors(done)
    <2>1. {d \in Descs : d \in Range(hist) /\ status'[d].s = "Succeeded"} \in SUBSET Descs
      OBVIOUS
    <2>2. Survivors({d \in Descs : d \in Range(hist) /\ status'[d].s = "Succeeded"})
      BY DEF Survivors
    <2> QED
      BY <2>1, <2>2
  <1>3. Survives(done)'
    BY <1>2, CrashSurvivors
  <1>4. \A a \in Addresses : Plain(done, a)' \/ Pending(done, a)'
    BY <1>2, CrashWord
  <1>5. \A a \in Addresses : nvram'[a] = {mem'[a]}
    BY <1>1, CrashEffect
  <1>6. \A d \in Descs : nvstatus'[d] = {status'[d].s} /\ status'[d].s # "Invalid"
    BY CrashStatus
  <1>7. phase' = "recover"
    BY DEF Crash
  <1>8. RecInv(done)'
    BY <1>3, <1>4, <1>5, <1>6, <1>7 DEF RecInv
  <1> QED
    BY <1>8 DEF Recoverable

LEMMA CrashRecovering ==
  ASSUME TypeInv, NEW done, RecInv(done), Crash
  PROVE  RecInv(done)'
  <1>1. hist' = hist /\ acked' = acked /\ phase' = "recover"
    BY DEF Crash, history
  <1>2. Survives(done)' /\ \A a : Restored(done, a)' = Restored(done, a)
    BY <1>1, SurvivesSame DEF RecInv
  <1>3. \A a \in Addresses : mem'[a] = mem[a] /\ nvram'[a] = {mem'[a]}
    <2>1. \A a \in Addresses : mem'[a] \in nvram[a] /\ nvram'[a] = {mem'[a]}
      BY CrashEffect
    <2> QED
      BY <2>1 DEF RecInv
  <1>4. CASE \A a \in Addresses : Plain(done, a)
    <2>1. \A a \in Addresses : Plain(done, a)'
      BY <1>2, <1>3, <1>4 DEF Plain
    <2> QED
      BY <1>2, <1>3, <2>1 DEF RecInv
  <1>5. CASE /\ \A a \in Addresses : Plain(done, a) \/ Pending(done, a)
             /\ \A d \in Descs : nvstatus[d] = {status[d].s} /\ status[d].s # "Invalid"
    <2>1. ASSUME NEW d \in Descs
          PROVE  status'[d].s = status[d].s /\ nvstatus'[d] = {status'[d].s}
      <3>1. PICK s \in nvstatus[d] : nvstatus'[d] = {s} /\ status'[d] = Status(s)
        BY CrashEffect
      <3> QED
        <4>1. nvstatus[d] = {status[d].s}
          BY <1>5
        <4>2. s = status[d].s
          BY <4>1
        <4>3. Status(s).s = s
          BY StatusForms
        <4> QED
          BY <3>1, <4>2, <4>3
    <2>2. \A a \in Addresses : Plain(done, a)' \/ Pending(done, a)'
      BY <1>1, <1>3, <1>5, <2>1, PendingKept, CrashAhead
    <2> QED
      BY <1>1, <1>2, <1>3, <1>5, <2>1, <2>2 DEF RecInv
  <1> QED
    BY <1>4, <1>5 DEF RecInv

(* Recovery at word i of d leaves all other words as plain or as pending. *)
LEMMA RecoverElsewhere ==
  ASSUME NEW done, NEW d \in Descs, NEW i \in DOMAIN words[d], NEW b, b # words[d][i].address,
         Plain(done, b) \/ Pending(done, b), mem'[b] = mem[b], hist' = hist, status' = status,
         recovery = <<d, i>>, recovery' = <<d, i + 1>>
  PROVE  Plain(done, b)' \/ Pending(done, b)'
  <1>1. ASSUME NEW e \in Descs, NEW j \in DOMAIN words[e],
               words[e][j].address = b, Ahead(e, j)
        PROVE  Ahead(e, j)'
    <2>1. e > d \/ (e = d /\ j >= i)
      BY <1>1, AheadAt
    <2>2. e = d => j # i
      BY <1>1
    <2>3. i \in Nat /\ (e = d => j \in Nat)
      BY WordIndex
    <2>4. e > d \/ (e = d /\ j >= i + 1)
      BY <2>1, <2>2, <2>3
    <2> QED
      BY <2>4 DEF Ahead
  <1> QED
    BY <1>1, PendingKept

LEMMA RecoverWordRec ==
  ASSUME TypeInv, NEW done, RecInv(done), NEW d \in Descs, NEW i \in 1 .. kMaxCount + 1,
         RecoverWord(d, i)
  PROVE  RecInv(done)' /\ phase' # "invalid_field_value"
  <1>1. PICK a : a = words[d][i].address
    OBVIOUS
  <1>2. PICK x : x = RecoveredWord(d, i, mem[a])
    OBVIOUS
  <1>3. PICK v : v = Restored(done, a)
    OBVIOUS
  <1>4. /\ hist' = hist /\ acked' = acked /\ status' = status /\ nvstatus' = nvstatus
        /\ phase = "recover" /\ recovery = <<d, i>> /\ i \in DOMAIN words[d]
        /\ a \in Addresses /\ status[d].s \in {"Undecided", "Failed", "Succeeded"}
    BY <1>1, RecoverWordEffect DEF RecoverWord, Recovering, history, statusVars
  <1>5. Survives(done)' /\ \A b : Restored(done, b)' = Restored(done, b)
    BY <1>4, SurvivesSame DEF RecInv
  <1>6. /\ \A b \in Addresses : nvram[b] = {mem[b]}
        /\ \A b \in Addresses : Plain(done, b) \/ Pending(done, b)
    BY DEF RecInv
  <1>7. status[d].s = "Succeeded" => Clean(mem[a]) # CondPtr(d, i)
    <2>1. CASE Plain(done, a)
      BY <2>1, RecoveredPlain
    <2>2. CASE Pending(done, a)
      <3>1. recovery = <<d, i>> /\ i \in DOMAIN words[d] /\ a = words[d][i].address
        BY <1>1, <1>4
      <3> QED
        BY <2>2, <3>1, PendingNotCond
    <2> QED
      BY <1>4, <1>6, <2>1, <2>2
  <1>8. /\ mem' = [mem EXCEPT ![a] = x] /\ nvram' = [nvram EXCEPT ![a] = {x}]
        /\ recovery' = <<d, i + 1>> /\ phase' = "recover"
    BY <1>1, <1>2, <1>4, <1>7, RecoverWordEffect
  <1>9. /\ mem'[a] = x /\ \A b \in Addresses : b # a => mem'[b] = mem[b]
        /\ \A b \in Addresses : nvram'[b] = {mem'[b]}
    <2>1. mem \in [Addresses -> Words] /\ DOMAIN nvram = Addresses
      BY DEF TypeInv, MemType
    <2> QED
      BY <1>4, <1>6, <1>8, <2>1
  <1>10. CASE \A b \in Addresses : Plain(done, b)
    <2>1. x = Val(v)
      BY <1>2, <1>3, <1>4, <1>10, RecoveredPlain
    <2>2. \A b \in Addresses : Plain(done, b)'
      BY <1>3, <1>5, <1>9, <1>10, <2>1 DEF Plain
    <2> QED
      BY <1>5, <1>8, <1>9, <2>2 DEF RecInv
  <1>11. CASE \A e \in Descs : nvstatus[e] = {status[e].s} /\ status[e].s # "Invalid"
    <2>1. Plain(done, a)' \/ Pending(done, a)'
      <3>1. \/ x = Val(v)
            \/ \E e \in Descs : \E j \in DOMAIN words[e] :
                 words[e][j].address = a /\ e > d /\ PendingWord(x, e, j, v)
        <4>1. CASE Plain(done, a)
          BY <1>2, <1>3, <4>1, RecoveredPlain
        <4>2. CASE Pending(done, a)
          <5>1. \/ RecoveredWord(d, i, mem[a]) = Val(Restored(done, a))
                \/ \E e \in Descs : \E j \in DOMAIN words[e] :
                     /\ words[e][j].address = a /\ e > d
                     /\ PendingWord(RecoveredWord(d, i, mem[a]), e, j, Restored(done, a))
            BY <1>1, <1>4, <4>2, RecoveredPending
          <5> QED
            BY <1>2, <1>3, <5>1
        <4> QED
          BY <1>4, <1>6, <4>1, <4>2
      <3>2. CASE x = Val(v)
        BY <1>3, <1>5, <1>9, <3>2 DEF Plain
      <3>3. ASSUME NEW e \in Descs, NEW j \in DOMAIN words[e],
                   words[e][j].address = a, e > d, PendingWord(x, e, j, v)
            PROVE  Pending(done, a)'
        <4>1. Ahead(e, j)'
          BY <1>8, <3>3 DEF Ahead
        <4>2. PendingWord(mem[a], e, j, Restored(done, a))'
          BY <1>3, <1>4, <1>5, <1>9, <3>3 DEF PendingWord
        <4> QED
          BY <3>3, <4>1, <4>2 DEF Pending
      <3> QED
        BY <3>1, <3>2, <3>3
    <2>2. \A b \in Addresses : b # a => Plain(done, b)' \/ Pending(done, b)'
      BY <1>1, <1>4, <1>6, <1>8, <1>9, RecoverElsewhere
    <2>3. \A b \in Addresses : Plain(done, b)' \/ Pending(done, b)'
      BY <2>1, <2>2
    <2> QED
      BY <1>4, <1>5, <1>8, <1>9, <1>11, <2>3 DEF RecInv
  <1> QED
    BY <1>10, <1>11 DEF RecInv

(* A finished descriptor, or one all of whose words are done, is left behind. *)
LEMMA RecoverNextRec ==
  ASSUME TypeInv, NEW done, RecInv(done), NEW d \in Descs, NEW i \in 1 .. kMaxCount + 1,
         RecoverNext(d, i)
  PROVE  RecInv(done)' /\ phase' # "invalid_field_value"
  <1>1. /\ hist' = hist /\ acked' = acked /\ status' = status /\ nvstatus' = nvstatus
        /\ mem' = mem /\ nvram' = nvram /\ phase = "recover" /\ phase' = "recover"
        /\ recovery = <<d, i>> /\ recovery' = <<d + 1, 1>>
        /\ status[d].s = "Finished" \/ i > Len(words[d])
    BY DEF RecoverNext, Recovering, history, statusVars, memVars
  <1>2. Survives(done)' /\ \A b : Restored(done, b)' = Restored(done, b)
    BY <1>1, SurvivesSame DEF RecInv
  <1>3. ASSUME NEW e \in Descs, NEW j \in DOMAIN words[e], Ahead(e, j),
               status[e].s \in {"Undecided", "Failed", "Succeeded"}
        PROVE  Ahead(e, j)'
    <2>1. e > d \/ (e = d /\ j >= i)
      BY <1>1, <1>3, AheadAt
    <2>2. e \in Nat /\ d \in Nat /\ j \in Nat /\ j >= 1 /\ j <= Len(words[e])
          /\ Len(words[e]) \in Nat
      <3>1. d \in Nat
        BY ConstantsAssumption DEF Descs
      <3> QED
        BY <3>1, WordIndex
    <2>3. e > d
      <3>1. e = d => j <= Len(words[d]) /\ status[d].s # "Finished"
        BY <1>3, <2>2
      <3>2. e = d => ~(j >= i)
        BY <1>1, <2>2, <3>1
      <3> QED
        BY <2>1, <3>2
    <2>4. e > d + 1 \/ (e = d + 1 /\ j >= 1)
      BY <2>2, <2>3
    <2> QED
      BY <1>1, <2>4 DEF Ahead
  <1>4. CASE \A b \in Addresses : Plain(done, b)
    BY <1>1, <1>2, <1>4 DEF RecInv, Plain
  <1>5. CASE /\ \A b \in Addresses : Plain(done, b) \/ Pending(done, b)
             /\ \A e \in Descs : nvstatus[e] = {status[e].s} /\ status[e].s # "Invalid"
    <2>1. \A b \in Addresses : Plain(done, b)' \/ Pending(done, b)'
      BY <1>1, <1>3, <1>5, PendingKept
    <2> QED
      BY <1>1, <1>2, <1>5, <2>1 DEF RecInv
  <1> QED
    BY <1>4, <1>5 DEF RecInv

LEMMA RecoverInvalidRec ==
  ASSUME NEW done, RecInv(done), NEW d \in Descs, RecoverInvalid(d)
  PROVE  RecInv(done)' /\ phase' # "invalid_field_value"
  <1>1. /\ hist' = hist /\ acked' = acked /\ mem' = mem /\ nvram' = nvram
        /\ status[d].s = "Invalid" /\ phase' \in {"recover", "corrupted_pool"}
    BY DEF RecoverInvalid, Recovering, history, memVars
  <1>2. Survives(done)' /\ \A b : Restored(done, b)' = Restored(done, b)
    BY <1>1, SurvivesSame DEF RecInv
  <1>3. \A b \in Addresses : Plain(done, b)
    BY <1>1 DEF RecInv
  <1> QED
    BY <1>1, <1>2, <1>3 DEF RecInv, Plain

LEMMA ReinitializeRec ==
  ASSUME NEW done, RecInv(done), Reinitialize
  PROVE  RecInv(done)' /\ phase' # "invalid_field_value"
  <1>1. /\ hist' = hist /\ acked' = acked /\ mem' = mem /\ nvram' = nvram
        /\ recovery = <<PoolSize + 1, 1>> /\ phase' = "recovered"
    BY DEF Reinitialize, history, memVars
  <1>2. Survives(done)' /\ \A b : Restored(done, b)' = Restored(done, b)
    BY <1>1, SurvivesSame DEF RecInv
  <1>3. \A e \in Descs : \A j : ~Ahead(e, j)
    BY <1>1, ConstantsAssumption DEF Ahead, Descs
  <1>4. \A b \in Addresses : Plain(done, b)
    BY <1>3 DEF RecInv, Pending
  <1> QED
    BY <1>1, <1>2, <1>4 DEF RecInv, Plain

LEMMA RecoverRec ==
  ASSUME TypeInv, Recoverable, Recover
  PROVE  Recoverable' /\ phase' # "invalid_field_value"
  <1>1. PICK done \in SUBSET Descs : RecInv(done)
    BY DEF Recoverable
  <1>2. RecInv(done)' /\ phase' # "invalid_field_value"
    BY <1>1, RecoverWordRec, RecoverNextRec, RecoverInvalidRec, ReinitializeRec DEF Recover
  <1> QED
    BY <1>2 DEF Recoverable

LEMMA IncreasesRaises ==
  ASSUME NEW rank, Increases(rank)
  PROVE  Raises(rank)
  BY DEF Increases, Raises, Since

LEMMA IncreasesSupersedes ==
  ASSUME NEW rank \in Ranks, Increases(rank), OpInv, RaisedInv(rank), LinInv
  PROVE  Superseded
  <1> SUFFICES ASSUME NEW d \in Range(hist), NEW i \in DOMAIN words[d]
               PROVE  Value(words[d][i].address) # words[d][i].old
    BY DEF Superseded
  <1>1. d \in Descs /\ status[d].s = "Succeeded"
    <2>1. hist \in Seq(Descs) /\ StatusInv
      BY DEF OpInv, TypeInv
    <2>2. d \in Descs
      BY <2>1 DEF Range
    <2> QED
      BY <2>1, <2>2 DEF StatusInv
  <1>2. PICK a : a = words[d][i].address
    OBVIOUS
  <1>3. PICK old : old = words[d][i].old
    OBVIOUS
  <1>4. PICK new : new = words[d][i].new
    OBVIOUS
  <1>5. a \in Addresses /\ old \in Int /\ new \in Int
    BY <1>1, <1>2, <1>3, <1>4, WordsFacts
  <1>6. rank[a][old] \in Int /\ rank[a][new] \in Int
    <2>1. rank[a] \in [Int -> Int]
      BY <1>5 DEF Ranks
    <2> QED
      BY <1>5, <2>1
  <1>7. rank[a][old] < rank[a][new]
    BY <1>1, <1>2, <1>3, <1>4 DEF Increases
  <1>8. Since(rank, a, Logical(a), new)
    BY <1>1, <1>2, <1>4 DEF RaisedInv
  <1>9. Logical(a) # old
    BY <1>6, <1>7, <1>8 DEF Since
  <1> QED
    BY <1>2, <1>3, <1>5, <1>9 DEF LinInv

(* NVRAM at the start: the first values, and descriptors not yet in use. *)
LEMMA NvInit ==
  ASSUME OpInit, PoolPersisted = TRUE
  PROVE  NvInv
  <1>1. /\ mem = [a \in Addresses |-> Val(InitValue[a])]
        /\ nvram = [a \in Addresses |-> {mem[a]}] /\ status = [d \in Descs |-> Status("Finished")]
        /\ stack = [t \in Threads |-> <<>>] /\ hist = <<>> /\ acked = {}
    BY DEF OpInit
  <1>2. \A d \in Descs : nvstatus[d] = {"Finished"} /\ status[d].s = "Finished"
    BY <1>1, StatusForms DEF OpInit
  <1>3. \A a \in Addresses : Value(a) = InitValue[a]
    <2>1. \A a \in Addresses : Logical(a) = InitValue[a]
      BY <1>1, Forms DEF Logical
    <2> QED
      BY <2>1, LinInit DEF LinInv
  <1>4. NvMemInv
    <2>1. \A a \in Addresses : mem[a] = Val(InitValue[a]) /\ nvram[a] = {mem[a]}
      BY <1>1
    <2>2. \A a \in Addresses : \A x \in nvram[a] : HoldsValue(x, a) /\ x.tag = "val"
      <3> SUFFICES ASSUME NEW a \in Addresses, NEW x \in nvram[a]
                   PROVE  HoldsValue(x, a) /\ x.tag = "val"
        OBVIOUS
      <3>1. x = Val(InitValue[a]) /\ Value(a) = InitValue[a]
        BY <1>3, <2>1
      <3>2. Val(InitValue[a]).tag = "val"
        BY ValFields
      <3> QED
        BY <3>1, <3>2 DEF HoldsValue
    <2> QED
      BY <2>1, <2>2 DEF NvMemInv
  <1>5. NvStatusInv
    BY <1>2 DEF NvStatusInv
  <1>6. UnsettledInv
    <2>1. DOMAIN hist = {}
      BY <1>1
    <2> QED
      BY <2>1 DEF UnsettledInv
  <1>7. AckedInv
    BY <1>1 DEF AckedInv
  <1>8. NvFramesInv
    <2>1. \A t \in Threads : stack[t] = <<>>
      BY <1>1
    <2>2. Range(<<>>) = {}
      BY DEF Range
    <2> QED
      BY <2>1, <2>2 DEF NvFramesInv
  <1> QED
    BY <1>4, <1>5, <1>6, <1>7, <1>8 DEF NvInv

LEMMA NvStutter ==
  ASSUME NvInv, UNCHANGED opVars
  PROVE  NvInv'
  <1>1. /\ mem' = mem /\ nvram' = nvram /\ status' = status /\ nvstatus' = nvstatus
        /\ stack' = stack /\ hist' = hist /\ acked' = acked
    BY DEF opVars, memVars, statusVars, history
  <1>2. NvMemInv'
    <2>1. \A x, a : /\ HoldsValue(x, a)' <=> HoldsValue(x, a)
                    /\ HoldsWriter(x, a)' <=> HoldsWriter(x, a)
                    /\ HoldsOther(x, a)' <=> HoldsOther(x, a)
      BY <1>1 DEF HoldsValue, HoldsWriter, HoldsOther, Value, LastWriter
    <2>2. \A d : Published(d)' <=> Published(d)
      BY <1>1 DEF Published
    <2> QED
      BY <1>1, <2>1, <2>2 DEF NvInv, NvMemInv
  <1>3. NvStatusInv'
    BY <1>1 DEF NvInv, NvStatusInv
  <1>4. UnsettledInv'
    BY <1>1 DEF NvInv, UnsettledInv, Settled
  <1>5. AckedInv'
    BY <1>1 DEF NvInv, AckedInv, Settled
  <1>6. NvFramesInv'
    <2>1. \A f : NvFrameInv(f) => NvFrameInv(f)'
      BY <1>1 DEF NvFrameInv, Published, Known, Decided, Settled, Completing
    <2> QED
      BY <1>1, <2>1 DEF NvInv, NvFramesInv
  <1> QED
    BY <1>2, <1>3, <1>4, <1>5, <1>6 DEF NvInv

LEMMA RecStutter ==
  ASSUME Recoverable, UNCHANGED vars
  PROVE  Recoverable'
  <1>1. PICK done \in SUBSET Descs : RecInv(done)
    BY DEF Recoverable
  <1>2. /\ mem' = mem /\ nvram' = nvram /\ status' = status /\ nvstatus' = nvstatus
        /\ hist' = hist /\ acked' = acked /\ phase' = phase /\ recovery' = recovery
    BY DEF vars, systemVars, opVars, memVars, statusVars, history
  <1>3. Survives(done)' /\ \A b : Restored(done, b)' = Restored(done, b)
    BY <1>1, <1>2, SurvivesSame DEF RecInv
  <1>4. \A b : (Plain(done, b) <=> Plain(done, b)') /\ (Pending(done, b) <=> Pending(done, b)')
    <2> TAKE b
    <2>1. Plain(done, b) <=> Plain(done, b)'
      BY <1>2, <1>3 DEF Plain
    <2>2. \A x, d, i, v : PendingWord(x, d, i, v) <=> PendingWord(x, d, i, v)'
      BY <1>2 DEF PendingWord
    <2>3. \A d, i : Ahead(d, i) <=> Ahead(d, i)'
      BY <1>2 DEF Ahead
    <2>4. Pending(done, b) <=> Pending(done, b)'
      BY <1>2, <1>3, <2>2, <2>3 DEF Pending
    <2> QED
      BY <2>1, <2>4
  <1>5. RecInv(done)'
    BY <1>1, <1>2, <1>3, <1>4 DEF RecInv
  <1> QED
    BY <1>5 DEF Recoverable

(* After recovery the words are plain. *)
LEMMA RecoveredDurable ==
  ASSUME Recoverable
  PROVE  DurablyLinearizable
  <1> SUFFICES ASSUME phase = "recovered"
               PROVE  \E done \in SUBSET Range(hist) :
                        /\ acked \subseteq done
                        /\ Legal(hist, done)
                        /\ \A a \in Addresses : Clean(mem[a]) = Val(Replay(hist, done)[a])
    BY DEF DurablyLinearizable
  <1>1. PICK done \in SUBSET Descs : RecInv(done)
    BY DEF Recoverable
  <1>2. done \in SUBSET Range(hist) /\ acked \subseteq done /\ Legal(hist, done)
    BY <1>1 DEF RecInv, Survives
  <1>3. \A a \in Addresses : Clean(mem[a]) = Val(Replay(hist, done)[a])
    BY <1>1, PlainForm DEF RecInv, Restored
  <1> QED
    BY <1>2, <1>3

=============================================================================
