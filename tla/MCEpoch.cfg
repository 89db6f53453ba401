SPECIFICATION Spec
CONSTANTS
  Threads = {t1, t2}
  Items = {i1}
  TableSize = 2
  SeqCstStore = TRUE
  BufferSize = 2
  MaxEpoch = 4
  NoThread = NoThread
  NoSlot = NoSlot
SYMMETRY ThreadSymmetry
INVARIANTS
  TypeOK
  SafeBelowCurrent
  EntriesExclusive
  NoReclaimWhileHeld
