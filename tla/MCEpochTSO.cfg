SPECIFICATION Spec
CONSTANTS
  Threads = {t1, t2}
  Items = {i1}
  TableSize = 2
  SeqCstStore = FALSE
  BufferSize = 2
  MaxEpoch = 4
  NoThread = NoThread
  NoSlot = NoSlot
SYMMETRY ThreadSymmetry
INVARIANTS
  NoReclaimWhileHeld
