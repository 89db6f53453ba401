SPECIFICATION Spec
CONSTANTS
  Threads = {1, 2}
  Nodes = {0}
  CacheLineSize = 2
  SlabSize = 8
  NumaMemorySize = 40
  ItemCount <- ItemCounts
  PoolSize = 3
  PartitionCount = 2
  Kinds = {"pool", "list"}
  Script <- Scripts
  Addrs = {1, 2}
INVARIANTS
  PoolTypeOK
  NothingFreedWhileHeld
  SlotExclusive
  PartitionsExclusive
  TlsRegistered
  Accounted
  BlocksDisjoint
PROPERTIES
  NoABA
  AllReturn
