SPECIFICATION OpSpec
CONSTANTS
  Threads = {1, 2}
  Addresses = {1, 2}
  PoolSize = 3
  Entries <- ThenEntries
  Script <- ThenScript
  Builds = {"pmem", "volatile"}
  InitValue <- AllZero
  PoolPersisted = TRUE
  MaxDepth = 4
INVARIANTS
  TypeOK
  NoHelpCycle
PROPERTIES
  AtomicSpec
  PersistBeforeDecide
  AllReturn
