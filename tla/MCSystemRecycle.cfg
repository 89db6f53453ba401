SPECIFICATION Spec
CONSTANTS
  Threads = {1, 2, 3}
  Addresses = {1, 2}
  PoolSize = 1
  Entries <- FailEntries
  Script <- FailScript
  Builds = {"pmem"}
  InitValue <- AllZero
  PoolPersisted = TRUE
  MaxDepth = 4
  Recycle = TRUE
  MaxCrashes = 0
INVARIANTS
  NoUseAfterFree
