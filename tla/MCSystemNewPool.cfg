SPECIFICATION Spec
CONSTANTS
  Threads = {1, 2}
  Addresses = {1, 2}
  PoolSize = 2
  Entries <- CrossEntries
  Script <- CrossScript
  Builds = {"pmem"}
  InitValue <- AllZero
  PoolPersisted = FALSE
  MaxDepth = 4
  Recycle = FALSE
  MaxCrashes = 1
INVARIANTS
  DurablyLinearizable
