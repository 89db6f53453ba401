SPECIFICATION OpSpec
CONSTANTS
  Threads = {1, 2, 3}
  Addresses = {1}
  PoolSize = 2
  Entries <- ABAEntries
  Script <- ABAScript
  Builds = {"pmem"}
  InitValue <- AllZero
  PoolPersisted = TRUE
  MaxDepth = 4
PROPERTIES
  AtomicSpec
