SPECIFICATION OpSpec
CONSTANTS
  Threads = {1, 2}
  Addresses = {1, 2}
  PoolSize = 2
  Entries <- ChainEntries
  Script <- CrossScript
  Builds = {"pmem"}
  InitValue <- AllZero
  PoolPersisted = TRUE
  MaxDepth = 5
INVARIANTS
  NoHelpCycle
