SPECIFICATION Spec
CONSTANTS
  Threads = {1, 2, 3}
  Addresses = {1, 2}
  PoolSize = 2
  Entries <- CrossEntries
  Script <- CrossReadScript
  Builds = {"pmem", "volatile"}
  InitValue <- AllZero
  PoolPersisted = TRUE
  MaxDepth = 5
  Recycle = TRUE
  MaxCrashes = 2
INVARIANTS
  SystemTypeOK
  Linearizable
  FieldValuesValid
  DurablyLinearizable
  NoUseAfterFree
