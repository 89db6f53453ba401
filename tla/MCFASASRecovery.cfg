SPECIFICATION Spec
CONSTANTS
  Threads = {1, 2}
  Kinds = {"plain"}
  Script <- MixedScript
  MaxCrashes <- Failures
  MaxAttempts = 4
  FirstSeq = 15
INVARIANT
  DurablyLinearizable
