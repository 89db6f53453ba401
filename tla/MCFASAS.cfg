SPECIFICATION Spec
CONSTANTS
  Threads = {1, 2}
  Kinds = {"plain", "opt"}
  Script <- MixedScript
  MaxCrashes <- Failures
  MaxAttempts = 4
  FirstSeq = 15
INVARIANTS
  FASASTypeOK
  RecoveryCanDecide
PROPERTIES
  RunsAtomically
  
  AllReturn
