SPECIFICATION Spec
CONSTANTS
  Threads = {1, 2, 3}
  Kinds = {"mwcas", "cas"}
  Initial <- InitialNodes
  Programs <- ListPrograms
INVARIANTS DListTypeOK SanityCheck WalkComplete
PROPERTIES ChangesAtomically AllCallsReturn
