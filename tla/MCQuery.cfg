\* Queries that are cut off, interrupted, compacted, and repeated by fallbacks.
SPECIFICATION FairSpec
CONSTANTS
  RecoveryLimit = 1
  MaxTurns = 3
  MaxMessages = 2
  Setups <- EverySetup
INVARIANTS
  
  NothingToRepair
  
PROPERTIES
  QueryEnds
