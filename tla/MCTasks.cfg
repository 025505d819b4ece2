\* Numbering, blocking, a crash, and a list that changes: see the setups.
SPECIFICATION FairSpec
CONSTANTS
  Workers <- TwoWorkers
  Tools <- TwoTools
  MaxId = 4
  Setups <- EverySetup
INVARIANT TypeOK
 
INVARIANT IdsNotReused
 
PROPERTY EventuallyTaken
CHECK_DEADLOCK FALSE
