\* Commands of every origin, one Escape, and one key that empties the queue.
SPECIFICATION FairSpec
CONSTANTS
  Commands <- Sent
  MaxExecs = 4
  MaxCancels = 1
  MaxPops = 1
INVARIANTS
  TypeOK
  GuardOwned
  NothingLost
PROPERTIES
  StaleEndHarmless
  QueueDrains
