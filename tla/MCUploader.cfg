\* Failures, a full buffer, an event that cannot be serialized, close().
SPECIFICATION FairSpec
CONSTANTS
  MaxEvents = 5
  MaxCalls = 4
  MaxFlushes = 1
  MaxLosses = 2
  Sizes <- OneOrTwo
  Bad <- Third
  MaxBatchSize = 2
  MaxQueueSize = 2
  ByteLimit = TRUE
  MaxFailures = 2
  MayClose = TRUE
INVARIANT NothingLost
INVARIANT AwaitedInOrder
INVARIANT FlushCovers
PROPERTY CallersReturn
