\* A busy session that nobody interrupts.
SPECIFICATION Spec
CONSTANTS
  Commands <- Mixed
  MaxExecs = 5
  MaxCancels = 0
  MaxPops = 0
INVARIANTS
  OneAtATime
  DeliveredOnce
  AlikeInOrder
