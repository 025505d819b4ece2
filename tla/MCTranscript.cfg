SPECIFICATION FairSpec
CONSTANTS
  Uuids <- ThreeMessages
  Timers <- TwoTimers
  Flushers <- OneFlusher
  Setups <- EverySetup
INVARIANT TypeOK
INVARIANT ExactlyOnce
INVARIANT ChainSkipsNothing
INVARIANT FlushCovers
INVARIANT CrashSafe
PROPERTY EverythingEnds
CHECK_DEADLOCK FALSE
