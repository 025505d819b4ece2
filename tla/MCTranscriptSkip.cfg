SPECIFICATION Spec
CONSTANTS
  Uuids <- ThreeMessages
  Timers <- TwoTimers
  Flushers <- OneFlusher
  Setups <- EverySetup
INVARIANT AllRecorded
CHECK_DEADLOCK FALSE
