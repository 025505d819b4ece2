\* Three calls, also of a tool that does not exist, one attempt.
SPECIFICATION Spec
CONSTANTS
  MaxTools = 3
  MaxAttempts = 1
  MaxProgress = 1
  Kinds <- SafetyKinds
  Bursts <- AllBursts
INVARIANTS
  Exclusive
  NoStall
  Answered
  ResultsInOrder
PROPERTIES
  NoStartAfterCancel
  ImplementsSchedule
