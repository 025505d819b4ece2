\* A call of a tool that does not exist, behind one that runs alone.
SPECIFICATION FairSpec
CONSTANTS
  MaxTools = 2
  MaxAttempts = 1
  MaxProgress = 0
  Kinds <- SomeKinds
  Bursts <- ShortBursts
PROPERTIES
  ResultsEnd
