\* Termination: two calls, one of which may need no event of the event loop.
SPECIFICATION FairSpec
CONSTANTS
  MaxTools = 2
  MaxAttempts = 2
  MaxProgress = 1
  Kinds <- QuickKinds
  Bursts <- ShortBursts
PROPERTIES
  ResultsEnd
