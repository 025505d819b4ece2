\* Reports after initialize(), failures, a superseded and a following worker.
SPECIFICATION FairClientSpec
CONSTANTS
  Keys <- TheKeys
  Metadata <- TheMetadata
  Values <- TheValues
  Workers <- TwoWorkers
  Wirings <- BothWirings
  Early = FALSE
  MaxReports = 6
 
INVARIANT NothingOfTheDead
 
PROPERTY EventuallyShown
CHECK_DEADLOCK FALSE
