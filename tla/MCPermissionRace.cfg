\* Two requests, every racer, one Escape.
SPECIFICATION FairSpec
CONSTANTS
  Requests <- Two
  Racers <- AllRacers
  MaxEscapes = 1
INVARIANTS
  WinnerTakesAll

  
