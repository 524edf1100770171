CONSTANTS
  Instance = {"go-1", "go-2", "go-3"}
  MaxTurns = 2
  OutCap = 1
  MaxPlayed <- OnePlays
  MaxStops = 1
SPECIFICATION FairSpec
INVARIANTS EachLifeInOrder NothingSkipped ShownInOrder RepeatedOnlyAfterStop
PROPERTIES ShownSomewhere
CHECK_DEADLOCK FALSE
