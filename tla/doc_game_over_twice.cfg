CONSTANTS
  Instance = {"go-1", "go-2", "go-3"}
  MaxTurns = 1
  OutCap = 1
  MaxPlayed <- AllPlay
  MaxStops = 1
SPECIFICATION Spec
INVARIANTS GameOverAtMostOnce
CHECK_DEADLOCK FALSE
