CONSTANTS
  Client = {"light", "dark"}
  Timer = "timer"
  UnitOrder <- Pair
  Home <- AllInMordor
  RegionOrder <- Mordor
  MaxTurns = 2
  MaxRequests <- Twice
  MaxResets = 1
  MaxMoves = 1
SPECIFICATION Spec
INVARIANTS SnapshotIsWhole
CHECK_DEADLOCK FALSE
