CONSTANTS
  Client = {"light", "dark"}
  Timer = "timer"
  UnitOrder <- Alone
  Home <- AllInMordor
  RegionOrder <- Mordor
  MaxTurns = 2
  MaxRequests <- Uneven
  MaxResets = 1
  MaxMoves = 1
SPECIFICATION FairSpec
INVARIANTS RecordsMatchAnswers PlayedOnce 
PROPERTIES Answered AcceptedIsPlayed
CHECK_DEADLOCK FALSE
