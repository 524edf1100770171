CONSTANTS
  Client = {"frodo", "witch-king"}
  SideOf <- OneEach
  BusCap = 1
  ClientCap = 1
  Place = {"bree"}
  Track = {"bree-to-weathertop"}
  MaxRecords = 2
SPECIFICATION FairSpec
INVARIANTS TypeOK NeverPanics Secrecy NothingVanishes
PROPERTIES FeedSpec Arrives
CHECK_DEADLOCK FALSE
