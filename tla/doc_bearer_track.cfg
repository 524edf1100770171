CONSTANTS
  Client = {"frodo", "witch-king"}
  SideOf <- OneEach
  BusCap = 1
  ClientCap = 1
  Place = {"bree"}
  Track = {"bree-to-weathertop"}
  MaxRecords = 2
SPECIFICATION Spec
INVARIANTS DarkNeverTracks
CHECK_DEADLOCK FALSE
