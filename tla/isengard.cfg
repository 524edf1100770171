CONSTANTS
  Unit <- IsenUnit
  UnitOrder <- IsenUnitOrder
  Config <- IsenConfig
  Bearer = "ring-bearer"
  Region <- IsenRegion
  StrayRegion = {}
  Terrain <- IsenTerrain
  StartControl <- IsenStartControl
  Path <- IsenPath
  PathMap <- IsenPathMap
  HiddenUntilTurn = 1
  MaxTurns = 4
  Orders <- IsenOrders
SPECIFICATION FairSpec
INVARIANTS OneOrderPerUnit AbilitiesReady PathOrdersAtEndpoint PathCoherent TimersTicked
PROPERTIES CorruptionIsPermanent TurnCompletes GameEnds
