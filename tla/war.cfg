CONSTANTS
  Unit <- WarUnit
  UnitOrder <- WarUnitOrder
  Config <- WarConfig
  Bearer = "ring-bearer"
  Region <- WarRegion
  StrayRegion = {}
  Terrain <- WarTerrain
  StartControl <- WarStartControl
  Path <- WarPath
  PathMap <- WarPathMap
  HiddenUntilTurn = 1
  MaxTurns = 3
  Orders <- WarOrders
SPECIFICATION Spec
INVARIANTS TypeOK UnitCoherent ListedUnlessReborn TargetsHostile NoGhosts
PROPERTIES Lifecycle
