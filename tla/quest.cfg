CONSTANTS
  Unit <- QuestUnit
  UnitOrder <- QuestUnitOrder
  Config <- QuestConfig
  Bearer = "ring-bearer"
  Region <- QuestRegion
  StrayRegion = {"nowhere"}
  Terrain <- QuestTerrain
  StartControl <- QuestStartControl
  Path <- QuestPath
  PathMap <- QuestPathMap
  HiddenUntilTurn = 1
  MaxTurns = 4
  Orders <- QuestOrders
SPECIFICATION Spec
INVARIANTS BearerEntry HiddenStart ResultMatchesBoard
PROPERTIES MatchSpec
