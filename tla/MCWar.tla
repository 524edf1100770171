------------------------------- MODULE MCWar -------------------------------
(***************************************************************************)
(* The Osgiliath front for TLC: combat, leadership, fortification, respawn *)
(* and the lists of the units present in a region.  Ids, classes and flags *)
(* are those of units.json and map.json; start regions are moved to the    *)
(* front and strengths lowered so that a few turns reach every outcome.    *)
(***************************************************************************)
EXTENDS EngineProps, MCOrders

WarUnitOrder == <<"ring-bearer", "aragorn", "gondor-army", "witch-king", "nazgul-2">>
WarUnit == {"ring-bearer", "aragorn", "gondor-army", "witch-king", "nazgul-2"}

WarConfig ==
  [u \in WarUnit |->
    CASE u = "ring-bearer" -> Plain("RingBearer", "FREE_PEOPLES", "ithilien", 1)
      [] u = "aragorn" ->
           [Plain("FellowshipGuard", "FREE_PEOPLES", "osgiliath", 3)
              EXCEPT !.leadership = TRUE, !.bonus = 1]
      [] u = "gondor-army" ->
           [Plain("GondorArmy", "FREE_PEOPLES", "osgiliath", 2) EXCEPT !.canFortify = TRUE]
      [] u = "witch-king" ->
           [Plain("Nazgul", "SHADOW", "minas-morgul", 3)
              EXCEPT !.leadership = TRUE, !.bonus = 1, !.indestructible = TRUE, !.range = 2]
      [] u = "nazgul-2" ->
           [Plain("Nazgul", "SHADOW", "minas-morgul", 2)
              EXCEPT !.respawns = TRUE, !.respawnTurns = 2, !.range = 1]]

WarRegion == {"ithilien", "osgiliath", "minas-morgul"}
WarTerrain == [r \in WarRegion |->
  CASE r = "ithilien" -> "FOREST" [] r = "osgiliath" -> "PLAINS" [] OTHER -> "FORTRESS"]
WarStartControl == [r \in WarRegion |-> IF r = "minas-morgul" THEN "SHADOW" ELSE "NEUTRAL"]
WarPath == {"ithilien-to-osgiliath", "osgiliath-to-minas-morgul"}
WarPathMap == [p \in WarPath |->
  IF p = "ithilien-to-osgiliath" THEN [from |-> "ithilien", to |-> "osgiliath"]
  ELSE [from |-> "osgiliath", to |-> "minas-morgul"]]

WarOrders ==
  { Attack("light", "aragorn", "minas-morgul"),
    Attack("light", "gondor-army", "ithilien"), Attack("light", "aragorn", "ithilien"),
    Attack("dark", "witch-king", "osgiliath"),
    Attack("dark", "nazgul-2", "ithilien"),
    Assign("dark", "nazgul-2", <<"osgiliath-to-minas-morgul", "ithilien-to-osgiliath">>),
    NewOrder("light", "FORTIFY_REGION", "gondor-army") }

\* Both sides attack a region neither controls.
RaceOrders ==
  { Attack("light", "gondor-army", "ithilien"), Attack("dark", "nazgul-2", "ithilien"),
    Assign("dark", "nazgul-2", <<"osgiliath-to-minas-morgul">>) }

=============================================================================
