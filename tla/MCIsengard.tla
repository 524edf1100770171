----------------------------- MODULE MCIsengard -----------------------------
(***************************************************************************)
(* Isengard for TLC: blocked, opened and corrupted paths, the two Maia     *)
(* abilities with their cooldowns, the fall of Isengard.  Ids and flags    *)
(* are those of units.json and map.json.                                   *)
(***************************************************************************)
EXTENDS EngineProps, MCOrders

IsenUnitOrder == <<"ring-bearer", "gandalf", "nazgul-2", "saruman">>
IsenUnit == {"ring-bearer", "gandalf", "nazgul-2", "saruman"}

IsenConfig ==
  [u \in IsenUnit |->
    CASE u = "ring-bearer" -> Plain("RingBearer", "FREE_PEOPLES", "fangorn", 1)
      [] u = "gandalf" ->
           [Plain("Maia", "FREE_PEOPLES", "rohan-plains", 6)
              EXCEPT !.maia = TRUE, !.cooldown = 3]
      [] u = "nazgul-2" ->
           [Plain("Nazgul", "SHADOW", "isengard", 2)
              EXCEPT !.respawns = TRUE, !.respawnTurns = 3, !.range = 1]
      [] u = "saruman" ->
           [Plain("Maia", "SHADOW", "isengard", 1)
              EXCEPT !.maia = TRUE, !.abilityPaths = {"fangorn-to-isengard"}, !.cooldown = 2]]

IsenRegion == {"fangorn", "isengard", "rohan-plains"}
IsenTerrain == [r \in IsenRegion |->
  CASE r = "isengard" -> "FORTRESS" [] r = "fangorn" -> "FOREST" [] OTHER -> "PLAINS"]
IsenStartControl == [r \in IsenRegion |-> IF r = "isengard" THEN "SHADOW" ELSE "FREE_PEOPLES"]
IsenPathMap ==
  [p \in {"fangorn-to-isengard", "isengard-to-rohan-plains", "rohan-plains-to-fangorn"} |->
    CASE p = "fangorn-to-isengard" -> [from |-> "fangorn", to |-> "isengard"]
      [] p = "isengard-to-rohan-plains" -> [from |-> "isengard", to |-> "rohan-plains"]
      [] OTHER -> [from |-> "rohan-plains", to |-> "fangorn"]]
IsenPath == DOMAIN IsenPathMap

IsenOrders ==
  { Block("dark", "nazgul-2", "fangorn-to-isengard"),
    Deploy("nazgul-2", "rohan-plains"),
    Maia("dark", "saruman", "fangorn-to-isengard"),
    Maia("light", "gandalf", "fangorn-to-isengard"),
    Assign("light", "gandalf", <<"rohan-plains-to-fangorn">>),
    Attack("light", "gandalf", "isengard"),
    Assign("light", "ring-bearer", <<"fangorn-to-isengard">>) }
=============================================================================
