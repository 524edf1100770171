------------------------------ MODULE MCQuest ------------------------------
(***************************************************************************)
(* The last miles of the quest for TLC: the bearer's hidden movement,      *)
(* surveillance, detection with Sauron's amplifier, and the three ways a   *)
(* game ends.  Ids and flags are those of units.json and map.json; the     *)
(* bearer starts at Cirith Ungol.                                          *)
(***************************************************************************)
EXTENDS EngineProps, MCOrders

QuestUnitOrder == <<"ring-bearer", "gimli", "nazgul-2", "sauron">>
QuestUnit == {"ring-bearer", "gimli", "nazgul-2", "sauron"}

QuestConfig ==
  [u \in QuestUnit |->
    CASE u = "ring-bearer" -> Plain("RingBearer", "FREE_PEOPLES", "cirith-ungol", 1)
      [] u = "gimli" -> Plain("FellowshipGuard", "FREE_PEOPLES", "cirith-ungol", 3)
      [] u = "nazgul-2" ->
           [Plain("Nazgul", "SHADOW", "mordor", 1)
              EXCEPT !.respawns = TRUE, !.respawnTurns = 1, !.range = 0]
      [] u = "sauron" ->
           [Plain("Maia", "SHADOW", "mordor", 5)
              EXCEPT !.maia = TRUE, !.indestructible = TRUE]]

QuestRegion == {"cirith-ungol", "mordor", "mount-doom"}
QuestTerrain == [r \in QuestRegion |-> IF r = "cirith-ungol" THEN "MOUNTAINS" ELSE "VOLCANIC"]
QuestStartControl == [r \in QuestRegion |-> "SHADOW"]
QuestPathMap ==
  [p \in {"cirith-ungol-to-mordor", "cirith-ungol-to-mount-doom", "mordor-to-mount-doom"} |->
    CASE p = "cirith-ungol-to-mordor" -> [from |-> "cirith-ungol", to |-> "mordor"]
      [] p = "cirith-ungol-to-mount-doom" -> [from |-> "cirith-ungol", to |-> "mount-doom"]
      [] OTHER -> [from |-> "mordor", to |-> "mount-doom"]]
QuestPath == DOMAIN QuestPathMap

QuestOrders ==
  { Assign("light", "ring-bearer", <<"cirith-ungol-to-mount-doom">>),
    OnRoute("light", "REDIRECT_UNIT", "ring-bearer",
            <<"cirith-ungol-to-mordor", "mordor-to-mount-doom">>),
    NewOrder("light", "DESTROY_RING", "ring-bearer"),
    Attack("light", "ring-bearer", "mount-doom"),
    Search("dark", "nazgul-2", "cirith-ungol-to-mordor"),
    Deploy("nazgul-2", "nowhere"), Deploy("nazgul-2", ""),
    Assign("dark", "nazgul-2", <<"mordor-to-mount-doom">>),
    Assign("dark", "sauron", <<"cirith-ungol-to-mordor">>),
    Maia("dark", "sauron", "nowhere") }
=============================================================================
