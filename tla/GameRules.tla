----------------------------- MODULE GameRules -----------------------------
(***************************************************************************)
(* The rules of Ring of the Middle Earth as pure operators: the static     *)
(* configuration (units.json, map.json), the records of package game, and  *)
(* its state-machine functions: order validation, damage, path statuses,   *)
(* combat power, detection.  Nothing here has state.                       *)
(*                                                                         *)
(* Ids are strings, as in the code, and "" is Go's zero value: no region,  *)
(* no unit.  No operator is RECURSIVE, so that theorems can use them.      *)
(***************************************************************************)
EXTENDS Slices

CONSTANTS
  Unit,             \* ids of the configured units
  UnitOrder,        \* config.UnitOrder: the units in the order of units.json
  Config,           \* unit id -> its UnitConfig
  Bearer,           \* Engine.bearerID, the one unit of class RingBearer
  Region,           \* ids of the regions of the map
  StrayRegion,      \* ids not on the map that an order may nevertheless name
  Terrain,          \* region -> terrain
  StartControl,     \* region -> who controls it when the game is seeded
  Path,             \* ids of the paths of the map
  PathMap,          \* path -> [from, to]
  HiddenUntilTurn,  \* detection is suppressed up to and including this turn
  MaxTurns          \* the game is drawn at the end of this turn

FreePeoples == "FREE_PEOPLES"
Shadow == "SHADOW"
Side == {FreePeoples, Shadow}
Control == Side \cup {"NEUTRAL", ""}
NoUnit == ""
AnyRegion == Region \cup StrayRegion \cup {""}

UnitConfig ==
  [class : STRING, side : Side, start : Region, strength : Nat \ {0},
   leadership : BOOLEAN, bonus : Nat, indestructible : BOOLEAN, range : Nat,
   respawns : BOOLEAN, respawnTurns : Nat, maia : BOOLEAN,
   abilityPaths : SUBSET Path, ignoresFortress : BOOLEAN,
   canFortify : BOOLEAN, cooldown : Nat]

ASSUME UnitsAssumption ==
  /\ IsFiniteSet(Unit) /\ NoUnit \notin Unit
  /\ UnitOrder \in Seq(Unit) /\ Unit = {UnitOrder[k] : k \in DOMAIN UnitOrder}
  /\ Config \in [Unit -> UnitConfig]
  /\ Bearer \in Unit
  /\ \A u \in Unit : Config[u].class = "RingBearer" <=> u = Bearer
  /\ \A u \in Unit : Config[u].respawns => Config[u].respawnTurns > 0

\* units.json: no Nazgul can fortify.  Only a Nazgul is ever deployed to an id
\* that is not on the map, and fortifying there would replace the entry of "".
ASSUME NazgulAssumption ==
  \A u \in Unit : Config[u].class = "Nazgul" => ~Config[u].canFortify

ASSUME MapAssumption ==
  /\ "" \notin Region \cup StrayRegion
  /\ Terrain \in [Region -> STRING]
  /\ StartControl \in [Region -> Control]
  /\ PathMap \in [Path -> [from : Region, to : Region]]
  /\ "" \notin Path

ASSUME TurnsAssumption == HiddenUntilTurn \in Nat /\ MaxTurns \in Nat \ {0}

-----------------------------------------------------------------------------
(* Units *)

Active == "ACTIVE"
Destroyed == "DESTROYED"
Respawning == "RESPAWNING"
Route == Seq(Path)

UnitState ==
  [region : AnyRegion, strength : Nat,
   status : {Active, Destroyed, Respawning}, respawnTurns : Nat,
   route : Route, routeIdx : Nat, cooldown : Nat]

NewUnit(region, strength) ==
  [region |-> region, strength |-> strength, status |-> Active,
   respawnTurns |-> 0, route |-> <<>>, routeIdx |-> 0, cooldown |-> 0]

\* Mutant: the strength of an indestructible unit has no floor.
ApplyDamage_NoFloor(s, cfg, damage) ==
  LET left == s.strength - damage IN
  IF left > 0 THEN [s EXCEPT !.strength = left]
  ELSE [s EXCEPT !.strength = 0,
                 !.status = IF cfg.indestructible THEN Active
                            ELSE IF cfg.respawns THEN Respawning ELSE Destroyed,
                 !.respawnTurns = cfg.respawnTurns,
                 !.region = IF cfg.respawns THEN "" ELSE @]

ApplyDamage(s, cfg, damage) ==
  LET left == s.strength - damage IN
  IF cfg.indestructible
    THEN [s EXCEPT !.strength = IF left < 1 THEN 1 ELSE left, !.status = Active]
  ELSE IF left > 0 THEN [s EXCEPT !.strength = left]
  ELSE IF cfg.respawns
    THEN [s EXCEPT !.strength = 0, !.status = Respawning,
                   !.respawnTurns = cfg.respawnTurns, !.region = ""]
  ELSE [s EXCEPT !.strength = 0, !.status = Destroyed]

\* Mutant: step 11 tests for "not ACTIVE" instead of RESPAWNING.
TickUnit_RevivesAll(s, cfg) ==
  LET wait == IF s.respawnTurns > 0 THEN s.respawnTurns - 1 ELSE 0
      lived == IF s.status = Active THEN s
               ELSE IF wait > 0 THEN [s EXCEPT !.respawnTurns = wait]
               ELSE [s EXCEPT !.respawnTurns = wait, !.status = Active,
                              !.strength = cfg.strength, !.region = cfg.start]
  IN [lived EXCEPT !.cooldown = IF @ > 0 THEN @ - 1 ELSE 0]

\* Step 11 of the turn for one unit: back home at full strength when the
\* respawn timer runs out; the ability timer runs down.
TickUnit(s, cfg) ==
  LET wait == IF s.respawnTurns > 0 THEN s.respawnTurns - 1 ELSE 0
      lived == IF s.status # Respawning THEN s
               ELSE IF wait > 0 THEN [s EXCEPT !.respawnTurns = wait]
               ELSE [s EXCEPT !.respawnTurns = wait, !.status = Active,
                              !.strength = cfg.strength, !.region = cfg.start]
  IN [lived EXCEPT !.cooldown = IF @ > 0 THEN @ - 1 ELSE 0]

-----------------------------------------------------------------------------
(* Paths *)

Open == "OPEN"
Threatened == "THREATENED"
Blocked == "BLOCKED"
TempOpen == "TEMPORARILY_OPEN"

PathState ==
  [status : {Open, Threatened, Blocked, TempOpen}, surveillance : 0..3,
   tempOpenTurns : 0..2, blockedBy : Unit \cup {NoUnit}, corrupted : BOOLEAN]

NewPath == [status |-> Open, surveillance |-> 0, tempOpenTurns |-> 0,
            blockedBy |-> NoUnit, corrupted |-> FALSE]

BlockPath(p, by) ==
  IF p.status \in {Open, Threatened}
    THEN [p EXCEPT !.status = Blocked, !.blockedBy = by] ELSE p

SearchPath(p) ==
  IF p.surveillance < 3 THEN [p EXCEPT !.surveillance = @ + 1] ELSE p

\* Mutant: one turn too long.
OpenPathGandalf_ThreeTurns(p) ==
  IF p.status = Blocked
    THEN [p EXCEPT !.status = TempOpen, !.tempOpenTurns = 3] ELSE p

OpenPathGandalf(p) ==
  IF p.status = Blocked
    THEN [p EXCEPT !.status = TempOpen, !.tempOpenTurns = 2] ELSE p

CorruptPathSaruman(p) == [p EXCEPT !.surveillance = 3, !.corrupted = TRUE]

\* Mutant: the path reopens but still names its holder.
ReconcileBlock_KeepsHolder(p, present) ==
  IF p.status = Blocked /\ ~present THEN [p EXCEPT !.status = Open] ELSE p

ReconcileBlock(p, present) ==
  IF p.status = Blocked /\ ~present
    THEN [p EXCEPT !.status = Open, !.blockedBy = NoUnit] ELSE p

TickTempOpen(p, present) ==
  LET rest == IF p.tempOpenTurns > 0 THEN p.tempOpenTurns - 1 ELSE 0
      ticked == [p EXCEPT !.tempOpenTurns = rest] IN
  IF p.status # TempOpen THEN p
  ELSE IF rest > 0 THEN ticked
  ELSE IF present THEN [ticked EXCEPT !.status = Blocked]
  ELSE [ticked EXCEPT !.status = Open, !.blockedBy = NoUnit]

-----------------------------------------------------------------------------
(* Regions and the map *)

RegionState ==
  [controlledBy : Control, fortified : BOOLEAN, fortifyTurns : 0..2,
   unitsPresent : Seq(Unit)]

\* Mutant: the timer runs down on regions that are not fortified, too.
TickFortification_NoTest(r) ==
  [r EXCEPT !.fortifyTurns = @ - 1, !.fortified = r.fortifyTurns > 1]

\* Step 10 of the turn for one region.
TickFortification(r) ==
  IF r.fortified /\ r.fortifyTurns > 0
    THEN [r EXCEPT !.fortifyTurns = @ - 1, !.fortified = r.fortifyTurns > 1]
    ELSE r

Ends(p) == {PathMap[p].from, PathMap[p].to}

\* Where a traversal of p from region r ends: `to`, unless that is where it starts.
FarEnd(p, r) == IF r = PathMap[p].to THEN PathMap[p].from ELSE PathMap[p].to

Adjacent(a, b) == \E p \in Path : \/ PathMap[p] = [from |-> a, to |-> b]
                                  \/ PathMap[p] = [from |-> b, to |-> a]

\* Hops(a, b) <= n.  An id that is not on the map has no neighbours.
WithinHops(a, b, n) ==
  LET ball[k \in Nat] ==
        IF k = 0 THEN {a}
        ELSE ball[k - 1] \cup {r \in Region : \E q \in ball[k - 1] : Adjacent(q, r)}
  IN b \in ball[n]

-----------------------------------------------------------------------------
(* Combat.  A group is a sequence of unit ids: a slice that holds an id    *)
(* twice counts it twice, as the code's loops do.                          *)

TerrainBonus(terrain) ==
  CASE terrain = "FORTRESS" -> 2 [] terrain = "MOUNTAINS" -> 1 [] OTHER -> 0

\* What position j of a group gives position i: a leader's bonus, unless both
\* positions are held by the same unit.
LeadershipFrom(group, i, j) ==
  LET c == Config[group[j]] IN
  IF group[j] # group[i] /\ c.leadership THEN c.bonus ELSE 0

EffectiveStrength(units, group, i) ==
  Summed(units[group[i]].strength,
         [j \in DOMAIN group |-> LeadershipFrom(group, i, j)], Len(group))

GroupPower(units, group) ==
  Summed(0, [i \in DOMAIN group |-> EffectiveStrength(units, group, i)], Len(group))

DefenderPower(units, defenders, attackers, terrain, fortified) ==
  GroupPower(units, defenders)
    + (IF \E u \in Range(attackers) : Config[u].ignoresFortress
         THEN 0 ELSE TerrainBonus(terrain))
    + (IF fortified THEN 2 ELSE 0)

-----------------------------------------------------------------------------
(* Detection *)

IsNazgul(u) == Config[u].class = "Nazgul"
IsSauron(u) == Config[u].maia /\ Config[u].side = Shadow /\ Config[u].indestructible

SauronActiveInMordor(units) ==
  \E u \in Unit : IsSauron(u) /\ units[u].status = Active /\ units[u].region = "mordor"

NazgulViews(units) == {u \in Unit : IsNazgul(u) /\ units[u].status = Active}

EffectiveRange(units, u) ==
  Config[u].range + IF SauronActiveInMordor(units) THEN 1 ELSE 0

\* Mutant: detection starts in the last hidden turn.
RunDetection_TurnEarly(turn, units, rbRegion) ==
  /\ turn >= HiddenUntilTurn
  /\ \E u \in NazgulViews(units) :
       WithinHops(units[u].region, rbRegion, EffectiveRange(units, u))

RunDetection(turn, units, rbRegion) ==
  /\ turn > HiddenUntilTurn
  /\ \E u \in NazgulViews(units) :
       WithinHops(units[u].region, rbRegion, EffectiveRange(units, u))

-----------------------------------------------------------------------------
(* Orders and their validation (Topology 1).  `path` is the order's PathID *)
(* or TargetPathID, `route` its PathIDs or NewPathIDs, `region` its        *)
(* TargetRegion; an order that has none leaves them empty.                 *)

RouteOrders == {"ASSIGN_ROUTE", "REDIRECT_UNIT"}
PathOrders == {"BLOCK_PATH", "SEARCH_PATH"}
OrderType == RouteOrders \cup PathOrders \cup
  {"DESTROY_RING", "MAIA_ABILITY", "ATTACK_REGION", "REINFORCE_REGION",
   "FORTIFY_REGION", "DEPLOY_NAZGUL"}

PlayerSide(player) ==
  CASE player = "light" -> FreePeoples [] player = "dark" -> Shadow [] OTHER -> ""

Order == [type : OrderType, player : STRING, unit : STRING, turn : Nat,
          route : Seq(STRING), path : STRING, region : STRING]

\* Mutants of the four objections below: the rule is missing.
NoUnitObjection(o, units) == FALSE
NoRegionObjection(o, regions) == FALSE

\* What a rule objects to: the unit is not at an end of the path, not next to
\* the target, the target is its own side's, its ability is on cooldown.
NotAtEnds(o, units) == units[o.unit].region \notin Ends(o.path)
NotNext(o, units) == ~Adjacent(units[o.unit].region, o.region)
OwnTarget(o, regions) == regions[o.region].controlledBy = Config[o.unit].side
OnCooldown(o, units) == units[o.unit].cooldown > 0

\* The rule each order type adds to the common ones: "OK" or an error code.
ValidateTarget(o, units, paths, regions) ==
  CASE o.type \in RouteOrders ->
         IF ~(Range(o.route) \subseteq Path) THEN "INVALID_PATH"
         ELSE IF o.route # <<>> /\ paths[o.route[1]].status = Blocked
                THEN "PATH_BLOCKED" ELSE "OK"
    [] o.type \in PathOrders ->
         IF o.path \notin Path THEN "INVALID_PATH"
         ELSE IF NotAtEnds(o, units) THEN "UNIT_NOT_ADJACENT" ELSE "OK"
    [] o.type = "ATTACK_REGION" ->
         IF NotNext(o, units) \/ OwnTarget(o, regions) THEN "INVALID_TARGET" ELSE "OK"
    [] o.type = "MAIA_ABILITY" ->
         IF OnCooldown(o, units) THEN "ABILITY_ON_COOLDOWN" ELSE "OK"
    [] OTHER -> "OK"

\* Mutant: the duplicate rule is missing.
Validate_Twice(o, turn, seen, units, paths, regions) ==
  IF o.turn # turn THEN "WRONG_TURN"
  ELSE IF o.unit \notin Unit \/ PlayerSide(o.player) # Config[o.unit].side
    THEN "NOT_YOUR_UNIT"
  ELSE ValidateTarget(o, units, paths, regions)

Validate(o, turn, seen, units, paths, regions) ==
  IF o.unit \in seen THEN "DUPLICATE_UNIT_ORDER"
  ELSE IF o.turn # turn THEN "WRONG_TURN"
  ELSE IF o.unit \notin Unit \/ PlayerSide(o.player) # Config[o.unit].side
    THEN "NOT_YOUR_UNIT"
  ELSE ValidateTarget(o, units, paths, regions)
=============================================================================
