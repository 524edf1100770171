----------------------------- MODULE GameProofs -----------------------------
(***************************************************************************)
(* What a whole game keeps, for every configuration, map and set of orders.*)
(*                                                                         *)
(* First, what the Ring Bearer's public entry shows.  No attack order      *)
(* names the bearer: Validate asks for a path between the public region,   *)
(* "", and the target.  And combat only touches units that an attack order *)
(* or a list of a region names, so the bearer never gets into a band, a    *)
(* fight or a list (BearerInv), and its entry follows RB's route           *)
(* (RouteInv).  Then the lists themselves: the copy of a region that       *)
(* combat stores back is stale, but it covers the live list (ListInv) and  *)
(* names nobody who lives elsewhere (GhostInv).                            *)
(*                                                                         *)
(* Then the engine implements Match.  What links the two is GameInv: a     *)
(* turn is only ever in progress while the game is undecided, an           *)
(* announcement stands for a result, and nothing exposes the bearer while  *)
(* its start is hidden - so the captured bearer of step 13 implies a turn  *)
(* after HiddenUntilTurn.  Last comes what the result owes to the board it *)
(* froze with.                                                             *)
(***************************************************************************)
EXTENDS BoardProofs

\* BearerEntry but for the route: off the map, ACTIVE and in no list.
BearerHidden ==
  /\ units[Bearer].region = "" /\ units[Bearer].status = Active
  /\ \A r \in AnyRegion : Bearer \notin Range(regions[r].unitsPresent)

\* No unit list or pending attack of the fight at hand names the bearer.
BearerApart ==
  /\ \A k \in DOMAIN pending : pending[k].type = "ATTACK_REGION" => pending[k].unit # Bearer
  /\ step \in {"damage", "occupy", "repel"} =>
       Bearer \notin Range(roster) \cup Range(fight.attackers)
  /\ step = "damage" => Bearer \notin Range(fight.array)

BearerInv == BearerHidden /\ BearerApart

-----------------------------------------------------------------------------
(* What the helpers do to the bearer's entry and to the lists *)

\* The lists after moveUnit name whom they named before, and the unit moved.
LEMMA MoveListsMembers ==
  ASSUME TypeOK, NEW u \in Unit, NEW dest \in AnyRegion, NEW r \in AnyRegion
  PROVE  /\ Range(MoveLists(u, dest)[r].unitsPresent)
              \subseteq Range(regions[r].unitsPresent) \cup {u}
         /\ r # dest => Range(MoveLists(u, dest)[r].unitsPresent)
                          \subseteq Range(regions[r].unitsPresent)
<1> DEFINE here == units[u].region
           left == IF here = "" THEN regions
                   ELSE [regions EXCEPT ![here].unitsPresent = Without(@, u)]
<1>1. units[u].region \in AnyRegion /\ regions \in [AnyRegion -> RegionState]
  BY DEF TypeOK, UnitState
<1>2. \A q \in AnyRegion : regions[q].unitsPresent \in Seq(Unit)
  BY <1>1 DEF RegionState
<1>3. \A q \in AnyRegion : /\ Without(regions[q].unitsPresent, u) \in Seq(Unit)
                           /\ Range(Without(regions[q].unitsPresent, u))
                                = Range(regions[q].unitsPresent) \ {u}
  BY <1>2, WithoutProperties
<1>4. left \in [AnyRegion -> RegionState]
  BY <1>1, <1>3, ListUpdate
<1>5. \A q \in AnyRegion :
        /\ left[q].unitsPresent \in Seq(Unit)
        /\ Range(left[q].unitsPresent) \subseteq Range(regions[q].unitsPresent)
  <2> SUFFICES ASSUME NEW q \in AnyRegion
               PROVE  /\ left[q].unitsPresent \in Seq(Unit)
                      /\ Range(left[q].unitsPresent) \subseteq Range(regions[q].unitsPresent)
    OBVIOUS
  <2>1. CASE here # "" /\ q = here
    <3>1. left[q].unitsPresent = Without(regions[q].unitsPresent, u)
      BY <1>1, <2>1 DEF RegionState
    <3> QED
      BY <1>3, <3>1
  <2>2. CASE ~(here # "" /\ q = here)
    <3>1. left[q] = regions[q]
      BY <1>1, <2>2
    <3> QED
      BY <1>2, <3>1
  <2> QED
    BY <2>1, <2>2
<1> HIDE DEF left
<1>6. /\ WithOnce(left[dest].unitsPresent, u) \in Seq(Unit)
      /\ Range(WithOnce(left[dest].unitsPresent, u)) = Range(left[dest].unitsPresent) \cup {u}
  BY <1>5, WithOnceProperties
<1>7. MoveLists(u, dest) = [left EXCEPT ![dest].unitsPresent = WithOnce(@, u)]
  BY DEF MoveLists, left
<1>8. CASE r = dest
  <2>1. MoveLists(u, dest)[r].unitsPresent = WithOnce(left[dest].unitsPresent, u)
    BY <1>4, <1>7, <1>8 DEF RegionState
  <2> QED
    BY <1>5, <1>6, <1>8, <2>1
<1>9. CASE r # dest
  <2>1. MoveLists(u, dest)[r] = left[r]
    BY <1>4, <1>7, <1>9
  <2> QED
    BY <1>5, <2>1
<1> QED
  BY <1>8, <1>9

\* Moving another unit leaves the bearer hidden.
LEMMA MoveOther ==
  ASSUME TypeOK, BearerHidden, NEW u \in Unit, u # Bearer, NEW dest \in AnyRegion,
         regions' = MoveLists(u, dest), units'[Bearer].region = units[Bearer].region,
         units'[Bearer].status = units[Bearer].status
  PROVE  BearerHidden'
<1>1. \A r \in AnyRegion : Range(MoveLists(u, dest)[r].unitsPresent)
           \subseteq Range(regions[r].unitsPresent) \cup {u}
  BY MoveListsMembers
<1> QED
  BY <1>1 DEF BearerHidden

\* An attack order Submit accepts is not the bearer's.
LEMMA NoBearerAttack ==
  ASSUME NEW o \in Orders, NEW t \in 1..MaxTurns, TypeOK, BearerHidden,
         o.type = "ATTACK_REGION",
         Validate([o EXCEPT !.turn = t], turn, seen, units, paths, regions) = "OK"
  PROVE  o.unit # Bearer
<1> DEFINE q == [o EXCEPT !.turn = t]
<1>1. q.type = o.type /\ q.unit = o.unit
  BY OrdersAssumption DEF Order
<1> HIDE DEF q
<1>2. ValidateTarget(q, units, paths, regions) = "OK"
  BY DEF Validate, q
<1>3. Adjacent(units[o.unit].region, q.region)
  BY <1>1, <1>2 DEF ValidateTarget, RouteOrders, PathOrders, NotNext
<1>4. units[o.unit].region \in Region
  BY <1>3, PathEnds DEF Adjacent
<1> QED
  BY <1>4, MapAssumption DEF BearerHidden

-----------------------------------------------------------------------------
(* Seeding and intake *)

\* A seeded game hides the bearer and puts it in no list.
LEMMA SeedHidesBearer ==
  /\ SeedUnits[Bearer].region = "" /\ SeedUnits[Bearer].status = Active
  /\ \A r \in AnyRegion : Bearer \notin Range(SeedRegions[r].unitsPresent)
<1>1. SeedUnits[Bearer].region = "" /\ SeedUnits[Bearer].status = Active
  BY UnitsAssumption DEF SeedUnits, NewUnit
<1>2. ASSUME NEW r \in AnyRegion PROVE Bearer \notin Range(SeedRegions[r].unitsPresent)
  <2> DEFINE I == {k \in DOMAIN UnitOrder :
                     UnitOrder[k] # Bearer /\ Config[UnitOrder[k]].start = r}
  <2>1. SeedRegions[r].unitsPresent = Pick(UnitOrder, I)
    BY DEF SeedRegions
  <2>2. UnitOrder \in Seq(Unit) /\ I \in SUBSET DOMAIN UnitOrder
    BY UnitsAssumption
  <2>3. Range(Pick(UnitOrder, I)) = {UnitOrder[i] : i \in I}
    BY <2>2, PickProperties
  <2> QED
    BY <2>1, <2>3
<1> QED
  BY <1>1, <1>2

\* So both ways of seeding establish the invariant.
LEMMA SeedBearer == (Init => BearerInv) /\ (TypeInv /\ BearerInv /\ Reset => BearerInv')
<1>1. ASSUME Init PROVE BearerInv
  <2>1. units = SeedUnits /\ regions = SeedRegions /\ step = "idle" /\ pending = <<>>
    BY <1>1 DEF Init
  <2>2. DOMAIN pending = {}
    BY <2>1
  <2> QED
    BY <2>1, <2>2, SeedHidesBearer DEF BearerInv, BearerHidden, BearerApart
<1>2. ASSUME TypeInv, BearerInv, Reset PROVE BearerInv'
  <2>1. units' = SeedUnits /\ regions' = SeedRegions /\ step' = "idle" /\ pending' = <<>>
    BY <1>2 DEF Reset, control
  <2>2. DOMAIN pending' = {}
    BY <2>1
  <2> QED
    BY <2>1, <2>2, SeedHidesBearer DEF BearerInv, BearerHidden, BearerApart
<1> QED
  BY <1>1, <1>2

\* An accepted order keeps it.
LEMMA IntakeBearer ==
  ASSUME TypeInv, BearerInv, NEW o \in Orders, NEW t \in 1..MaxTurns,
         Submit([o EXCEPT !.turn = t])
  PROVE  BearerInv'
<1> DEFINE q == [o EXCEPT !.turn = t]
<1>1. TypeOK /\ pending \in Seq(Order)
  BY DEF TypeInv, TypeOK
<1>2. q.type = o.type /\ q.unit = o.unit
  BY OrdersAssumption DEF Order
<1>3. q.type = "ATTACK_REGION" => q.unit # Bearer
  BY <1>1, <1>2, NoBearerAttack DEF Submit, BearerInv
<1>4. pending' = Append(pending, q)
  BY DEF Submit
<1> HIDE DEF q
<1>5. \A k \in DOMAIN pending' : pending'[k] = q \/ (k \in DOMAIN pending /\ pending'[k] = pending[k])
  BY <1>1, <1>4
<1>6. UNCHANGED <<units, regions, step, roster, fight>> /\ step = "idle"
  BY DEF Submit, board, control
<1> QED
  BY <1>3, <1>5, <1>6 DEF BearerInv, BearerHidden, BearerApart

-----------------------------------------------------------------------------
(* The steps that fight nobody *)

\* Steps that touch no unit, list, pending order or running fight keep it.
LEMMA PassBearer ==
  ASSUME BearerInv,
         \/ BeginTurn \/ RoutesDone \/ PathOrder \/ Reconcile \/ FortifyDone \/ MaiaDone
         \/ AdvanceDone \/ FightDone \/ Detect \/ FinishTurn
  PROVE  BearerInv'
<1>1. UNCHANGED <<units, regions>>
  BY DEF BeginTurn, RoutesDone, PathOrder, Reconcile, FortifyDone, MaiaDone, AdvanceDone,
         FightDone, Detect, FinishTurn, board
<1>2. step' \notin {"damage", "occupy", "repel"}
  BY DEF BeginTurn, RoutesDone, PathOrder, Reconcile, FortifyDone, MaiaDone, AdvanceDone,
         FightDone, Detect, FinishTurn, Enter
<1>3. pending' = pending \/ DOMAIN pending' = {}
  <2>1. ASSUME pending' = <<>> PROVE DOMAIN pending' = {}
    BY <2>1
  <2>2. pending' = pending \/ pending' = <<>>
    BY DEF BeginTurn, RoutesDone, PathOrder, Reconcile, FortifyDone, MaiaDone, AdvanceDone,
           FightDone, Detect, FinishTurn, queue
  <2> QED
    BY <2>1, <2>2
<1> QED
  BY <1>1, <1>2, <1>3 DEF BearerInv, BearerHidden, BearerApart

\* Routes, abilities and timers change no unit's place, and no status but that
\* of a unit waiting to respawn.
LEMMA OrdersBearer ==
  ASSUME TypeInv, BearerInv, RouteOrder \/ MaiaAbility \/ TickTimers
  PROVE  BearerInv'
<1>1. TypeOK /\ units \in [Unit -> UnitState] /\ Bearer \in Unit
  BY UnitsAssumption DEF TypeInv, TypeOK
<1>2. \A s \in UnitState : \A n : /\ [s EXCEPT !.cooldown = n].region = s.region
                                 /\ [s EXCEPT !.cooldown = n].status = s.status
  BY DEF UnitState
<1>3. /\ units'[Bearer].region = units[Bearer].region
      /\ units'[Bearer].status = units[Bearer].status
  <2>1. CASE RouteOrder
    <3> DEFINE o == Head(todo)
               routed == [units EXCEPT ![o.unit].route = o.route, ![o.unit].routeIdx = 0]
    <3>1. units' = units \/ units' = routed
      BY <2>1 DEF RouteOrder
    <3>2. /\ routed[Bearer].region = units[Bearer].region
          /\ routed[Bearer].status = units[Bearer].status
      BY <1>1 DEF UnitState
    <3> QED
      BY <3>1, <3>2
  <2>2. CASE MaiaAbility
    <3> DEFINE o == Head(todo)
               used == [units EXCEPT ![o.unit].cooldown = Config[o.unit].cooldown]
    <3>1. units' = units \/ units' = used
      BY <2>2 DEF MaiaAbility
    <3>2. /\ used[Bearer].region = units[Bearer].region
          /\ used[Bearer].status = units[Bearer].status
      BY <1>1 DEF UnitState
    <3> QED
      BY <3>1, <3>2
  <2>3. CASE TickTimers
    <3>1. units'[Bearer] = TickUnit(units[Bearer], Config[Bearer])
      BY <1>1, <2>3 DEF TickTimers
    <3>2. units[Bearer].status = Active /\ units[Bearer] \in UnitState
      BY <1>1 DEF BearerInv, BearerHidden
    <3> QED
      BY <1>2, <3>1, <3>2 DEF TickUnit, Active, Respawning
  <2> QED
    BY <2>1, <2>2, <2>3
<1>4. \A r \in AnyRegion : regions'[r].unitsPresent = regions[r].unitsPresent
  <2>1. CASE TickTimers
    <3>1. \A q \in RegionState : TickFortification(q).unitsPresent = q.unitsPresent
      BY DEF TickFortification, RegionState
    <3> QED
      BY <1>1, <2>1, <3>1 DEF TickTimers, TypeOK
  <2>2. CASE RouteOrder \/ MaiaAbility
    BY <2>2 DEF RouteOrder, MaiaAbility
  <2> QED
    BY <2>1, <2>2
<1>5. UNCHANGED pending /\ step' \notin {"damage", "occupy", "repel"}
  BY DEF RouteOrder, MaiaAbility, TickTimers, queue
<1> QED
  BY <1>3, <1>4, <1>5 DEF BearerInv, BearerHidden, BearerApart

-----------------------------------------------------------------------------
(* Movement and combat *)

\* Deploying and advancing put only other units into lists: DeployNazgul asks for
\* a Nazgul, and the bearer's own step moves RB alone.
LEMMA MovementBearer ==
  ASSUME TypeInv, BearerInv, FortifyOrDeploy \/ AdvanceUnit
  PROVE  BearerInv'
<1>1. TypeOK /\ units \in [Unit -> UnitState] /\ regions \in [AnyRegion -> RegionState]
  BY DEF TypeInv, TypeOK
<1>2. UNCHANGED <<pending, step>> /\ step \notin {"damage", "occupy", "repel"}
  BY DEF FortifyOrDeploy, AdvanceUnit, queue
<1>3. BearerHidden'
  <2>1. CASE FortifyOrDeploy
    <3> DEFINE o == Head(todo)
               here == units[o.unit].region
               id == IF here \in Region THEN here ELSE ""
    <3>1. \/ /\ regions' = [regions EXCEPT
                 ![id] = [regions[here] EXCEPT !.fortified = TRUE, !.fortifyTurns = 2]]
             /\ units' = units
          \/ IsNazgul(o.unit) /\ MoveUnit(o.unit, o.region)
          \/ units' = units /\ regions' = regions
      BY <2>1 DEF FortifyOrDeploy
    <3>2. o.unit \in Unit /\ o.region \in AnyRegion /\ here \in AnyRegion
      BY <1>1, <2>1, TodoType DEF FortifyOrDeploy, Accepted, UnitState
    <3>3. CASE /\ regions' = [regions EXCEPT
                   ![id] = [regions[here] EXCEPT !.fortified = TRUE, !.fortifyTurns = 2]]
               /\ units' = units
      <4>1. \A q \in RegionState :
              [q EXCEPT !.fortified = TRUE, !.fortifyTurns = 2].unitsPresent = q.unitsPresent
        BY DEF RegionState
      <4>2. \A r \in AnyRegion : \/ regions'[r].unitsPresent = regions[r].unitsPresent
                                \/ regions'[r].unitsPresent = regions[here].unitsPresent
        BY <1>1, <3>2, <3>3, <4>1
      <4> QED
        BY <3>2, <3>3, <4>2 DEF BearerInv, BearerHidden
    <3>4. CASE IsNazgul(o.unit) /\ MoveUnit(o.unit, o.region)
      <4>1. o.unit # Bearer
        BY <3>2, <3>4, UnitsAssumption DEF IsNazgul
      <4>2. units'[Bearer] = units[Bearer]
        BY <1>1, <3>4, <4>1, UnitsAssumption DEF MoveUnit
      <4> QED
        BY <1>1, <3>2, <3>4, <4>1, <4>2, MoveOther DEF MoveUnit, BearerInv
    <3>5. CASE units' = units /\ regions' = regions
      BY <3>5 DEF BearerInv, BearerHidden
    <3> QED
      BY <3>1, <3>3, <3>4, <3>5
  <2>2. CASE AdvanceUnit
    <3> DEFINE u == Head(roster)
               route == IF u = Bearer THEN rb.route ELSE units[u].route
               idx == IF u = Bearer THEN rb.routeIdx ELSE units[u].routeIdx
               here == IF u = Bearer THEN rb.trueRegion ELSE units[u].region
               path == route[idx + 1]
               dest == FarEnd(path, here)
    <3>1. u \in Unit
      BY <1>1, <2>2, TailMembers DEF AdvanceUnit, TypeOK
    <3> HIDE DEF idx
    <3>2. \/ units' = units /\ regions' = regions
          \/ units' = [units EXCEPT ![u].routeIdx = idx + 1] /\ regions' = regions
          \/ /\ u # Bearer /\ units[u].status = Active /\ idx < Len(route)
             /\ units' = [units EXCEPT ![u].region = dest, ![u].routeIdx = idx + 1]
             /\ regions' = MoveLists(u, dest)
      BY <2>2 DEF AdvanceUnit, idx
    <3>3. CASE units' = units /\ regions' = regions
      BY <3>3 DEF BearerInv, BearerHidden
    <3>4. CASE units' = [units EXCEPT ![u].routeIdx = idx + 1] /\ regions' = regions
      <4>1. /\ units'[Bearer].region = units[Bearer].region
            /\ units'[Bearer].status = units[Bearer].status
        BY <1>1, <3>4, UnitsAssumption DEF UnitState
      <4> QED
        BY <3>4, <4>1 DEF BearerInv, BearerHidden
    <3>5. CASE /\ u # Bearer /\ units[u].status = Active /\ idx < Len(route)
               /\ units' = [units EXCEPT ![u].region = dest, ![u].routeIdx = idx + 1]
               /\ regions' = MoveLists(u, dest)
      <4>1. units[u] \in UnitState /\ route = units[u].route /\ idx = units[u].routeIdx
        BY <1>1, <3>1, <3>5 DEF idx
      <4>2. path \in Path
        <5>1. route \in Seq(Path) /\ idx \in Nat
          BY <4>1 DEF UnitState, Route
        <5>2. idx + 1 \in 1..Len(route)
          BY <3>5, <5>1
        <5> QED
          BY <5>1, <5>2
      <4>3. dest \in AnyRegion
        BY <4>2, PathEnds DEF AnyRegion
      <4>4. units'[Bearer] = units[Bearer]
        BY <1>1, <3>5, UnitsAssumption
      <4> QED
        BY <1>1, <3>1, <3>5, <4>3, <4>4, MoveOther DEF BearerInv
    <3> QED
      BY <3>2, <3>3, <3>4, <3>5
  <2> QED
    BY <2>1, <2>2
<1> QED
  BY <1>2, <1>3 DEF BearerInv, BearerApart

\* Damage to another unit leaves the bearer's entry alone.
LEMMA OtherUnit ==
  ASSUME TypeOK, NEW u \in Unit, u # Bearer, NEW s
  PROVE  [units EXCEPT ![u] = s][Bearer] = units[Bearer]
BY UnitsAssumption DEF TypeOK

\* The band of a new fight and the defenders it damages do not include the bearer.
LEMMA FightBearer ==
  ASSUME TypeInv, BearerInv, Fight
  PROVE  BearerInv'
<1>1. PICK t \in targets :
        LET orders == AttackOrdersOn(t)
            attackers == [k \in DOMAIN orders |-> orders[k].unit]
        IN /\ fight'.attackers = attackers
           /\ fight'.array = regions[t].unitsPresent
           /\ \/ /\ step' = "damage"
                 /\ Range(roster') \subseteq Range(regions[t].unitsPresent)
              \/ step' = "repel" /\ roster' = attackers
  BY FightSummary
<1> DEFINE orders == AttackOrdersOn(t)
           attackers == [k \in DOMAIN orders |-> orders[k].unit]
<1>2. Range(attackers) = {pending[i].unit : i \in {k \in DOMAIN pending :
                              pending[k].type = "ATTACK_REGION" /\ pending[k].region = t}}
  BY AttackersType
<1>3. Bearer \notin Range(attackers)
  BY <1>2 DEF BearerInv, BearerApart
<1> HIDE DEF attackers
<1>4. t \in AnyRegion
  BY DEF TypeInv, TypeOK, AnyRegion
<1>5. Bearer \notin Range(regions[t].unitsPresent)
  BY <1>4 DEF BearerInv, BearerHidden
<1>6. UNCHANGED <<units, regions, pending>>
  BY DEF Fight, board, queue
<1>7. /\ Bearer \notin Range(roster') \cup Range(fight'.attackers)
      /\ Bearer \notin Range(fight'.array)
  BY <1>1, <1>3, <1>5 DEF attackers
<1> QED
  BY <1>6, <1>7 DEF BearerInv, BearerHidden, BearerApart

\* The loops of a fight visit only the units of its band and its defenders.
LEMMA CombatBearer ==
  ASSUME TypeInv, BearerInv, DamageDefender \/ Conquer \/ Occupy \/ Repel
  PROVE  BearerInv'
<1>1. /\ TypeOK /\ units \in [Unit -> UnitState] /\ regions \in [AnyRegion -> RegionState]
      /\ Bearer \in Unit /\ fight \in FightState /\ roster \in Seq(Unit)
  BY UnitsAssumption DEF TypeInv, TypeOK
<1>2. /\ fight.array \in Seq(Unit) /\ fight.attackers \in Seq(Unit) /\ fight.target \in AnyRegion
  BY <1>1 DEF FightState
<1>3. UNCHANGED pending
  BY DEF DamageDefender, Conquer, Occupy, Repel, queue
<1>4. /\ step \in {"damage", "occupy", "repel"}
      /\ Bearer \notin Range(roster) /\ Bearer \notin Range(fight.attackers)
  BY DEF DamageDefender, Conquer, Occupy, Repel, BearerInv, BearerApart
<1>5. ASSUME roster # <<>>
      PROVE  /\ Head(roster) \in Unit /\ Head(roster) # Bearer
             /\ Bearer \notin Range(Tail(roster))
  BY <1>1, <1>4, <1>5, TailMembers
<1>6. CASE DamageDefender
  <2> DEFINE d == Head(roster)
             here == units[d].region
             hit == ApplyDamage(units[d], Config[d], fight.damage)
             left == [fight EXCEPT !.damage = @ - units[d].strength]
             kept == Without(regions[here].unitsPresent, d)
  <2>1. /\ units' = [units EXCEPT ![d] = hit] /\ roster' = Tail(roster) /\ step' = step
        /\ roster # <<>> /\ step = "damage"
        /\ \/ /\ regions' = [regions EXCEPT ![here].unitsPresent = kept]
              /\ fight' = IF here = fight.target
                            THEN [left EXCEPT !.array = Shifted(@, kept)] ELSE left
           \/ fight' = left /\ regions' = regions
    BY <1>6 DEF DamageDefender
  <2>2. d \in Unit /\ d # Bearer /\ here \in AnyRegion
    BY <1>1, <1>5, <2>1 DEF UnitState
  <2>3. regions[here].unitsPresent \in Seq(Unit)
    BY <1>1, <2>2 DEF RegionState
  <2>4. Range(kept) \subseteq Range(regions[here].unitsPresent)
    BY <2>3, WithoutProperties
  <2>5. Bearer \notin Range(kept) /\ Bearer \notin Range(fight.array)
    BY <2>1, <2>2, <2>4 DEF BearerInv, BearerHidden, BearerApart
  <2> HIDE DEF hit, kept
  <2>6. units'[Bearer] = units[Bearer]
    BY <1>1, <2>1, <2>2, OtherUnit
  <2>7. \A r \in AnyRegion : Bearer \notin Range(regions'[r].unitsPresent)
    <3>1. \A r \in AnyRegion : regions'[r].unitsPresent \in {regions[r].unitsPresent, kept}
      BY <1>1, <2>1, <2>2 DEF RegionState
    <3> QED
      BY <2>5, <3>1 DEF BearerInv, BearerHidden
  <2>8. fight'.attackers = fight.attackers
    BY <1>1, <2>1 DEF FightState
  <2>9. fight'.array = fight.array \/ fight'.array = Shifted(fight.array, kept)
    BY <1>1, <2>1 DEF FightState
  <2>10. Range(Shifted(fight.array, kept)) \subseteq Range(fight.array) \cup Range(kept)
    BY DEF Shifted, Range
  <2> QED
    BY <1>3, <1>4, <1>5, <2>1, <2>5, <2>6, <2>7, <2>8, <2>9, <2>10
       DEF BearerInv, BearerHidden, BearerApart
<1>7. CASE Conquer
  <2>1. /\ regions' = [regions EXCEPT ![fight.target].controlledBy = fight.side,
                                     ![fight.target].unitsPresent = fight.array]
        /\ units' = units /\ fight' = fight /\ roster' = fight.attackers
        /\ step = "damage" /\ step' = "occupy"
    BY <1>7 DEF Conquer
  <2>2. Bearer \notin Range(fight.array)
    BY <2>1 DEF BearerInv, BearerApart
  <2>3. \A r \in AnyRegion : regions'[r].unitsPresent \in {regions[r].unitsPresent, fight.array}
    BY <1>1, <1>2, <2>1 DEF RegionState
  <2> QED
    BY <1>3, <1>4, <2>1, <2>2, <2>3 DEF BearerInv, BearerHidden, BearerApart
<1>8. CASE Occupy
  <2>1. /\ roster # <<>> /\ roster' = Tail(roster) /\ fight' = fight /\ step' = "occupy"
        /\ \/ MoveUnit(Head(roster), fight.target)
           \/ UNCHANGED <<units, regions>>
    BY <1>8 DEF Occupy
  <2>2. CASE MoveUnit(Head(roster), fight.target)
    <3>1. units'[Bearer] = units[Bearer]
      BY <1>1, <1>5, <2>1, <2>2 DEF MoveUnit
    <3>2. BearerHidden'
      BY <1>1, <1>2, <1>5, <2>1, <2>2, <3>1, MoveOther DEF MoveUnit, BearerInv
    <3> QED
      BY <1>3, <1>4, <1>5, <2>1, <3>2 DEF BearerInv, BearerApart
  <2>3. CASE UNCHANGED <<units, regions>>
    BY <1>3, <1>4, <1>5, <2>1, <2>3 DEF BearerInv, BearerHidden, BearerApart
  <2> QED
    BY <2>1, <2>2, <2>3
<1>9. CASE Repel
  <2> DEFINE u == Head(roster)
             hit == ApplyDamage(units[u], Config[u], 1)
  <2>1. /\ roster # <<>> /\ roster' = Tail(roster) /\ fight' = fight /\ step' = "repel"
        /\ regions' = regions
        /\ units' = units \/ units' = [units EXCEPT ![u] = hit]
    BY <1>9 DEF Repel
  <2> HIDE DEF hit
  <2>2. units'[Bearer] = units[Bearer]
    BY <1>1, <1>5, <2>1, OtherUnit
  <2> QED
    BY <1>3, <1>4, <1>5, <2>1, <2>2 DEF BearerInv, BearerHidden, BearerApart
<1> QED
  BY <1>6, <1>7, <1>8, <1>9

-----------------------------------------------------------------------------
(* The theorem *)

\* BearerInv is inductive, given the types.
LEMMA StepBearer == TypeInv /\ BearerInv /\ [Next]_vars => BearerInv'
<1> SUFFICES ASSUME TypeInv, BearerInv, [Next]_vars PROVE BearerInv'
  OBVIOUS
<1>1. CASE UNCHANGED vars
  BY <1>1 DEF vars, board, queue, control, BearerInv, BearerHidden, BearerApart
<1>2. CASE \E o \in Orders, t \in 1..MaxTurns : Submit([o EXCEPT !.turn = t])
  BY <1>2, IntakeBearer
<1>3. CASE Reset
  BY <1>3, SeedBearer
<1>4. CASE ProcessTurn
  BY <1>4, PassBearer, OrdersBearer, MovementBearer, FightBearer, CombatBearer DEF ProcessTurn
<1> QED
  BY <1>1, <1>2, <1>3, <1>4 DEF Next

\* The bearer's entry repeats the route of RB and its index, and the last path
\* taken ends where the bearer is.
RouteInv ==
  /\ units[Bearer].route = rb.route /\ units[Bearer].routeIdx = rb.routeIdx
  /\ rb.routeIdx > 0 => rb.trueRegion \in Ends(rb.route[rb.routeIdx])

SameRoute ==
  /\ units'[Bearer].route = units[Bearer].route
  /\ units'[Bearer].routeIdx = units[Bearer].routeIdx
  /\ rb'.route = rb.route /\ rb'.routeIdx = rb.routeIdx /\ rb'.trueRegion = rb.trueRegion

\* Only RouteOrder and AdvanceUnit touch the bearer's route: a fight does not hit
\* it and no timer of its runs.
LEMMA RouteKept ==
  ASSUME TypeInv, BearerInv, ProcessTurn, ~RouteOrder, ~AdvanceUnit
  PROVE  SameRoute
<1>1. /\ units \in [Unit -> UnitState] /\ Bearer \in Unit /\ roster \in Seq(Unit)
      /\ rb \in RBState
  BY UnitsAssumption DEF TypeInv, TypeOK
<1>2. rb'.route = rb.route /\ rb'.routeIdx = rb.routeIdx /\ rb'.trueRegion = rb.trueRegion
  <2>1. \/ rb' = rb
        \/ rb' = [rb EXCEPT !.exposed = TRUE, !.lastDetectedTurn = turn,
                             !.lastDetectedRegion = rb.trueRegion]
        \/ rb' = [rb EXCEPT !.exposed = FALSE]
    BY DEF ProcessTurn, BeginTurn, RoutesDone, PathOrder, Reconcile, FortifyOrDeploy,
           FortifyDone, MaiaAbility, MaiaDone, AdvanceDone, Fight, DamageDefender, Conquer,
           Occupy, Repel, FightDone, TickTimers, Detect, FinishTurn, board
  <2> QED
    BY <1>1, <2>1 DEF RBState
<1>3. ASSUME \A v \in Unit : v = Bearer => units'[v] = units[v] PROVE SameRoute
  BY <1>1, <1>2, <1>3 DEF SameRoute
<1>4. ASSUME DamageDefender \/ Occupy \/ Repel
      PROVE  Head(roster) \in Unit /\ Head(roster) # Bearer
  <2>1. /\ roster # <<>>
        /\ Bearer \notin Range(roster)
    BY <1>4 DEF DamageDefender, Occupy, Repel, BearerInv, BearerApart
  <2> QED
    BY <1>1, <2>1, TailMembers
<1>5. CASE UNCHANGED units
  BY <1>3, <1>5
<1>6. CASE FortifyOrDeploy
  <2> DEFINE o == Head(todo)
  <2>1. \/ units' = units
        \/ IsNazgul(o.unit) /\ units' = [units EXCEPT ![o.unit].region = o.region]
    BY <1>6 DEF FortifyOrDeploy, MoveUnit
  <2>2. o.unit \in Unit
    BY <1>6, TodoType DEF FortifyOrDeploy, Accepted, TypeInv
  <2>3. IsNazgul(o.unit) => o.unit # Bearer
    BY <2>2, UnitsAssumption DEF IsNazgul
  <2> QED
    BY <1>1, <1>3, <2>1, <2>3
<1>7. CASE MaiaAbility
  <2> DEFINE o == Head(todo)
             used == [units EXCEPT ![o.unit].cooldown = Config[o.unit].cooldown]
  <2>1. units' = units \/ units' = used
    BY <1>7 DEF MaiaAbility
  <2>2. used[Bearer].route = units[Bearer].route /\ used[Bearer].routeIdx = units[Bearer].routeIdx
    BY <1>1 DEF UnitState
  <2> QED
    BY <1>2, <2>1, <2>2 DEF SameRoute
<1>8. CASE DamageDefender
  <2> DEFINE hit == ApplyDamage(units[Head(roster)], Config[Head(roster)], fight.damage)
  <2>1. units' = [units EXCEPT ![Head(roster)] = hit]
    BY <1>8 DEF DamageDefender
  <2> HIDE DEF hit
  <2> QED
    BY <1>1, <1>3, <1>4, <1>8, <2>1
<1>9. CASE Occupy
  <2>1. units' = units \/ units' = [units EXCEPT ![Head(roster)].region = fight.target]
    BY <1>9 DEF Occupy, MoveUnit
  <2> QED
    BY <1>1, <1>3, <1>4, <1>9, <2>1
<1>10. CASE Repel
  <2> DEFINE hit == ApplyDamage(units[Head(roster)], Config[Head(roster)], 1)
  <2>1. units' = units \/ units' = [units EXCEPT ![Head(roster)] = hit]
    BY <1>10 DEF Repel
  <2> HIDE DEF hit
  <2> QED
    BY <1>1, <1>3, <1>4, <1>10, <2>1
<1>11. CASE TickTimers
  <2>1. units'[Bearer] = TickUnit(units[Bearer], Config[Bearer])
    BY <1>1, <1>11 DEF TickTimers
  <2>2. units[Bearer].status = Active /\ units[Bearer] \in UnitState
    BY <1>1 DEF BearerInv, BearerHidden
  <2> DEFINE cool == IF units[Bearer].cooldown > 0 THEN units[Bearer].cooldown - 1 ELSE 0
  <2>3. units'[Bearer] = [units[Bearer] EXCEPT !.cooldown = cool]
    BY <2>1, <2>2 DEF TickUnit, Active, Respawning, UnitState
  <2> HIDE DEF cool
  <2>4. /\ units'[Bearer].route = units[Bearer].route
        /\ units'[Bearer].routeIdx = units[Bearer].routeIdx
    BY <2>2, <2>3 DEF UnitState
  <2> QED
    BY <1>2, <2>4 DEF SameRoute
<1> QED
  BY <1>5, <1>6, <1>7, <1>8, <1>9, <1>10, <1>11
     DEF ProcessTurn, BeginTurn, RoutesDone, PathOrder, Reconcile, FortifyDone, MaiaDone,
         AdvanceDone, Fight, Conquer, FightDone, Detect, FinishTurn, board

\* A new route starts at its first path.
LEMMA RouteOrderKeepsRoute ==
  ASSUME TypeInv, RouteInv, RouteOrder
  PROVE  RouteInv'
<1> DEFINE o == Head(todo)
           routed == [units EXCEPT ![o.unit].route = o.route, ![o.unit].routeIdx = 0]
<1>1. units \in [Unit -> UnitState] /\ Bearer \in Unit /\ rb \in RBState
  BY UnitsAssumption DEF TypeInv, TypeOK
<1>2. \/ units' = units /\ rb' = rb
      \/ /\ o.unit # Bearer /\ units' = routed /\ rb' = rb
      \/ /\ o.unit = Bearer /\ units' = routed
         /\ rb' = [rb EXCEPT !.route = o.route, !.routeIdx = 0]
  BY DEF RouteOrder, Rerouted
<1>3. CASE units' = units /\ rb' = rb
  BY <1>3 DEF RouteInv
<1>4. CASE o.unit # Bearer /\ units' = routed /\ rb' = rb
  <2>1. units'[Bearer] = units[Bearer]
    BY <1>1, <1>4
  <2> QED
    BY <1>4, <2>1 DEF RouteInv
<1>5. CASE /\ o.unit = Bearer /\ units' = routed
           /\ rb' = [rb EXCEPT !.route = o.route, !.routeIdx = 0]
  <2>1. units'[Bearer].route = o.route /\ units'[Bearer].routeIdx = 0
    BY <1>1, <1>5 DEF UnitState
  <2>2. rb'.route = o.route /\ rb'.routeIdx = 0
    BY <1>1, <1>5 DEF RBState
  <2>3. ~(rb'.routeIdx > 0)
    BY <2>2
  <2> QED
    BY <2>1, <2>2, <2>3, Zenon DEF RouteInv
<1> QED
  BY <1>2, <1>3, <1>4, <1>5

\* A step along it ends at an end of the path it took.
LEMMA AdvanceKeepsRoute ==
  ASSUME TypeInv, RouteInv, AdvanceUnit
  PROVE  RouteInv'
<1> DEFINE u == Head(roster)
           route == IF u = Bearer THEN rb.route ELSE units[u].route
           idx == IF u = Bearer THEN rb.routeIdx ELSE units[u].routeIdx
           here == IF u = Bearer THEN rb.trueRegion ELSE units[u].region
           path == route[idx + 1]
           dest == FarEnd(path, here)
           spotted == paths[path].surveillance >= 1 /\ turn > HiddenUntilTurn
<1>1. /\ units \in [Unit -> UnitState] /\ Bearer \in Unit /\ rb \in RBState
      /\ roster \in Seq(Unit)
  BY UnitsAssumption DEF TypeInv, TypeOK
<1> HIDE DEF spotted
<1>2. \/ UNCHANGED <<units, rb>>
      \/ /\ u = Bearer /\ idx < Len(route)
         /\ rb' = [rb EXCEPT !.trueRegion = dest, !.routeIdx = idx + 1,
                             !.exposed = @ \/ spotted]
         /\ units' = [units EXCEPT ![u].routeIdx = idx + 1]
      \/ /\ u # Bearer /\ rb' = rb
         /\ units' = [units EXCEPT ![u].region = dest, ![u].routeIdx = idx + 1]
  BY DEF AdvanceUnit, spotted
<1>3. CASE UNCHANGED <<units, rb>>
  BY <1>3 DEF RouteInv
<1>4. CASE /\ u # Bearer /\ rb' = rb
           /\ units' = [units EXCEPT ![u].region = dest, ![u].routeIdx = idx + 1]
  <2>1. units'[Bearer] = units[Bearer]
    BY <1>1, <1>4
  <2> QED
    BY <1>4, <2>1 DEF RouteInv
<1>5. CASE /\ u = Bearer /\ idx < Len(route)
           /\ rb' = [rb EXCEPT !.trueRegion = dest, !.routeIdx = idx + 1,
                               !.exposed = @ \/ spotted]
           /\ units' = [units EXCEPT ![u].routeIdx = idx + 1]
  <2>1. /\ units'[Bearer].route = units[Bearer].route
        /\ units'[Bearer].routeIdx = idx + 1
    BY <1>1, <1>5 DEF UnitState
  <2>2. rb'.route = rb.route /\ rb'.routeIdx = idx + 1 /\ rb'.trueRegion = dest
    BY <1>1, <1>5 DEF RBState
  <2>3. path = rb.route[idx + 1] /\ dest \in Ends(path)
    <3>1. route = rb.route /\ rb.route \in Seq(Path) /\ idx \in Nat
      BY <1>1, <1>5 DEF RBState, Route
    <3>2. path \in Path
      BY <1>5, <3>1, ElementOfSeq
    <3> QED
      BY <3>1 DEF FarEnd, Ends
  <2> HIDE DEF dest, path, idx
  <2> QED
    BY <2>1, <2>2, <2>3 DEF RouteInv
<1> QED
  BY <1>2, <1>3, <1>4, <1>5

\* A seeded bearer has no route.
LEMMA SeedRoute ==
  /\ SeedUnits[Bearer].route = SeedRB.route /\ SeedUnits[Bearer].routeIdx = SeedRB.routeIdx
  /\ ~(SeedRB.routeIdx > 0)
<1>1. SeedRB.route = <<>> /\ SeedRB.routeIdx = 0
  BY DEF SeedRB
<1>2. SeedUnits[Bearer].route = <<>> /\ SeedUnits[Bearer].routeIdx = 0
  BY UnitsAssumption DEF SeedUnits, NewUnit
<1> QED
  BY <1>1, <1>2

\* RouteInv is inductive, given BearerInv.
LEMMA StepRoute == TypeInv /\ BearerInv /\ RouteInv /\ [Next]_vars => RouteInv'
<1> SUFFICES ASSUME TypeInv, BearerInv, RouteInv, [Next]_vars PROVE RouteInv'
  OBVIOUS
<1>1. CASE UNCHANGED <<units, rb>>
  BY <1>1 DEF RouteInv
<1>2. CASE Reset
  <2>1. units' = SeedUnits /\ rb' = SeedRB
    BY <1>2 DEF Reset
  <2> QED
    BY <2>1, SeedRoute DEF RouteInv
<1>3. CASE ProcessTurn /\ ~RouteOrder /\ ~AdvanceUnit
  BY <1>3, RouteKept DEF RouteInv, SameRoute
<1> QED
  BY <1>1, <1>2, <1>3, RouteOrderKeepsRoute, AdvanceKeepsRoute
     DEF Next, ProcessTurn, Submit, vars, board

\* Whatever the players order and however the fights go, the bearer's public entry
\* keeps the empty region it was seeded with and stays ACTIVE, no list of units
\* present names it - and the entry tells its route and how far it has come, so
\* that the last path taken ends where the bearer is (engine.go:75, 205-218,
\* 400-412, moveUnit, resolveCombat).
THEOREM TheBearersEntry == Spec => []BearerEntry
<1>1. Init => TypeInv /\ BearerInv /\ RouteInv
  <2>1. Init => units = SeedUnits /\ rb = SeedRB
    BY DEF Init
  <2> QED
    BY <2>1, InitTypes, SeedBearer, SeedRoute DEF RouteInv
<1>2. TypeInv /\ BearerInv /\ RouteInv /\ [Next]_vars => TypeInv' /\ BearerInv' /\ RouteInv'
  BY StepTypes, StepBearer, StepRoute
<1>3. BearerInv /\ RouteInv => BearerEntry
  BY DEF BearerInv, BearerHidden, RouteInv, BearerEntry
<1> QED
  BY <1>1, <1>2, <1>3, PTL DEF Spec

-----------------------------------------------------------------------------
(* The lists and the units' own entries *)

\* What keeps every ACTIVE unit in the list of its region.  The copy of the target
\* that a fight stores back must hold everyone the list holds now; and no unit
\* that can fortify is ever at an id that is not on the map.
Covered ==
  LET live == regions[fight.target].unitsPresent
  IN Len(live) <= Len(fight.array) /\ Range(live) \subseteq Range(fight.array)

OnTheMap == \A u \in Unit : ~IsNazgul(u) => units[u].region \in Region \cup {""}

ListInv ==
  /\ ListedUnlessReborn
  /\ OnTheMap
  /\ step \in {"damage", "occupy", "repel"} => fight.target \in Region
  /\ step = "damage" => Covered

\* moveUnit lists the unit where it goes and takes nobody else from a list.
LEMMA MoveListed ==
  ASSUME TypeOK, NEW u \in Unit, NEW dest \in AnyRegion
  PROVE  /\ u \in Range(MoveLists(u, dest)[dest].unitsPresent)
         /\ \A r \in AnyRegion : \A v \in Range(regions[r].unitsPresent) :
              v # u => v \in Range(MoveLists(u, dest)[r].unitsPresent)
<1> DEFINE here == units[u].region
           left == IF here = "" THEN regions
                   ELSE [regions EXCEPT ![here].unitsPresent = Without(@, u)]
<1>1. here \in AnyRegion /\ regions \in [AnyRegion -> RegionState]
  BY DEF TypeOK, UnitState
<1>2. \A q \in AnyRegion : /\ regions[q].unitsPresent \in Seq(Unit)
                           /\ Without(regions[q].unitsPresent, u) \in Seq(Unit)
                           /\ Range(Without(regions[q].unitsPresent, u))
                                = Range(regions[q].unitsPresent) \ {u}
  BY <1>1, WithoutProperties DEF RegionState
<1>3. left \in [AnyRegion -> RegionState]
  BY <1>1, <1>2, ListUpdate
<1>4. \A r \in AnyRegion : \/ left[r].unitsPresent = regions[r].unitsPresent
                           \/ left[r].unitsPresent = Without(regions[r].unitsPresent, u)
  BY <1>1 DEF RegionState
<1>5. MoveLists(u, dest) = [left EXCEPT ![dest].unitsPresent = WithOnce(@, u)]
  BY DEF MoveLists
<1> HIDE DEF left, here
<1>6. /\ left[dest].unitsPresent \in Seq(Unit)
      /\ Range(WithOnce(left[dest].unitsPresent, u)) = Range(left[dest].unitsPresent) \cup {u}
  <2>1. left[dest].unitsPresent \in Seq(Unit)
    BY <1>2, <1>4
  <2> QED
    BY <2>1, WithOnceProperties
<1>7. /\ MoveLists(u, dest)[dest].unitsPresent = WithOnce(left[dest].unitsPresent, u)
      /\ \A r \in AnyRegion : r # dest => MoveLists(u, dest)[r] = left[r]
  BY <1>3, <1>5 DEF RegionState
<1>8. ASSUME NEW r \in AnyRegion, NEW v \in Range(regions[r].unitsPresent), v # u
      PROVE  v \in Range(MoveLists(u, dest)[r].unitsPresent)
  <2>1. v \in Range(left[r].unitsPresent)
    BY <1>2, <1>4, <1>8
  <2> QED
    BY <1>6, <1>7, <2>1
<1> QED
  BY <1>6, <1>7, <1>8

\* A unit stays listed where it is listed and stays, where it moves to, and is
\* excused where it comes back to.
LEMMA KeepListed ==
  ASSUME ListedUnlessReborn,
         \A u \in Unit \ {Bearer} : units'[u].status = Active =>
           \/ /\ units[u].status = Active /\ units'[u].region = units[u].region
              /\ u \in Range(regions[units[u].region].unitsPresent) =>
                   u \in Range(regions'[units[u].region].unitsPresent)
           \/ Config[u].respawns /\ units'[u].region = Config[u].start
           \/ u \in Range(regions'[units'[u].region].unitsPresent)
  PROVE  ListedUnlessReborn'
BY DEF ListedUnlessReborn, Reborn

\* Moving one unit keeps all listed.
LEMMA MoveKeepsListed ==
  ASSUME TypeOK, ListedUnlessReborn, NEW u \in Unit, NEW dest \in AnyRegion,
         regions' = MoveLists(u, dest), units'[u].region = dest,
         \A v \in Unit : v # u => units'[v] = units[v]
  PROVE  ListedUnlessReborn'
<1>1. units \in [Unit -> UnitState] /\ \A v \in Unit : units[v].region \in AnyRegion
  BY DEF TypeOK, UnitState
<1>2. u \in Range(regions'[units'[u].region].unitsPresent)
  BY MoveListed
<1>3. ASSUME NEW v \in Unit, v # u
      PROVE  v \in Range(regions[units[v].region].unitsPresent) =>
               v \in Range(regions'[units[v].region].unitsPresent)
  BY <1>1, <1>3, MoveListed
<1> QED
  BY <1>2, <1>3, KeepListed

\* A hit takes a unit nowhere but off the board, and who is ACTIVE after it was so
\* before, in the same place.
LEMMA HitStays ==
  ASSUME NEW s \in UnitState, NEW cfg \in UnitConfig, NEW d \in Int
  PROVE  /\ ApplyDamage(s, cfg, d).region \in {s.region, ""}
         /\ Sane(s, cfg) /\ d > 0 /\ ApplyDamage(s, cfg, d).status = Active =>
              s.status = Active /\ ApplyDamage(s, cfg, d).region = s.region
<1>1. s.strength \in Nat
  BY DEF UnitState
<1>2. ApplyDamage(s, cfg, d).region \in {s.region, ""}
  BY DEF ApplyDamage, UnitState
<1>3. ASSUME Sane(s, cfg), d > 0, ApplyDamage(s, cfg, d).status = Active
      PROVE  s.status = Active /\ ApplyDamage(s, cfg, d).region = s.region
  <2>1. CASE cfg.indestructible
    BY <1>3, <2>1 DEF ApplyDamage, UnitState, Sane
  <2>2. CASE ~cfg.indestructible /\ s.strength - d > 0
    <3>1. s.strength > 0
      BY <1>1, <1>3, <2>2
    <3>2. ApplyDamage(s, cfg, d) = [s EXCEPT !.strength = s.strength - d]
      BY <2>2 DEF ApplyDamage
    <3> QED
      BY <1>3, <3>1, <3>2 DEF UnitState, Sane
  <2>3. CASE ~cfg.indestructible /\ ~(s.strength - d > 0)
    BY <1>3, <2>3 DEF ApplyDamage, UnitState, Active, Respawning, Destroyed
  <2> QED
    BY <2>1, <2>2, <2>3
<1> QED
  BY <1>2, <1>3

\* The shifted array holds all that remove() kept.
LEMMA ShiftedCovers ==
  ASSUME NEW array \in Seq(Unit), NEW kept \in Seq(Unit), Len(kept) <= Len(array)
  PROVE  /\ Shifted(array, kept) \in Seq(Unit) /\ Len(Shifted(array, kept)) = Len(array)
         /\ Range(kept) \subseteq Range(Shifted(array, kept))
<1>1. /\ DOMAIN array = 1..Len(array) /\ DOMAIN kept = 1..Len(kept)
      /\ Len(array) \in Nat /\ Len(kept) \in Nat
  BY LenProperties
<1>2. DOMAIN kept \subseteq DOMAIN array
  BY <1>1
<1>3. DOMAIN Shifted(array, kept) = DOMAIN array
      /\ \A k \in DOMAIN kept : Shifted(array, kept)[k] = kept[k]
  BY <1>2 DEF Shifted
<1>4. Shifted(array, kept) \in Seq(Unit)
  BY ShiftedType
<1>5. Len(Shifted(array, kept)) = Len(array)
  BY <1>1, <1>3, <1>4, LenProperties
<1> QED
  BY <1>2, <1>3, <1>4, <1>5 DEF Range

\* Removing an element does not lengthen a list.
LEMMA WithoutShorter ==
  ASSUME NEW s \in Seq(Unit), NEW e
  PROVE  Len(Without(s, e)) <= Len(s)
<1> DEFINE I == {k \in DOMAIN s : s[k] # e}
<1>1. DOMAIN s = 1..Len(s) /\ Len(s) \in Nat
  BY LenProperties
<1>2. I \in SUBSET (1..Len(s)) /\ I \in SUBSET DOMAIN s
  BY <1>1
<1>3. Without(s, e) = Pick(s, I)
  BY DEF Without
<1> HIDE DEF I
<1>4. Len(Pick(s, I)) = Cardinality(I)
  BY <1>2, PickProperties
<1>5. Cardinality(I) \in 0..Len(s)
  BY <1>1, <1>2, RankIsOnto
<1> QED
  BY <1>1, <1>3, <1>4, <1>5

-----------------------------------------------------------------------------
(* Every step keeps the lists *)

\* A step may change no unit's place, no status and no list, or move one unit.
SamePlaces ==
  /\ \A u \in Unit : units'[u].region = units[u].region /\ units'[u].status = units[u].status
  /\ \A r \in AnyRegion : regions'[r].unitsPresent = regions[r].unitsPresent

Moved(u, dest) ==
  /\ units'[u].region = dest /\ units'[u].status = units[u].status
  /\ \A v \in Unit : v # u => units'[v] = units[v]
  /\ regions' = MoveLists(u, dest)

LEMMA PlacesKept ==
  ASSUME TypeInv, ListInv, step' \notin {"damage", "occupy", "repel"}, SamePlaces
  PROVE  ListInv'
<1> USE DEF SamePlaces
<1>1. \A u \in Unit : units[u].region \in AnyRegion
  BY DEF TypeInv, TypeOK, UnitState
<1>2. ListedUnlessReborn'
  BY <1>1, KeepListed DEF ListInv
<1> QED
  BY <1>2 DEF ListInv, OnTheMap

LEMMA QuietPlaces ==
  ASSUME TypeInv,
         \/ BeginTurn \/ RoutesDone \/ PathOrder \/ Reconcile \/ FortifyDone \/ MaiaDone
         \/ AdvanceDone \/ FightDone \/ Detect \/ FinishTurn \/ RouteOrder \/ MaiaAbility
  PROVE  SamePlaces /\ step' \notin {"damage", "occupy", "repel"}
<1> USE DEF SamePlaces
<1>1. units \in [Unit -> UnitState]
  BY DEF TypeInv, TypeOK
<1>2. UNCHANGED regions /\ step' \notin {"damage", "occupy", "repel"}
  BY DEF BeginTurn, RoutesDone, PathOrder, Reconcile, FortifyDone, MaiaDone, AdvanceDone,
         FightDone, Detect, FinishTurn, RouteOrder, MaiaAbility, board, Enter
<1>3. CASE UNCHANGED units
  BY <1>2, <1>3
<1>4. CASE RouteOrder
  <2> DEFINE o == Head(todo)
             routed == [units EXCEPT ![o.unit].route = o.route, ![o.unit].routeIdx = 0]
  <2>1. units' = units \/ units' = routed
    BY <1>4 DEF RouteOrder
  <2>2. \A u \in Unit : routed[u].region = units[u].region /\ routed[u].status = units[u].status
    BY <1>1 DEF UnitState
  <2> HIDE DEF routed
  <2> QED
    BY <1>2, <2>1, <2>2
<1>5. CASE MaiaAbility
  <2> DEFINE o == Head(todo)
             used == [units EXCEPT ![o.unit].cooldown = Config[o.unit].cooldown]
  <2>1. units' = units \/ units' = used
    BY <1>5 DEF MaiaAbility
  <2>2. \A u \in Unit : used[u].region = units[u].region /\ used[u].status = units[u].status
    BY <1>1 DEF UnitState
  <2> HIDE DEF used
  <2> QED
    BY <1>2, <2>1, <2>2
<1> QED
  BY <1>3, <1>4, <1>5
     DEF BeginTurn, RoutesDone, PathOrder, Reconcile, FortifyDone, MaiaDone, AdvanceDone,
         FightDone, Detect, FinishTurn, board

\* Steps 4, 5 and 7.  A unit that can fortify is on the map or, fallen and waiting,
\* at "": the entry it replaces is the one it copies.
LEMMA Movement ==
  ASSUME TypeInv, ListInv, FortifyOrDeploy \/ AdvanceUnit
  PROVE  /\ step' \notin {"damage", "occupy", "repel"}
         /\ \/ SamePlaces
            \/ \E u \in Unit, dest \in AnyRegion :
                 Moved(u, dest) /\ (IsNazgul(u) \/ dest \in Region)
<1>1. /\ TypeOK /\ units \in [Unit -> UnitState] /\ regions \in [AnyRegion -> RegionState]
      /\ ListedUnlessReborn /\ OnTheMap
  BY DEF TypeInv, TypeOK, ListInv
<1>2. step' \notin {"damage", "occupy", "repel"}
  BY DEF FortifyOrDeploy, AdvanceUnit
<1>3. CASE FortifyOrDeploy
  <2> DEFINE o == Head(todo)
             here == units[o.unit].region
             id == IF here \in Region THEN here ELSE ""
             fort == [regions[here] EXCEPT !.fortified = TRUE, !.fortifyTurns = 2]
  <2>1. \/ /\ Config[o.unit].canFortify /\ units' = units
           /\ regions' = [regions EXCEPT ![id] = fort]
        \/ IsNazgul(o.unit) /\ MoveUnit(o.unit, o.region)
        \/ units' = units /\ regions' = regions
    BY <1>3 DEF FortifyOrDeploy
  <2>2. o.unit \in Unit /\ o.region \in AnyRegion /\ here \in AnyRegion
    BY <1>1, <1>3, TodoType DEF FortifyOrDeploy, Accepted, UnitState
  <2>3. CASE /\ Config[o.unit].canFortify /\ units' = units
             /\ regions' = [regions EXCEPT ![id] = fort]
    <3>1. ~IsNazgul(o.unit)
      BY <2>2, <2>3, NazgulAssumption DEF IsNazgul
    <3>2. id = here
      BY <1>1, <2>2, <3>1 DEF OnTheMap
    <3>3. fort.unitsPresent = regions[here].unitsPresent
      BY <1>1, <2>2 DEF RegionState
    <3> HIDE DEF fort, id, here
    <3>4. \A r \in AnyRegion : regions'[r].unitsPresent = regions[r].unitsPresent
      BY <1>1, <2>3, <3>2, <3>3
    <3> QED
      BY <1>2, <2>3, <3>4 DEF SamePlaces
  <2>4. CASE IsNazgul(o.unit) /\ MoveUnit(o.unit, o.region)
    <3> HIDE DEF o
    <3>1. Moved(o.unit, o.region)
      BY <1>1, <2>2, <2>4 DEF MoveUnit, UnitState, Moved
    <3> QED
      BY <1>2, <2>2, <2>4, <3>1
  <2>5. CASE units' = units /\ regions' = regions
    BY <1>2, <2>5 DEF SamePlaces
  <2> QED
    BY <2>1, <2>3, <2>4, <2>5
<1>4. CASE AdvanceUnit
  <2> DEFINE u == Head(roster)
             route == IF u = Bearer THEN rb.route ELSE units[u].route
             idx == IF u = Bearer THEN rb.routeIdx ELSE units[u].routeIdx
             here == IF u = Bearer THEN rb.trueRegion ELSE units[u].region
             dest == FarEnd(route[idx + 1], here)
             counted == [units EXCEPT ![u].routeIdx = idx + 1]
             moved == [units EXCEPT ![u].region = dest, ![u].routeIdx = idx + 1]
  <2>1. u \in Unit
    BY <1>1, <1>4, TailMembers DEF AdvanceUnit, TypeOK
  <2>2. route \in Seq(Path) /\ idx \in Nat
    BY <1>1, <2>1 DEF TypeOK, UnitState, RBState, Route
  <2>3. \/ units' = units /\ regions' = regions
        \/ units' = counted /\ regions' = regions
        \/ idx < Len(route) /\ units' = moved /\ regions' = MoveLists(u, dest)
    BY <1>4 DEF AdvanceUnit
  <2> HIDE DEF idx, route
  <2>4. idx < Len(route) => dest \in Region
    <3>1. idx < Len(route) => route[idx + 1] \in Path
      BY <2>2, ElementOfSeq
    <3> QED
      BY <3>1, PathEnds
  <2> HIDE DEF dest
  <2>5. /\ \A v \in Unit : /\ counted[v].region = units[v].region
                            /\ counted[v].status = units[v].status
        /\ moved[u].region = dest /\ moved[u].status = units[u].status
        /\ \A v \in Unit : v # u => moved[v] = units[v]
    BY <1>1, <2>1 DEF UnitState
  <2> HIDE DEF counted, moved, u
  <2>6. CASE idx < Len(route) /\ units' = moved /\ regions' = MoveLists(u, dest)
    <3>1. dest \in Region /\ dest \in AnyRegion
      BY <2>4, <2>6 DEF AnyRegion
    <3>2. Moved(u, dest)
      BY <2>5, <2>6 DEF Moved
    <3> QED
      BY <1>2, <2>1, <3>1, <3>2
  <2> QED
    BY <1>2, <2>3, <2>5, <2>6 DEF SamePlaces
<1> QED
  BY <1>3, <1>4

LEMMA MovementLists ==
  ASSUME TypeInv, ListInv, FortifyOrDeploy \/ AdvanceUnit
  PROVE  ListInv'
<1>1. TypeOK /\ ListedUnlessReborn /\ OnTheMap
  BY DEF TypeInv, ListInv
<1>2. step' \notin {"damage", "occupy", "repel"}
  BY Movement
<1>3. ASSUME NEW u \in Unit, NEW dest \in AnyRegion, Moved(u, dest),
             IsNazgul(u) \/ dest \in Region
      PROVE  ListInv'
  <2>1. ListedUnlessReborn'
    BY <1>1, <1>3, MoveKeepsListed DEF Moved
  <2>2. OnTheMap'
    BY <1>1, <1>3 DEF OnTheMap, Moved
  <2> QED
    BY <1>2, <2>1, <2>2 DEF ListInv
<1> QED
  BY <1>2, <1>3, Movement, PlacesKept

\* Step 8 begins a fight with the list as it is.
LEMMA FightLists ==
  ASSUME TypeInv, ListInv, Fight
  PROVE  ListInv'
<1>1. PICK t \in targets :
        /\ fight'.target = t /\ fight'.array = regions[t].unitsPresent
        /\ step' = "damage" \/ step' = "repel"
  BY FightSummary
<1>2. UNCHANGED <<units, regions>>
  BY DEF Fight, board
<1>3. t \in Region /\ regions[t].unitsPresent \in Seq(Unit)
  BY DEF TypeInv, TypeOK, AnyRegion, RegionState
<1>4. Len(regions[t].unitsPresent) <= Len(regions[t].unitsPresent)
  <2>1. Len(regions[t].unitsPresent) \in Nat
    BY <1>3, LenProperties
  <2> QED
    BY <2>1
<1> QED
  BY <1>1, <1>2, <1>3, <1>4 DEF ListInv, ListedUnlessReborn, Reborn, OnTheMap, Covered

\* A defender that falls leaves its list; the array of the fight keeps the others.
LEMMA DamageLists ==
  ASSUME TypeInv, UnitCoherent, ListInv, DamageDefender
  PROVE  ListInv'
<1> DEFINE d == Head(roster)
           here == units[d].region
           live == regions[here].unitsPresent
           hit == ApplyDamage(units[d], Config[d], fight.damage)
           left == [fight EXCEPT !.damage = @ - units[d].strength]
           kept == Without(live, d)
           shifted == [left EXCEPT !.array = Shifted(@, kept)]
<1>1. /\ TypeOK /\ units \in [Unit -> UnitState] /\ regions \in [AnyRegion -> RegionState]
      /\ fight \in FightState /\ ListedUnlessReborn /\ OnTheMap
  BY DEF TypeInv, TypeOK, ListInv
<1>2. /\ d \in Unit /\ units[d] \in UnitState /\ Config[d] \in UnitConfig
      /\ Sane(units[d], Config[d]) /\ here \in AnyRegion
  BY <1>1, TailMembers, UnitsAssumption
     DEF DamageDefender, TypeOK, UnitCoherent, Sane, UnitState
<1>3. live \in Seq(Unit) /\ fight.array \in Seq(Unit) /\ fight.damage \in Int
  BY <1>1, <1>2 DEF RegionState, FightState
<1>4. /\ kept \in Seq(Unit) /\ Range(kept) = Range(live) \ {d} /\ Len(kept) <= Len(live)
  BY <1>3, WithoutProperties, WithoutShorter
<1>5. /\ step = "damage" /\ step' = "damage" /\ fight.damage > 0
      /\ units' = [units EXCEPT ![d] = hit]
      /\ \/ /\ hit.status # Active /\ here # ""
            /\ regions' = [regions EXCEPT ![here].unitsPresent = kept]
            /\ fight' = IF here = fight.target THEN shifted ELSE left
         \/ /\ hit.status = Active \/ here = ""
            /\ fight' = left /\ regions' = regions
  BY DEF DamageDefender
<1>6. /\ left.target = fight.target /\ left.array = fight.array
      /\ shifted.target = fight.target /\ shifted.array = Shifted(fight.array, kept)
  BY <1>1 DEF FightState
<1>7. /\ hit.region \in {here, ""}
      /\ hit.status = Active => units[d].status = Active /\ hit.region = here
  BY <1>2, <1>3, <1>5, HitStays
<1> HIDE DEF hit, left, shifted, kept
<1>8. /\ units'[d] = hit
      /\ \A v \in Unit : v # d => units'[v] = units[v]
  BY <1>1, <1>2, <1>5
<1>9. fight.target \in Region /\ fight'.target = fight.target
  BY <1>5, <1>6 DEF ListInv
<1>10. OnTheMap'
  BY <1>1, <1>2, <1>7, <1>8 DEF OnTheMap
<1>11. ListedUnlessReborn'
  <2>1. \A r \in AnyRegion : \A v \in Range(regions[r].unitsPresent) :
          v # d => v \in Range(regions'[r].unitsPresent)
    BY <1>1, <1>2, <1>4, <1>5 DEF RegionState
  <2>2. ASSUME NEW u \in Unit, units'[u].status = Active, u # d
        PROVE  /\ units[u].status = Active /\ units'[u].region = units[u].region
               /\ u \in Range(regions[units[u].region].unitsPresent) =>
                    u \in Range(regions'[units[u].region].unitsPresent)
    <3>1. units[u].region \in AnyRegion
      BY <1>1 DEF UnitState
    <3> QED
      BY <1>8, <2>1, <2>2, <3>1
  <2>3. ASSUME units'[d].status = Active
        PROVE  /\ units[d].status = Active /\ units'[d].region = units[d].region
               /\ regions' = regions
    BY <1>5, <1>7, <1>8, <2>3
  <2> QED
    BY <1>1, <2>2, <2>3, KeepListed
<1>12. Covered'
  <2>1. Covered
    BY <1>5 DEF ListInv
  <2>2. CASE fight'.array = fight.array
               /\ regions'[fight.target].unitsPresent = regions[fight.target].unitsPresent
    BY <1>9, <2>1, <2>2 DEF Covered
  <2>3. CASE here = fight.target /\ fight' = shifted
               /\ regions' = [regions EXCEPT ![here].unitsPresent = kept]
    <3>1. regions'[fight.target].unitsPresent = kept
      BY <1>1, <1>2, <2>3 DEF RegionState
    <3>2. Len(live) <= Len(fight.array)
      BY <2>1, <2>3 DEF Covered
    <3>3. Len(kept) <= Len(fight.array)
      <4>1. Len(kept) \in Nat /\ Len(live) \in Nat /\ Len(fight.array) \in Nat
        BY <1>3, <1>4, LenProperties
      <4> HIDE DEF live
      <4> QED
        BY <1>4, <3>2, <4>1
    <3>4. /\ Len(Shifted(fight.array, kept)) = Len(fight.array)
          /\ Range(kept) \subseteq Range(Shifted(fight.array, kept))
      BY <1>3, <1>4, <3>3, ShiftedCovers
    <3> QED
      BY <1>6, <1>9, <2>3, <3>1, <3>3, <3>4 DEF Covered
  <2>4. ASSUME here # fight.target
        PROVE  [regions EXCEPT ![here].unitsPresent = kept][fight.target].unitsPresent
                 = regions[fight.target].unitsPresent
    BY <1>1, <1>9, <2>4 DEF AnyRegion
  <2> QED
    BY <1>5, <1>6, <2>2, <2>3, <2>4
<1> QED
  BY <1>5, <1>9, <1>10, <1>11, <1>12 DEF ListInv

\* Conquest stores the array back, the attackers move in, a failed attack costs
\* its attackers a point: nobody who lives leaves a list he stands in.
LEMMA CombatLists ==
  ASSUME TypeInv, UnitCoherent, ListInv, Conquer \/ Occupy \/ Repel
  PROVE  ListInv'
<1>1. /\ TypeOK /\ units \in [Unit -> UnitState] /\ regions \in [AnyRegion -> RegionState]
      /\ fight \in FightState /\ roster \in Seq(Unit) /\ ListedUnlessReborn /\ OnTheMap
  BY DEF TypeInv, TypeOK, ListInv
<1>2. fight.target \in Region /\ fight.target \in AnyRegion
  BY DEF ListInv, Conquer, Occupy, Repel, AnyRegion
<1>3. CASE Conquer
  <2>1. /\ step = "damage" /\ step' = "occupy" /\ fight' = fight /\ units' = units
        /\ regions' = [regions EXCEPT ![fight.target].controlledBy = fight.side,
                                      ![fight.target].unitsPresent = fight.array]
    BY <1>3 DEF Conquer
  <2>2. Covered
    BY <2>1 DEF ListInv
  <2>3. /\ regions'[fight.target].unitsPresent = fight.array
        /\ \A r \in AnyRegion : r # fight.target => regions'[r] = regions[r]
    BY <1>1, <1>2, <2>1 DEF RegionState
  <2>4. \A r \in AnyRegion :
          Range(regions[r].unitsPresent) \subseteq Range(regions'[r].unitsPresent)
    BY <2>2, <2>3 DEF Covered
  <2>5. \A u \in Unit : units[u].region \in AnyRegion
    BY <1>1 DEF UnitState
  <2>6. ListedUnlessReborn'
    BY <1>1, <2>1, <2>4, <2>5, KeepListed
  <2> QED
    BY <1>1, <1>2, <2>1, <2>6 DEF ListInv, OnTheMap
<1>4. CASE Occupy
  <2>1. /\ roster # <<>> /\ fight' = fight /\ step' = "occupy"
        /\ \/ MoveUnit(Head(roster), fight.target)
           \/ UNCHANGED <<units, regions>>
    BY <1>4 DEF Occupy
  <2>2. Head(roster) \in Unit
    BY <1>1, <2>1, TailMembers
  <2>3. CASE MoveUnit(Head(roster), fight.target)
    <3>1. /\ units'[Head(roster)].region = fight.target
          /\ regions' = MoveLists(Head(roster), fight.target)
          /\ \A v \in Unit : v # Head(roster) => units'[v] = units[v]
      BY <1>1, <2>2, <2>3 DEF MoveUnit, UnitState
    <3>2. ListedUnlessReborn'
      BY <1>1, <1>2, <2>2, <3>1, MoveKeepsListed
    <3>3. OnTheMap'
      BY <1>1, <1>2, <3>1 DEF OnTheMap
    <3> QED
      BY <1>2, <2>1, <3>2, <3>3 DEF ListInv
  <2>4. CASE UNCHANGED <<units, regions>>
    BY <1>1, <1>2, <2>1, <2>4 DEF ListInv, ListedUnlessReborn, Reborn, OnTheMap
  <2> QED
    BY <2>1, <2>3, <2>4
<1>5. CASE Repel
  <2> DEFINE u == Head(roster)
             hit == ApplyDamage(units[u], Config[u], 1)
  <2>1. /\ roster # <<>> /\ fight' = fight /\ step' = "repel" /\ regions' = regions
        /\ units' = units \/ units' = [units EXCEPT ![u] = hit]
    BY <1>5 DEF Repel
  <2>2. /\ u \in Unit /\ units[u] \in UnitState /\ Config[u] \in UnitConfig
        /\ Sane(units[u], Config[u])
    BY <1>1, <2>1, TailMembers, UnitsAssumption DEF UnitCoherent, Sane
  <2>3. /\ hit.region \in {units[u].region, ""}
        /\ hit.status = Active => units[u].status = Active /\ hit.region = units[u].region
    <3>1. 1 \in Int /\ 1 > 0
      OBVIOUS
    <3> QED
      BY <2>2, <3>1, HitStays
  <2> HIDE DEF hit
  <2>4. \A v \in Unit : \/ units'[v] = units[v]
                        \/ v = u /\ units'[v] = hit
    BY <1>1, <2>1
  <2> HIDE DEF u
  <2>5. ListedUnlessReborn'
    BY <1>1, <2>1, <2>3, <2>4, KeepListed
  <2>6. OnTheMap'
    BY <1>1, <2>3, <2>4 DEF OnTheMap
  <2> QED
    BY <1>2, <2>1, <2>5, <2>6 DEF ListInv
<1> QED
  BY <1>3, <1>4, <1>5

\* Step 11 excuses those it brings back.
LEMMA TimerLists ==
  ASSUME TypeInv, UnitCoherent, ListInv, TickTimers
  PROVE  ListInv'
<1>1. /\ \A u \in Unit : /\ units[u] \in UnitState /\ Config[u] \in UnitConfig
                         /\ Sane(units[u], Config[u])
      /\ \A r \in AnyRegion : regions[r] \in RegionState
      /\ ListedUnlessReborn /\ OnTheMap
  BY UnitsAssumption DEF TypeInv, TypeOK, UnitCoherent, Sane, ListInv
<1>2. \A r \in AnyRegion : regions'[r].unitsPresent = regions[r].unitsPresent
  <2>1. \A q \in RegionState : TickFortification(q).unitsPresent = q.unitsPresent
    BY DEF TickFortification, RegionState
  <2> QED
    BY <1>1, <2>1 DEF TickTimers
<1>3. ASSUME NEW s \in UnitState, NEW cfg \in UnitConfig
      PROVE  \/ /\ TickUnit(s, cfg).status = s.status /\ TickUnit(s, cfg).region = s.region
             \/ /\ s.status = Respawning /\ TickUnit(s, cfg).status = Active
                /\ TickUnit(s, cfg).region = cfg.start
  <2> DEFINE wait == IF s.respawnTurns > 0 THEN s.respawnTurns - 1 ELSE 0
             waiting == [s EXCEPT !.respawnTurns = wait]
             back == [s EXCEPT !.respawnTurns = wait, !.status = Active,
                               !.strength = cfg.strength, !.region = cfg.start]
             cool == IF s.cooldown > 0 THEN s.cooldown - 1 ELSE 0
  <2>1. \/ TickUnit(s, cfg) = [s EXCEPT !.cooldown = cool]
        \/ TickUnit(s, cfg) = [waiting EXCEPT !.cooldown = cool]
        \/ s.status = Respawning /\ TickUnit(s, cfg) = [back EXCEPT !.cooldown = cool]
    BY DEF TickUnit, UnitState
  <2> HIDE DEF wait, cool
  <2>2. /\ [s EXCEPT !.cooldown = cool].status = s.status
        /\ [s EXCEPT !.cooldown = cool].region = s.region
        /\ [waiting EXCEPT !.cooldown = cool].status = s.status
        /\ [waiting EXCEPT !.cooldown = cool].region = s.region
        /\ [back EXCEPT !.cooldown = cool].status = Active
        /\ [back EXCEPT !.cooldown = cool].region = cfg.start
    BY DEF UnitState
  <2> HIDE DEF waiting, back
  <2> QED
    BY <2>1, <2>2
<1>4. \A u \in Unit : units'[u] = TickUnit(units[u], Config[u])
  BY DEF TickTimers
<1>5. \A u \in Unit :
        \/ units'[u].status = units[u].status /\ units'[u].region = units[u].region
        \/ /\ units[u].status = Respawning /\ units'[u].region = Config[u].start
           /\ Config[u].respawns /\ Config[u].start \in Region
  <2> SUFFICES ASSUME NEW u \in Unit
               PROVE  \/ /\ units'[u].status = units[u].status
                         /\ units'[u].region = units[u].region
                      \/ /\ units[u].status = Respawning /\ units'[u].region = Config[u].start
                         /\ Config[u].respawns /\ Config[u].start \in Region
    OBVIOUS
  <2>1. \/ /\ units'[u].status = units[u].status /\ units'[u].region = units[u].region
        \/ units[u].status = Respawning /\ units'[u].region = Config[u].start
    BY <1>1, <1>3, <1>4
  <2>2. units[u].status = Respawning => Config[u].respawns
    BY <1>1 DEF Sane
  <2>3. Config[u].start \in Region
    BY <1>1 DEF UnitConfig
  <2> QED
    BY <2>1, <2>2, <2>3
<1>6. \A u \in Unit : units[u].region \in AnyRegion
  BY <1>1 DEF UnitState
<1>7. ListedUnlessReborn'
  BY <1>1, <1>2, <1>5, <1>6, KeepListed
<1>8. OnTheMap'
  BY <1>1, <1>5 DEF OnTheMap
<1> QED
  BY <1>7, <1>8 DEF TickTimers, ListInv

\* A seeded game lists every unit but the bearer at its start.
LEMMA SeedListed ==
  /\ \A u \in Unit \ {Bearer} :
       u \in Range(SeedRegions[SeedUnits[u].region].unitsPresent)
  /\ \A u \in Unit : SeedUnits[u].region \in Region \cup {""}
<1>1. \A u \in Unit : /\ SeedUnits[u].region = IF u = Bearer THEN "" ELSE Config[u].start
                      /\ Config[u].start \in Region
  BY UnitsAssumption DEF SeedUnits, NewUnit, UnitConfig
<1>2. ASSUME NEW u \in Unit \ {Bearer}
      PROVE  u \in Range(SeedRegions[SeedUnits[u].region].unitsPresent)
  <2> DEFINE r == Config[u].start
             I == {k \in DOMAIN UnitOrder :
                     UnitOrder[k] # Bearer /\ Config[UnitOrder[k]].start = r}
  <2>1. SeedUnits[u].region = r /\ r \in AnyRegion
    BY <1>1 DEF AnyRegion
  <2>2. SeedRegions[r].unitsPresent = Pick(UnitOrder, I)
    BY <2>1 DEF SeedRegions
  <2>3. PICK k \in DOMAIN UnitOrder : UnitOrder[k] = u
    BY UnitsAssumption
  <2>4. UnitOrder \in Seq(Unit) /\ I \in SUBSET DOMAIN UnitOrder /\ k \in I
    BY <2>3, UnitsAssumption
  <2> HIDE DEF I, r
  <2>5. Range(Pick(UnitOrder, I)) = {UnitOrder[i] : i \in I}
    BY <2>4, PickProperties
  <2> QED
    BY <2>1, <2>2, <2>3, <2>4, <2>5
<1> QED
  BY <1>1, <1>2

\* ListInv is inductive, given the coherence of units.
LEMMA StepLists == TypeInv /\ UnitCoherent /\ ListInv /\ [Next]_vars => ListInv'
<1> SUFFICES ASSUME TypeInv, UnitCoherent, ListInv, [Next]_vars PROVE ListInv'
  OBVIOUS
<1>1. CASE UNCHANGED <<units, regions, step, fight>>
  BY <1>1 DEF ListInv, ListedUnlessReborn, Reborn, OnTheMap, Covered
<1>2. CASE Reset
  <2>1. units' = SeedUnits /\ regions' = SeedRegions /\ step' = "idle"
    BY <1>2 DEF Reset, control
  <2> QED
    BY <2>1, SeedListed DEF ListInv, ListedUnlessReborn, OnTheMap
<1>3. CASE ProcessTurn
  BY <1>3, QuietPlaces, PlacesKept, MovementLists, FightLists, DamageLists, CombatLists, TimerLists
     DEF ProcessTurn
<1> QED
  BY <1>1, <1>2, <1>3 DEF Next, Submit, vars, board, control

\* The three invariants together.
LEMMA ListInvariant == Spec => [](TypeInv /\ UnitCoherent /\ ListInv)
<1>1. Init => TypeInv /\ UnitCoherent /\ ListInv
  <2>1. ASSUME Init PROVE UnitCoherent /\ ListInv
    <3>1. units = SeedUnits /\ regions = SeedRegions /\ step = "idle"
      BY <2>1 DEF Init
    <3> QED
      BY <3>1, SeedSane, SeedListed
         DEF UnitCoherent, Sane, ListInv, ListedUnlessReborn, OnTheMap
  <2> QED
    BY <2>1, InitTypes
<1>2. TypeInv /\ UnitCoherent /\ ListInv /\ [Next]_vars
        => TypeInv' /\ UnitCoherent' /\ ListInv'
  BY StepTypes, StepUnits, StepLists
<1> QED
  BY <1>1, <1>2, PTL DEF Spec

\* moveUnit, remove and the copy of the region a fight stores back never lose a
\* unit, in any game: whoever is ACTIVE is in the list of the region it is in,
\* except a unit step 11 sent home (state.go:53, engine.go:480-512).
THEOREM NobodyIsLost == Spec => []ListedUnlessReborn
<1>1. ListInv => ListedUnlessReborn
  BY DEF ListInv
<1> QED
  BY <1>1, ListInvariant, PTL

-----------------------------------------------------------------------------
(* Nobody is left behind *)

\* Whom a list may not name but where it stands.
Anchored(u) == units[u].status = Active /\ ~Config[u].respawns

\* The array a fight will store back names no such unit that stands elsewhere.
GhostInv ==
  /\ NoGhosts
  /\ step = "damage" =>
       \A u \in Range(fight.array) : Anchored(u) => units[u].region = fight.target

\* A list's unit was in the list, and has neither moved nor just come to life; or
\* it has moved here.
LEMMA KeepAnchored ==
  ASSUME NoGhosts,
         \A r \in AnyRegion \ {""} : \A u \in Range(regions'[r].unitsPresent) :
           units'[u].status = Active /\ ~Config[u].respawns =>
             \/ /\ u \in Range(regions[r].unitsPresent) /\ units[u].status = Active
                /\ units'[u].region = units[u].region
             \/ units'[u].region = r
  PROVE  NoGhosts'
BY DEF NoGhosts

LEMMA SeqRange == ASSUME NEW S, NEW s \in Seq(S) PROVE Range(s) \subseteq S
BY DEF Range

LEMMA PlacesAnchored ==
  ASSUME TypeInv, GhostInv, step' \notin {"damage", "occupy", "repel"}, SamePlaces
  PROVE  GhostInv'
<1>1. \A r \in AnyRegion : Range(regions[r].unitsPresent) \subseteq Unit
  BY SeqRange DEF TypeInv, TypeOK, RegionState
<1>2. NoGhosts'
  BY <1>1, KeepAnchored DEF SamePlaces, GhostInv
<1> QED
  BY <1>2 DEF GhostInv

\* A unit that moves leaves its old list.
LEMMA LeavesOld ==
  ASSUME TypeOK, NEW u \in Unit, NEW dest \in AnyRegion, NEW r \in AnyRegion,
         r # dest, r # "", units[u].region = r
  PROVE  u \notin Range(MoveLists(u, dest)[r].unitsPresent)
<1> DEFINE left == [regions EXCEPT ![r].unitsPresent = Without(@, u)]
<1>1. regions \in [AnyRegion -> RegionState]
  BY DEF TypeOK
<1>2. /\ Without(regions[r].unitsPresent, u) \in Seq(Unit)
      /\ Range(Without(regions[r].unitsPresent, u)) = Range(regions[r].unitsPresent) \ {u}
  BY <1>1, WithoutProperties DEF RegionState
<1>3. left \in [AnyRegion -> RegionState]
  BY <1>1, <1>2, ListUpdate
<1>4. left[r].unitsPresent = Without(regions[r].unitsPresent, u)
  BY <1>1 DEF RegionState
<1>5. MoveLists(u, dest) = [left EXCEPT ![dest].unitsPresent = WithOnce(@, u)]
  BY DEF MoveLists
<1> HIDE DEF left
<1>6. MoveLists(u, dest)[r] = left[r]
  BY <1>3, <1>5
<1> QED
  BY <1>2, <1>4, <1>6

LEMMA MoveAnchored ==
  ASSUME TypeOK, NoGhosts, NEW u \in Unit, NEW dest \in AnyRegion, Moved(u, dest)
  PROVE  NoGhosts'
<1>1. ASSUME NEW r \in AnyRegion \ {""}, NEW v \in Range(regions'[r].unitsPresent),
             units'[v].status = Active, ~Config[v].respawns
      PROVE  \/ /\ v \in Range(regions[r].unitsPresent) /\ units[v].status = Active
                /\ units'[v].region = units[v].region
             \/ units'[v].region = r
  <2>1. v \in Range(regions[r].unitsPresent) \/ v = u
    <3>1. Range(MoveLists(u, dest)[r].unitsPresent)
            \subseteq Range(regions[r].unitsPresent) \cup {u}
      BY MoveListsMembers
    <3>2. v \in Range(MoveLists(u, dest)[r].unitsPresent)
      BY <1>1 DEF Moved
    <3> QED
      BY <3>1, <3>2
  <2>2. CASE v = u /\ r = dest
    BY <2>2 DEF Moved
  <2>3. CASE v = u /\ r # dest
    <3>1. units[u].region # r
      BY <1>1, <2>3, LeavesOld DEF Moved
    <3>2. units[u].status = Active
      BY <1>1, <2>3 DEF Moved
    <3>3. u \notin Range(regions[r].unitsPresent)
      BY <1>1, <2>3, <3>1, <3>2 DEF NoGhosts
    <3>4. u \in Range(regions[r].unitsPresent)
      <4>1. Range(MoveLists(u, dest)[r].unitsPresent) \subseteq Range(regions[r].unitsPresent)
        BY <2>3, MoveListsMembers
      <4> QED
        BY <1>1, <2>3, <4>1 DEF Moved
    <3> QED
      BY <3>3, <3>4
  <2>4. CASE v # u
    <3>1. v \in Unit
      BY <2>1, <2>4, SeqRange DEF TypeOK, RegionState
    <3> QED
      BY <1>1, <2>1, <2>4, <3>1 DEF Moved
  <2> QED
    BY <2>2, <2>3, <2>4
<1> QED
  BY <1>1, KeepAnchored

\* A fight starts from a list, which is as it should be.
LEMMA FightAnchored ==
  ASSUME TypeInv, GhostInv, Fight
  PROVE  GhostInv'
<1>1. PICK t \in targets : fight'.target = t /\ fight'.array = regions[t].unitsPresent
  BY FightSummary
<1>2. UNCHANGED <<units, regions>>
  BY DEF Fight, board
<1>3. t \in AnyRegion \ {""}
  BY MapAssumption DEF TypeInv, TypeOK, AnyRegion
<1> QED
  BY <1>1, <1>2, <1>3 DEF GhostInv, NoGhosts, Anchored

\* A hit moves nobody who stays ACTIVE, and remove() only shifts the array.
LEMMA DamageAnchored ==
  ASSUME TypeInv, UnitCoherent, ListInv, GhostInv, DamageDefender
  PROVE  GhostInv'
<1> DEFINE d == Head(roster)
           here == units[d].region
           live == regions[here].unitsPresent
           hit == ApplyDamage(units[d], Config[d], fight.damage)
           left == [fight EXCEPT !.damage = @ - units[d].strength]
           kept == Without(live, d)
           shifted == [left EXCEPT !.array = Shifted(@, kept)]
<1>1. /\ TypeOK /\ units \in [Unit -> UnitState] /\ regions \in [AnyRegion -> RegionState]
      /\ fight \in FightState
  BY DEF TypeInv, TypeOK
<1>2. /\ d \in Unit /\ units[d] \in UnitState /\ Config[d] \in UnitConfig
      /\ Sane(units[d], Config[d]) /\ here \in AnyRegion
  BY <1>1, TailMembers, UnitsAssumption
     DEF DamageDefender, TypeOK, UnitCoherent, Sane, UnitState
<1>3. live \in Seq(Unit) /\ fight.array \in Seq(Unit) /\ fight.damage \in Int
  BY <1>1, <1>2 DEF RegionState, FightState
<1>4. Range(kept) \subseteq Range(live) /\ Range(live) \subseteq Unit
      /\ Range(fight.array) \subseteq Unit
  BY <1>3, WithoutProperties, SeqRange
<1>5. /\ step = "damage" /\ fight.damage > 0
      /\ units' = [units EXCEPT ![d] = hit]
      /\ \/ /\ regions' = [regions EXCEPT ![here].unitsPresent = kept]
            /\ fight' = IF here = fight.target THEN shifted ELSE left
         \/ fight' = left /\ regions' = regions
  BY DEF DamageDefender
<1>6. /\ left.target = fight.target /\ left.array = fight.array
      /\ shifted.target = fight.target /\ shifted.array = Shifted(fight.array, kept)
  BY <1>1 DEF FightState
<1>7. hit.status = Active => units[d].status = Active /\ hit.region = here
  BY <1>2, <1>3, <1>5, HitStays
<1>8. Range(Shifted(fight.array, kept)) \subseteq Range(fight.array) \cup Range(kept)
  BY DEF Shifted, Range
<1> HIDE DEF hit, left, shifted, kept
<1>9. \A u \in Unit : units'[u].status = Active =>
        units[u].status = Active /\ units'[u].region = units[u].region
  BY <1>1, <1>2, <1>5, <1>7
<1>10. \A r \in AnyRegion :
         Range(regions'[r].unitsPresent) \subseteq Range(regions[r].unitsPresent)
  BY <1>1, <1>2, <1>4, <1>5 DEF RegionState
<1>11. NoGhosts'
  <2>1. \A r \in AnyRegion : Range(regions[r].unitsPresent) \subseteq Unit
    BY <1>1, SeqRange DEF RegionState
  <2> QED
    BY <1>9, <1>10, <2>1, KeepAnchored DEF GhostInv
<1>12. fight.target \in AnyRegion \ {""} /\ fight'.target = fight.target
  BY <1>5, <1>6, MapAssumption DEF ListInv, AnyRegion
<1>13. ASSUME NEW u \in Range(fight'.array), Anchored(u)' PROVE units'[u].region = fight.target
  <2>1. u \in Range(fight.array) \/ (here = fight.target /\ u \in Range(live))
    BY <1>4, <1>5, <1>6, <1>8, <1>13
  <2>2. u \in Unit
    BY <1>4, <2>1
  <2>3. Anchored(u) /\ units'[u].region = units[u].region
    BY <1>9, <1>13, <2>2 DEF Anchored
  <2> QED
    BY <1>5, <1>12, <2>1, <2>3 DEF GhostInv, NoGhosts, Anchored
<1> QED
  BY <1>11, <1>12, <1>13 DEF GhostInv

\* What is stored back names whom it should; who moves in is listed there.
LEMMA CombatAnchored ==
  ASSUME TypeInv, UnitCoherent, ListInv, GhostInv, Conquer \/ Occupy \/ Repel
  PROVE  GhostInv'
<1>1. /\ TypeOK /\ units \in [Unit -> UnitState] /\ regions \in [AnyRegion -> RegionState]
      /\ fight \in FightState /\ roster \in Seq(Unit) /\ NoGhosts
      /\ \A r \in AnyRegion : Range(regions[r].unitsPresent) \subseteq Unit
  BY SeqRange DEF TypeInv, TypeOK, GhostInv, RegionState
<1>2. fight.target \in AnyRegion \ {""}
  BY MapAssumption DEF ListInv, Conquer, Occupy, Repel, AnyRegion
<1>3. CASE Conquer
  <2>1. /\ step = "damage" /\ step' = "occupy" /\ units' = units
        /\ regions' = [regions EXCEPT ![fight.target].controlledBy = fight.side,
                                      ![fight.target].unitsPresent = fight.array]
    BY <1>3 DEF Conquer
  <2>2. /\ regions'[fight.target].unitsPresent = fight.array
        /\ \A r \in AnyRegion : r # fight.target => regions'[r] = regions[r]
    BY <1>1, <1>2, <2>1 DEF RegionState
  <2>3. \A u \in Range(fight.array) : Anchored(u) => units[u].region = fight.target
    BY <2>1 DEF GhostInv
  <2>4. NoGhosts'
    BY <1>1, <2>1, <2>2, <2>3 DEF NoGhosts, Anchored
  <2> QED
    BY <2>1, <2>4 DEF GhostInv
<1>4. CASE Occupy
  <2>1. /\ roster # <<>> /\ step' = "occupy"
        /\ \/ MoveUnit(Head(roster), fight.target)
           \/ UNCHANGED <<units, regions>>
    BY <1>4 DEF Occupy
  <2>2. Head(roster) \in Unit
    BY <1>1, <2>1, TailMembers
  <2>3. CASE MoveUnit(Head(roster), fight.target)
    <3>1. Moved(Head(roster), fight.target)
      BY <1>1, <2>2, <2>3 DEF MoveUnit, UnitState, Moved
    <3> QED
      BY <1>1, <1>2, <2>1, <2>2, <3>1, MoveAnchored DEF GhostInv
  <2>4. CASE UNCHANGED <<units, regions>>
    BY <1>1, <2>1, <2>4 DEF GhostInv, NoGhosts
  <2> QED
    BY <2>1, <2>3, <2>4
<1>5. CASE Repel
  <2> DEFINE u == Head(roster)
             hit == ApplyDamage(units[u], Config[u], 1)
  <2>1. /\ roster # <<>> /\ step' = "repel" /\ regions' = regions
        /\ units' = units \/ units' = [units EXCEPT ![u] = hit]
    BY <1>5 DEF Repel
  <2>2. /\ u \in Unit /\ units[u] \in UnitState /\ Config[u] \in UnitConfig
        /\ Sane(units[u], Config[u])
    BY <1>1, <2>1, TailMembers, UnitsAssumption DEF UnitCoherent, Sane
  <2>3. hit.status = Active => units[u].status = Active /\ hit.region = units[u].region
    <3>1. 1 \in Int /\ 1 > 0
      OBVIOUS
    <3> QED
      BY <2>2, <3>1, HitStays
  <2> HIDE DEF hit
  <2>4. \A v \in Unit : \/ units'[v] = units[v]
                        \/ v = u /\ units'[v] = hit
    BY <1>1, <2>1
  <2> HIDE DEF u
  <2>5. NoGhosts'
    BY <1>1, <2>1, <2>3, <2>4, KeepAnchored
  <2> QED
    BY <2>1, <2>5 DEF GhostInv
<1> QED
  BY <1>3, <1>4, <1>5

\* Step 11 brings only respawners back to life.
LEMMA TimerAnchored ==
  ASSUME TypeInv, UnitCoherent, GhostInv, TickTimers
  PROVE  GhostInv'
<1>1. /\ \A u \in Unit : units[u] \in UnitState /\ Sane(units[u], Config[u])
      /\ \A r \in AnyRegion : /\ regions[r] \in RegionState
                              /\ Range(regions[r].unitsPresent) \subseteq Unit
  BY SeqRange DEF TypeInv, TypeOK, UnitCoherent, Sane, RegionState
<1>2. \A r \in AnyRegion : regions'[r].unitsPresent = regions[r].unitsPresent
  <2>1. \A q \in RegionState : TickFortification(q).unitsPresent = q.unitsPresent
    BY DEF TickFortification, RegionState
  <2> QED
    BY <1>1, <2>1 DEF TickTimers
<1>3. ASSUME NEW u \in Unit, units'[u].status = Active, ~Config[u].respawns
      PROVE  units[u].status = Active /\ units'[u].region = units[u].region
  <2> DEFINE cool == IF units[u].cooldown > 0 THEN units[u].cooldown - 1 ELSE 0
  <2>1. units[u].status # Respawning
    BY <1>1, <1>3 DEF Sane
  <2>2. units'[u] = TickUnit(units[u], Config[u])
    BY DEF TickTimers
  <2>3. units'[u] = [units[u] EXCEPT !.cooldown = cool]
    BY <2>1, <2>2 DEF TickUnit
  <2> HIDE DEF cool
  <2> QED
    BY <1>1, <1>3, <2>3 DEF UnitState
<1>4. NoGhosts'
  BY <1>1, <1>2, <1>3, KeepAnchored DEF GhostInv
<1> QED
  BY <1>4 DEF TickTimers, GhostInv

LEMMA PickedFrom ==
  ASSUME NEW S, NEW s \in Seq(S), NEW I \in SUBSET DOMAIN s
  PROVE  \A x \in Range(Pick(s, I)) : \E i \in I : x = s[i]
<1>1. Range(Pick(s, I)) = {s[i] : i \in I}
  BY PickProperties
<1> QED
  BY <1>1

\* A seeded game lists every unit where it stands.
LEMMA SeedAnchored ==
  \A r \in AnyRegion \ {""} : \A u \in Range(SeedRegions[r].unitsPresent) :
    SeedUnits[u].region = r
<1> SUFFICES ASSUME NEW r \in AnyRegion \ {""}
             PROVE  \A u \in Range(SeedRegions[r].unitsPresent) : SeedUnits[u].region = r
  OBVIOUS
<1> DEFINE I == {k \in DOMAIN UnitOrder :
                   UnitOrder[k] # Bearer /\ Config[UnitOrder[k]].start = r}
<1>1. SeedRegions[r].unitsPresent = Pick(UnitOrder, I)
  BY DEF SeedRegions
<1>2. UnitOrder \in Seq(Unit) /\ I \in SUBSET DOMAIN UnitOrder
  BY UnitsAssumption
<1>3. \A k \in I : /\ UnitOrder[k] \in Unit /\ UnitOrder[k] # Bearer
                   /\ Config[UnitOrder[k]].start = r
  BY UnitsAssumption
<1> HIDE DEF I
<1>4. \A u \in Range(Pick(UnitOrder, I)) : \E i \in I : u = UnitOrder[i]
  BY ONLY <1>2, PickedFrom
<1>5. ASSUME NEW u \in Unit, u # Bearer, Config[u].start = r
      PROVE  SeedUnits[u].region = r
  BY <1>5 DEF SeedUnits, NewUnit
<1>6. ASSUME NEW u \in Range(Pick(UnitOrder, I)) PROVE SeedUnits[u].region = r
  <2>1. PICK i \in I : u = UnitOrder[i]
    BY <1>4
  <2> QED
    BY <1>3, <1>5, <2>1
<1> QED
  BY <1>1, <1>6

\* GhostInv is inductive, given the coherence of units and of lists.
LEMMA StepGhosts ==
  TypeInv /\ UnitCoherent /\ ListInv /\ GhostInv /\ [Next]_vars => GhostInv'
<1> SUFFICES ASSUME TypeInv, UnitCoherent, ListInv, GhostInv, [Next]_vars PROVE GhostInv'
  OBVIOUS
<1>1. CASE UNCHANGED <<units, regions, step, fight>>
  BY <1>1 DEF GhostInv, NoGhosts, Anchored
<1>2. CASE Reset
  <2>1. units' = SeedUnits /\ regions' = SeedRegions /\ step' = "idle"
    BY <1>2 DEF Reset, control
  <2> QED
    BY <2>1, SeedAnchored DEF GhostInv, NoGhosts
<1>3. CASE FortifyOrDeploy \/ AdvanceUnit
  <2>1. TypeOK /\ NoGhosts
    BY DEF TypeInv, GhostInv
  <2>2. ASSUME NEW u \in Unit, NEW dest \in AnyRegion, Moved(u, dest) PROVE NoGhosts'
    BY <2>1, <2>2, MoveAnchored
  <2> QED
    BY <1>3, <2>2, Movement, PlacesAnchored DEF GhostInv
<1>4. CASE ProcessTurn /\ ~FortifyOrDeploy /\ ~AdvanceUnit
  BY <1>4, QuietPlaces, PlacesAnchored, FightAnchored, DamageAnchored, CombatAnchored,
     TimerAnchored DEF ProcessTurn
<1> QED
  BY <1>1, <1>2, <1>3, <1>4 DEF Next, Submit, vars, board, control

\* Whatever the stale copies, second hits and shifted arrays of a turn do, in no
\* game does a list name an ACTIVE unit that stands elsewhere, unless it respawns:
\* a unit is never a defender in two regions (state.go:53, engine.go:459-512).
THEOREM NobodyIsInTwoPlaces == Spec => []NoGhosts
<1>1. Init => GhostInv
  <2>1. Init => units = SeedUnits /\ regions = SeedRegions /\ step = "idle"
    BY DEF Init
  <2> QED
    BY <2>1, SeedAnchored DEF GhostInv, NoGhosts
<1>2. TypeInv /\ UnitCoherent /\ ListInv /\ GhostInv /\ [Next]_vars => GhostInv'
  BY StepGhosts
<1>3. GhostInv => NoGhosts
  BY DEF GhostInv
<1> QED
  BY <1>1, <1>2, <1>3, ListInvariant, PTL DEF Spec

-----------------------------------------------------------------------------
(* From the engine to Match *)

Undetected == \A k \in DOMAIN out : out[k].topic # "game.ring.detection"

\* outcome stays Undecided until the game is over, and no turn is begun after.
RunsUndecided ==
  /\ step # "idle" => ~outcome.over
  /\ ~outcome.over => outcome = Undecided

GameInv == RunsUndecided /\ AnnouncedOnce /\ HiddenStart

\* Nobody is told on the detection topic by no event, by one of another topic or
\* by two of them.
LEMMA OtherTopics ==
  /\ out' = <<>> => Undetected'
  /\ \A topic, type, region :
       out' = <<Event(topic, type, region)>> /\ topic # "game.ring.detection" => Undetected'
  /\ \A e, f : out' = <<e, f>> /\ e.topic # "game.ring.detection"
                               /\ f.topic # "game.ring.detection" => Undetected'
<1>1. ASSUME out' = <<>> PROVE Undetected'
  BY <1>1 DEF Undetected
<1>2. ASSUME NEW topic, NEW type, NEW region, out' = <<Event(topic, type, region)>>,
             topic # "game.ring.detection"
      PROVE  Undetected'
  <2>1. Event(topic, type, region).topic = topic
    BY DEF Event
  <2>2. DOMAIN out' = {1} /\ out'[1] = Event(topic, type, region)
    BY <1>2
  <2> QED
    BY <1>2, <2>1, <2>2 DEF Undetected
<1>3. ASSUME NEW e, NEW f, out' = <<e, f>>, e.topic # "game.ring.detection",
             f.topic # "game.ring.detection"
      PROVE  Undetected'
  <2>1. DOMAIN out' = {1, 2} /\ out'[1] = e /\ out'[2] = f
    BY <1>3
  <2> QED
    BY <1>3, <2>1 DEF Undetected
<1> QED
  BY <1>1, <1>2, <1>3

-----------------------------------------------------------------------------
(* The steps of a turn before the last *)

\* The actions of ProcessTurn that neither decide the game nor expose anyone.
Quiet ==
  \/ BeginTurn \/ RouteOrder \/ RoutesDone \/ PathOrder \/ Reconcile
  \/ FortifyOrDeploy \/ FortifyDone \/ MaiaAbility \/ MaiaDone \/ AdvanceDone
  \/ Fight \/ DamageDefender \/ Conquer \/ Occupy \/ Repel \/ FightDone \/ TickTimers

\* A quiet step starts or continues a turn of an undecided game and says nothing
\* on the detection topic.
LEMMA QuietSteps ==
  TypeOK /\ GameInv /\ Quiet =>
    /\ UNCHANGED <<turn, outcome, announced>> /\ ~outcome.over
    /\ rb'.exposed = rb.exposed
    /\ Undetected'
<1> SUFFICES ASSUME TypeOK, GameInv, Quiet
             PROVE  /\ UNCHANGED <<turn, outcome, announced>> /\ ~outcome.over
                    /\ rb'.exposed = rb.exposed
                    /\ Undetected'
  OBVIOUS
<1> USE DEF board
<1>1. UNCHANGED <<turn, outcome, announced>>
  BY DEF Quiet, BeginTurn, RouteOrder, RoutesDone, PathOrder, Reconcile, FortifyOrDeploy,
         FortifyDone, MaiaAbility, MaiaDone, AdvanceDone, Fight, DamageDefender, Conquer,
         Occupy, Repel, FightDone, TickTimers
<1>2. ~outcome.over
  BY DEF GameInv, RunsUndecided, Quiet, BeginTurn, RouteOrder, RoutesDone, PathOrder,
         Reconcile, FortifyOrDeploy, FortifyDone, MaiaAbility, MaiaDone, AdvanceDone, Fight,
         DamageDefender, Conquer, Occupy, Repel, FightDone, TickTimers
<1>3. rb'.exposed = rb.exposed
  <2>1. CASE RouteOrder
    BY <2>1 DEF RouteOrder, Rerouted, TypeOK, RBState
  <2>2. CASE ~RouteOrder
    BY <2>2 DEF Quiet, BeginTurn, RoutesDone, PathOrder, Reconcile, FortifyOrDeploy,
           FortifyDone, MaiaAbility, MaiaDone, AdvanceDone, Fight, DamageDefender, Conquer,
           Occupy, Repel, FightDone, TickTimers
  <2> QED
    BY <2>1, <2>2
<1>4. \/ out' = <<>>
      \/ out' = <<Event("game.events.path", "BlockFailed", "")>>
      \/ out' = <<Event("game.events.path", "PathCorrupted", "")>>
      \/ out' = <<Event("game.events.region", "BattleResolved", "")>>
  <2>1. CASE PathOrder
    BY <2>1 DEF PathOrder
  <2>2. CASE MaiaAbility
    BY <2>2 DEF MaiaAbility
  <2>3. CASE ~PathOrder /\ ~MaiaAbility
    BY <2>3 DEF Quiet, BeginTurn, RouteOrder, RoutesDone, Reconcile, FortifyOrDeploy,
           FortifyDone, MaiaDone, AdvanceDone, Fight, DamageDefender, Conquer,
           Occupy, Repel, FightDone, TickTimers
  <2> QED
    BY <2>1, <2>2, <2>3
<1>5. Undetected'
  BY <1>4, OtherTopics
<1> QED
  BY <1>1, <1>2, <1>3, <1>5

\* Steps 7 and 12 leave the result alone; they expose the bearer and tell the
\* Dark Side only in a turn after HiddenUntilTurn.
LEMMA DetectingSteps ==
  TypeOK /\ GameInv /\ (AdvanceUnit \/ Detect) =>
    /\ UNCHANGED <<turn, outcome, announced>> /\ ~outcome.over
    /\ turn <= HiddenUntilTurn => rb'.exposed = rb.exposed /\ Undetected'
<1> SUFFICES ASSUME TypeOK, GameInv, AdvanceUnit \/ Detect
             PROVE  /\ UNCHANGED <<turn, outcome, announced>> /\ ~outcome.over
                    /\ turn <= HiddenUntilTurn => rb'.exposed = rb.exposed /\ Undetected'
  OBVIOUS
<1>1. UNCHANGED <<turn, outcome, announced>> /\ ~outcome.over
  BY DEF GameInv, RunsUndecided, AdvanceUnit, Detect
<1>2. turn \in Int /\ HiddenUntilTurn \in Int
  BY TurnsAssumption DEF TypeOK
<1>3. ASSUME turn <= HiddenUntilTurn, Detect PROVE rb'.exposed = rb.exposed /\ Undetected'
  <2>1. ~RunDetection(turn, units, rb.trueRegion)
    BY <1>2, <1>3 DEF RunDetection
  <2> QED
    BY <1>3, <2>1, OtherTopics DEF Detect
<1>4. ASSUME turn <= HiddenUntilTurn, AdvanceUnit PROVE rb'.exposed = rb.exposed /\ Undetected'
  <2> DEFINE u == Head(roster)
             isBearer == u = Bearer
             route == IF isBearer THEN rb.route ELSE units[u].route
             idx == IF isBearer THEN rb.routeIdx ELSE units[u].routeIdx
             here == IF isBearer THEN rb.trueRegion ELSE units[u].region
             path == route[idx + 1]
             dest == FarEnd(path, here)
             spotted == paths[path].surveillance >= 1 /\ turn > HiddenUntilTurn
  <2>1. ~spotted
    BY <1>2, <1>4
  <2> HIDE DEF dest, idx, spotted
  <2>2. \/ out' = <<>> /\ rb' = rb
        \/ out' = <<Event("game.events.unit", "RouteBlocked", "")>> /\ rb' = rb
        \/ out' = <<Event("game.events.unit", "UnitMoved", "")>> /\ rb' = rb
        \/ /\ out' = <<Event("game.ring.position", "RingBearerMoved", dest)>>
                     \o (IF spotted
                          THEN <<Event("game.ring.detection", "RingBearerSpotted", "")>>
                          ELSE <<>>)
           /\ rb' = [rb EXCEPT !.trueRegion = dest, !.routeIdx = idx + 1,
                               !.exposed = @ \/ spotted]
    BY <1>4 DEF AdvanceUnit, dest, idx, spotted
  <2>3. rb.exposed \in BOOLEAN
    BY DEF TypeOK, RBState
  <2>4. rb'.exposed = rb.exposed
    BY <2>1, <2>2, <2>3 DEF TypeOK, RBState
  <2>5. Undetected'
    <3> DEFINE moved == Event("game.ring.position", "RingBearerMoved", dest)
    <3>1. \/ out' = <<>>
          \/ out' = <<Event("game.events.unit", "RouteBlocked", "")>>
          \/ out' = <<Event("game.events.unit", "UnitMoved", "")>>
          \/ out' = <<moved>> \o <<>>
      BY <2>1, <2>2
    <3> HIDE DEF moved
    <3>2. <<moved>> \o <<>> = <<moved>>
      OBVIOUS
    <3>3. \/ out' = <<>>
          \/ out' = <<Event("game.events.unit", "RouteBlocked", "")>>
          \/ out' = <<Event("game.events.unit", "UnitMoved", "")>>
          \/ out' = <<Event("game.ring.position", "RingBearerMoved", dest)>>
      BY <3>1, <3>2 DEF moved
    <3> QED
      BY <3>3, OtherTopics
  <2> QED
    BY <2>4, <2>5
<1> QED
  BY <1>1, <1>3, <1>4

-----------------------------------------------------------------------------
(* Step 13 *)

\* The result step 13 reaches is one Match allows for this turn; without one
\* there is a turn left.
LEMMA WinIsAllowed ==
  ASSUME TypeOK, GameInv, step = "win"
  PROVE  /\ EvaluateWin.over =>
              /\ EvaluateWin \in Game!Results
              /\ EvaluateWin.winner = "SHADOW" => turn > HiddenUntilTurn
              /\ EvaluateWin.winner = "NONE" => turn = MaxTurns
         /\ ~EvaluateWin.over => EvaluateWin = outcome /\ turn < MaxTurns
<1>1. turn \in Int /\ MaxTurns \in Int /\ turn <= MaxTurns /\ HiddenUntilTurn \in Int
  BY TurnsAssumption DEF TypeOK
<1>2. ~outcome.over
  BY DEF GameInv, RunsUndecided
<1>3. CASE RingDestroyed
  BY <1>3 DEF EvaluateWin, Over, FreePeoples, Game!Results
<1>4. CASE ~RingDestroyed /\ BearerCaptured
  <2>1. turn > HiddenUntilTurn
    BY <1>1, <1>4 DEF BearerCaptured, GameInv, HiddenStart
  <2> QED
    BY <1>4, <2>1 DEF EvaluateWin, Over, Shadow, Game!Results
<1>5. CASE ~RingDestroyed /\ ~BearerCaptured /\ turn >= MaxTurns
  BY <1>1, <1>5 DEF EvaluateWin, Over, Game!Results
<1>6. CASE ~RingDestroyed /\ ~BearerCaptured /\ ~(turn >= MaxTurns)
  BY <1>1, <1>2, <1>6 DEF EvaluateWin
<1> QED
  BY <1>3, <1>4, <1>5, <1>6

\* Step 13 is Match's Play or its End.
LEMMA FinishTurnIsPlayOrEnd ==
  ASSUME TypeOK, GameInv, FinishTurn
  PROVE  Game!Play \/ Game!End
<1>1. step = "win" /\ outcome' = EvaluateWin /\ turn' = NextTurn(outcome'.over)
  BY DEF FinishTurn
<1>2. announced' = IF outcome'.over THEN announced + 1 ELSE announced
  BY DEF FinishTurn
<1>3. ~outcome.over
  BY <1>1 DEF GameInv, RunsUndecided
<1>4. CASE EvaluateWin.over
  BY <1>1, <1>2, <1>3, <1>4, WinIsAllowed DEF NextTurn, Game!End
<1>5. CASE ~EvaluateWin.over
  BY <1>1, <1>2, <1>3, <1>5, WinIsAllowed DEF NextTurn, Game!Play
<1> QED
  BY <1>4, <1>5

\* And it keeps the link.
LEMMA FinishTurnKeepsGameInv == TypeOK /\ GameInv /\ FinishTurn => GameInv'
<1> SUFFICES ASSUME TypeOK, GameInv, FinishTurn PROVE GameInv'
  OBVIOUS
<1> DEFINE result == EvaluateWin
<1>1. /\ step = "win" /\ outcome' = result /\ turn' = NextTurn(result.over)
      /\ announced' = (IF result.over THEN announced + 1 ELSE announced)
      /\ step' = "idle" /\ rb' = [rb EXCEPT !.exposed = FALSE]
  BY DEF FinishTurn
<1>2. /\ result.over => /\ result \in Game!Results
                        /\ result.winner = "SHADOW" => turn > HiddenUntilTurn
      /\ ~result.over => result = outcome
  BY <1>1, WinIsAllowed
<1>3. ~outcome.over /\ outcome = Undecided /\ announced = 0
  BY <1>1 DEF GameInv, RunsUndecided, AnnouncedOnce
<1> HIDE DEF result
<1>4. RunsUndecided'
  BY <1>1, <1>2, <1>3 DEF RunsUndecided
<1>5. AnnouncedOnce'
  BY <1>1, <1>3 DEF AnnouncedOnce
<1>6. Undetected'
  <2> DEFINE snapshot == Event("game.broadcast", "WorldStateSnapshot", rb.trueRegion)
             over == Event("game.broadcast", "GameOver", "")
  <2>1. snapshot.topic = "game.broadcast" /\ over.topic = "game.broadcast"
    BY DEF Event
  <2>2. out' = <<over>> \o <<snapshot>> \/ out' = <<>> \o <<snapshot>>
    BY DEF FinishTurn
  <2> HIDE DEF over
  <2>3. out' = <<over, snapshot>> \/ out' = <<snapshot>>
    BY <2>2
  <2> QED
    BY <2>1, <2>3, OtherTopics
<1>7. ~rb'.exposed
  BY <1>1 DEF TypeOK, RBState
<1>8. ASSUME outcome'.winner = Shadow, turn' <= HiddenUntilTurn PROVE FALSE
  <2>1. result.over
    <3>1. ASSUME ~result.over PROVE FALSE
      <4>1. outcome' = Undecided
        BY <1>1, <1>2, <1>3, <3>1
      <4> QED
        BY <1>8, <4>1 DEF Undecided, Shadow
    <3> QED
      BY <3>1
  <2>2. turn > HiddenUntilTurn /\ turn' = turn
    BY <1>1, <1>2, <1>8, <2>1 DEF NextTurn, Shadow
  <2>3. turn \in Int /\ HiddenUntilTurn \in Int
    BY TurnsAssumption DEF TypeOK
  <2> QED
    BY <1>8, <2>2, <2>3
<1> QED
  BY <1>4, <1>5, <1>6, <1>7, <1>8 DEF GameInv, HiddenStart, Undetected

-----------------------------------------------------------------------------
(* The invariant and the refinement *)

\* A step that changes no result, exposes nobody while the start is hidden and
\* runs only in an undecided game keeps the link.
LEMMA SameGame ==
  ASSUME GameInv, UNCHANGED <<turn, outcome, announced>>,
         step' # "idle" => ~outcome.over,
         turn <= HiddenUntilTurn => rb'.exposed = rb.exposed /\ Undetected'
  PROVE  GameInv'
<1>1. RunsUndecided' /\ AnnouncedOnce'
  BY DEF GameInv, RunsUndecided, AnnouncedOnce
<1>2. HiddenStart'
  BY DEF GameInv, HiddenStart, Undetected
<1> QED
  BY <1>1, <1>2 DEF GameInv

\* A game that has just been seeded satisfies the link.
LEMMA InitGameInv == Init => GameInv
<1> SUFFICES ASSUME Init PROVE GameInv
  OBVIOUS
<1>1. /\ ~rb.exposed /\ outcome = Undecided /\ out = <<>> /\ announced = 0
      /\ step = "idle"
  BY DEF Init, SeedRB
<1>2. ~outcome.over /\ outcome.winner = ""
  BY <1>1 DEF Undecided
<1>3. DOMAIN out = {}
  BY <1>1
<1> QED
  BY <1>1, <1>2, <1>3 DEF GameInv, RunsUndecided, AnnouncedOnce, HiddenStart, Shadow

\* Every step of the engine keeps GameInv and is a step of Match or none.
LEMMA StepGame ==
  TypeOK /\ GameInv /\ [Next]_vars => GameInv' /\ [Game!Next]_(Game!vars)
<1> SUFFICES ASSUME TypeOK, GameInv, [Next]_vars
             PROVE  GameInv' /\ [Game!Next]_(Game!vars)
  OBVIOUS
<1> USE DEF Game!vars
<1>1. CASE UNCHANGED vars
  BY <1>1 DEF vars, board, control, GameInv, RunsUndecided, AnnouncedOnce, HiddenStart
<1>2. CASE \E o \in Orders, t \in 1..MaxTurns : Submit([o EXCEPT !.turn = t])
  <2>1. /\ UNCHANGED <<turn, outcome, announced, rb, step>> /\ out' = <<>>
    BY <1>2 DEF Submit, board, control
  <2>2. Undetected'
    BY <2>1 DEF Undetected
  <2> QED
    BY <2>1, <2>2, SameGame DEF GameInv, RunsUndecided
<1>3. CASE Reset
  <2>1. /\ ~rb'.exposed /\ outcome' = Undecided /\ out' = <<>> /\ announced' = 0
        /\ step' = "idle" /\ turn' = 1
    BY <1>3 DEF Reset, SeedRB, control
  <2>2. GameInv'
    <3>1. ~outcome'.over /\ outcome'.winner = ""
      BY <2>1 DEF Undecided
    <3>2. DOMAIN out' = {}
      BY <2>1
    <3> QED
      BY <2>1, <3>1, <3>2 DEF GameInv, RunsUndecided, AnnouncedOnce, HiddenStart, Shadow
  <2>3. Game!Restart
    BY <2>1 DEF Game!Restart, Game!Undecided, Undecided
  <2> QED
    BY <2>2, <2>3 DEF Game!Next
<1>4. CASE Quiet
  BY <1>4, QuietSteps, SameGame
<1>5. CASE AdvanceUnit \/ Detect
  BY <1>5, DetectingSteps, SameGame
<1>6. CASE FinishTurn
  BY <1>6, FinishTurnIsPlayOrEnd, FinishTurnKeepsGameInv DEF Game!Next
<1> QED
  BY <1>1, <1>2, <1>3, <1>4, <1>5, <1>6 DEF Next, ProcessTurn, Quiet

\* The link is an invariant.
LEMMA GameInvHolds == Spec => []GameInv
<1>1. TypeOK /\ GameInv /\ [Next]_vars => GameInv'
  BY StepGame
<1> QED
  BY InitGameInv, <1>1, TypesAreCorrect, PTL DEF Spec

\* The engine implements Match: turns are played in order, the game ends once,
\* at the latest in turn MaxTurns, never by a capture in the hidden turns, and
\* after the end nothing of it changes until a reset (evaluateWin, gameOver, Reset).
THEOREM EngineImplementsMatch == Spec => MatchSpec
<1>1. Init => Game!Init
  BY DEF Init, Game!Init, Undecided, Game!Undecided
<1>2. TypeOK /\ GameInv /\ [Next]_vars => [Game!Next]_(Game!vars)
  BY StepGame
<1> QED
  BY <1>1, <1>2, TypesAreCorrect, GameInvHolds, PTL DEF Spec, MatchSpec, Game!Spec

\* A game that is over has been announced exactly once on the broadcast topic,
\* one that is not never, however many ticks and orders come after the end.
THEOREM GameOverIsAnnouncedOnce == Spec => []AnnouncedOnce
<1>1. GameInv => AnnouncedOnce
  BY DEF GameInv
<1> QED
  BY <1>1, GameInvHolds, PTL

\* Up to HiddenUntilTurn the bearer is not exposed by surveillance, detection or
\* capture, on no map and under no orders.
THEOREM StartIsHidden == Spec => []HiddenStart
<1>1. GameInv => HiddenStart
  BY DEF GameInv
<1> QED
  BY <1>1, GameInvHolds, PTL

-----------------------------------------------------------------------------
(* The result and the board *)

\* A game that is over is decided for good: the board it ended with stays.
LEMMA ResultFrozen ==
  ASSUME TypeInv, GameInv, ResultMatchesBoard, [Next]_vars, ~FinishTurn
  PROVE  ResultMatchesBoard'
<1>1. CASE UNCHANGED <<outcome, units, rb, turn>>
  BY <1>1 DEF ResultMatchesBoard, Reborn
<1>2. CASE Reset
  <2>1. outcome'.cause = ""
    BY <1>2 DEF Reset, Undecided
  <2> QED
    BY <2>1 DEF ResultMatchesBoard
<1>3. CASE ProcessTurn
  <2>1. outcome' = outcome /\ ~outcome.over
    BY <1>3 DEF ProcessTurn, BeginTurn, RouteOrder, RoutesDone, PathOrder, Reconcile,
       FortifyOrDeploy, FortifyDone, MaiaAbility, MaiaDone, AdvanceUnit, AdvanceDone,
       Fight, DamageDefender, Conquer, Occupy, Repel, FightDone, TickTimers, Detect,
       GameInv, RunsUndecided
  <2>2. outcome'.cause = ""
    <3>1. outcome' = Undecided
      BY <2>1 DEF GameInv, RunsUndecided
    <3> QED
      BY <3>1 DEF Undecided
  <2> QED
    BY <2>2 DEF ResultMatchesBoard
<1> QED
  BY <1>1, <1>2, <1>3 DEF Next, Submit, vars, board

\* evaluateWin looks at lists, and the lists name every ACTIVE unit that was not
\* sent home; the bearer, whom no list names, is never at Mount Doom by its entry.
LEMMA ResultRight ==
  ASSUME TypeInv, GameInv, ListedUnlessReborn, BearerHidden, FinishTurn
  PROVE  ResultMatchesBoard'
<1>1. /\ step = "win" /\ outcome' = EvaluateWin /\ turn' = NextTurn(outcome'.over)
      /\ rb' = [rb EXCEPT !.exposed = FALSE] /\ units' = units
  BY DEF FinishTurn
<1>2. rb'.trueRegion = rb.trueRegion
  BY <1>1 DEF TypeInv, TypeOK, RBState
<1>3. outcome = Undecided
  BY <1>1 DEF GameInv, RunsUndecided
<1>4. \/ RingDestroyed /\ outcome' = Over(FreePeoples, "RING_DESTROYED")
      \/ BearerCaptured /\ outcome' = Over(Shadow, "RING_BEARER_CAPTURED")
      \/ turn >= MaxTurns /\ outcome' = Over("NONE", "DRAW")
      \/ outcome' = Undecided
  BY <1>1, <1>3 DEF EvaluateWin
<1>5. CASE RingDestroyed /\ outcome' = Over(FreePeoples, "RING_DESTROYED")
  <2>1. outcome'.cause = "RING_DESTROYED"
    BY <1>5 DEF Over
  <2>2. rb.trueRegion = "mount-doom" /\ ~ShadowAtMountDoom
    BY <1>5 DEF RingDestroyed
  <2>3. ASSUME NEW u \in Unit, Config[u].side = Shadow, units[u].status = Active, ~Reborn(u),
               units[u].region = "mount-doom"
        PROVE  FALSE
    <3>1. u # Bearer
      BY <2>3 DEF BearerHidden
    <3>2. u \in Range(regions["mount-doom"].unitsPresent)
      BY <2>3, <3>1 DEF ListedUnlessReborn
    <3> QED
      BY <2>2, <2>3, <3>2 DEF ShadowAtMountDoom
  <2> QED
    BY <1>1, <1>2, <2>1, <2>2, <2>3 DEF ResultMatchesBoard, Reborn
<1>6. CASE BearerCaptured /\ outcome' = Over(Shadow, "RING_BEARER_CAPTURED")
  <2>1. outcome'.cause = "RING_BEARER_CAPTURED"
    BY <1>6 DEF Over
  <2>2. \E u \in NazgulViews(units) : units[u].region = rb.trueRegion
    BY <1>6 DEF BearerCaptured
  <2> QED
    BY <1>1, <1>2, <2>1, <2>2 DEF ResultMatchesBoard
<1>7. CASE turn >= MaxTurns /\ outcome' = Over("NONE", "DRAW")
  <2>1. outcome'.cause = "DRAW" /\ outcome'.over
    BY <1>7 DEF Over
  <2>2. turn \in 1..MaxTurns /\ MaxTurns \in Nat
    BY TurnsAssumption DEF TypeInv, TypeOK
  <2>3. turn = MaxTurns
    BY <1>7, <2>2
  <2>4. turn' = MaxTurns
    BY <1>1, <2>1, <2>3 DEF NextTurn
  <2> QED
    BY <2>1, <2>4 DEF ResultMatchesBoard
<1>8. CASE outcome' = Undecided
  <2>1. outcome'.cause = ""
    BY <1>8 DEF Undecided
  <2> QED
    BY <2>1 DEF ResultMatchesBoard
<1> QED
  BY <1>4, <1>5, <1>6, <1>7, <1>8

\* In every game the board agrees with the result it froze with: the Ring was
\* destroyed where no ACTIVE unit of the Shadow stands (but one just sent home),
\* the bearer captured by an ACTIVE Nazgul at its place, the game drawn at
\* MaxTurns and not before (evaluateWin).
THEOREM ResultsAreRight == Spec => []ResultMatchesBoard
<1>1. Init => ResultMatchesBoard
  <2>1. Init => outcome = Undecided
    BY DEF Init
  <2>2. Undecided.cause = ""
    BY DEF Undecided
  <2> QED
    BY <2>1, <2>2 DEF ResultMatchesBoard
<1>2. TypeInv /\ ListInv /\ GameInv /\ BearerHidden /\ ResultMatchesBoard /\ [Next]_vars
        => ResultMatchesBoard'
  BY ResultFrozen, ResultRight DEF ListInv
<1>3. BearerEntry => BearerHidden
  BY DEF BearerEntry, BearerHidden
<1> QED
  BY <1>1, <1>2, <1>3, ListInvariant, GameInvHolds, TheBearersEntry, PTL DEF Spec
=============================================================================
