---------------------------- MODULE EngineTypes ----------------------------
(***************************************************************************)
(* The type invariant of the engine, proved for every configuration, map   *)
(* and set of orders.  TypeOK alone is not inductive: resolveCombat reads  *)
(* the side of the first attacker, and there is one only because every     *)
(* target left to resolve was named by an attack order (Targeted).         *)
(***************************************************************************)
EXTENDS EngineProps, SliceProofs

-----------------------------------------------------------------------------
(* Units, paths and regions keep their types *)

\* A configuration is a UnitConfig, and damage of any size leaves a UnitState.
LEMMA ApplyDamageType ==
  ASSUME NEW s \in UnitState, NEW cfg \in UnitConfig, NEW damage \in Int
  PROVE  ApplyDamage(s, cfg, damage) \in UnitState
<1> DEFINE left == s.strength - damage
<1>1. cfg.respawnTurns \in Nat /\ "" \in AnyRegion
  BY DEF UnitConfig, AnyRegion
<1>1a. left \in Int
  <2>1. s.strength \in Nat
    BY DEF UnitState
  <2> QED
    BY <2>1
<1>2. \A n \in Nat : [s EXCEPT !.strength = n] \in UnitState
  BY DEF UnitState
<1>3. \A n \in Nat : [s EXCEPT !.strength = n, !.status = Active] \in UnitState
  BY DEF UnitState
<1>4. [s EXCEPT !.strength = 0, !.status = Destroyed] \in UnitState
  BY DEF UnitState
<1>5. [s EXCEPT !.strength = 0, !.status = Respawning,
                !.respawnTurns = cfg.respawnTurns, !.region = ""] \in UnitState
  BY <1>1 DEF UnitState
<1> HIDE DEF left
<1>6. (IF left < 1 THEN 1 ELSE left) \in Nat /\ (left > 0 => left \in Nat)
  BY <1>1a
<1> QED
  BY <1>2, <1>3, <1>4, <1>5, <1>6 DEF ApplyDamage, left

\* The updates the turn makes to a unit leave a UnitState.
LEMMA UnitUpdates ==
  ASSUME NEW s \in UnitState, NEW r \in AnyRegion, NEW route \in Route, NEW n \in Nat
  PROVE  /\ [s EXCEPT !.region = r] \in UnitState
         /\ [s EXCEPT !.cooldown = n] \in UnitState
         /\ [s EXCEPT !.routeIdx = n] \in UnitState
         /\ [s EXCEPT !.route = route, !.routeIdx = n] \in UnitState
         /\ [s EXCEPT !.region = r, !.routeIdx = n] \in UnitState
<1>1. [s EXCEPT !.region = r] \in UnitState
  BY DEF UnitState
<1>2. [s EXCEPT !.cooldown = n] \in UnitState
  BY DEF UnitState
<1>3. [s EXCEPT !.routeIdx = n] \in UnitState
  BY DEF UnitState
<1>4. [s EXCEPT !.route = route, !.routeIdx = n] \in UnitState
  BY DEF UnitState
<1>5. [s EXCEPT !.region = r, !.routeIdx = n] \in UnitState
  BY DEF UnitState
<1> QED
  BY <1>1, <1>2, <1>3, <1>4, <1>5

\* The same for the table of all units.
LEMMA UnitsUpdates ==
  ASSUME NEW f \in [Unit -> UnitState], NEW u \in Unit,
         NEW r \in AnyRegion, NEW route \in Route, NEW n \in Nat
  PROVE  /\ [f EXCEPT ![u].region = r] \in [Unit -> UnitState]
         /\ [f EXCEPT ![u].cooldown = n] \in [Unit -> UnitState]
         /\ [f EXCEPT ![u].routeIdx = n] \in [Unit -> UnitState]
         /\ [f EXCEPT ![u].route = route, ![u].routeIdx = n] \in [Unit -> UnitState]
         /\ [f EXCEPT ![u].region = r, ![u].routeIdx = n] \in [Unit -> UnitState]
<1>1. f[u] \in UnitState
  OBVIOUS
<1>2. /\ [f[u] EXCEPT !.region = r] \in UnitState
      /\ [f[u] EXCEPT !.cooldown = n] \in UnitState
      /\ [f[u] EXCEPT !.routeIdx = n] \in UnitState
      /\ [f[u] EXCEPT !.route = route, !.routeIdx = n] \in UnitState
      /\ [f[u] EXCEPT !.region = r, !.routeIdx = n] \in UnitState
  BY <1>1, UnitUpdates
<1> QED
  BY <1>2

\* Step 11 leaves a UnitState.
LEMMA TickUnitType ==
  ASSUME NEW s \in UnitState, NEW cfg \in UnitConfig
  PROVE  TickUnit(s, cfg) \in UnitState
<1> DEFINE wait == IF s.respawnTurns > 0 THEN s.respawnTurns - 1 ELSE 0
           lived == IF s.status # Respawning THEN s
                    ELSE IF wait > 0 THEN [s EXCEPT !.respawnTurns = wait]
                    ELSE [s EXCEPT !.respawnTurns = wait, !.status = Active,
                                   !.strength = cfg.strength, !.region = cfg.start]
<1>1. wait \in Nat /\ s.cooldown \in Nat
  BY DEF UnitState
<1>2. cfg.strength \in Nat /\ cfg.start \in AnyRegion
  BY DEF UnitConfig, AnyRegion
<1> HIDE DEF wait
<1>3. lived \in UnitState
  BY <1>1, <1>2 DEF UnitState
<1> HIDE DEF lived
<1>4. [lived EXCEPT !.cooldown = IF @ > 0 THEN @ - 1 ELSE 0] \in UnitState
  BY <1>3 DEF UnitState
<1> QED
  BY <1>4 DEF TickUnit, lived, wait

\* Every transition of a path leaves a PathState.
LEMMA PathTypes ==
  ASSUME NEW p \in PathState, NEW u \in Unit, NEW present \in BOOLEAN
  PROVE  /\ BlockPath(p, u) \in PathState
         /\ SearchPath(p) \in PathState
         /\ OpenPathGandalf(p) \in PathState
         /\ CorruptPathSaruman(p) \in PathState
         /\ ReconcileBlock(p, present) \in PathState
         /\ TickTempOpen(p, present) \in PathState
<1> USE DEF PathState, Open, Threatened, Blocked, TempOpen
<1>1. BlockPath(p, u) \in PathState
  BY DEF BlockPath
<1>2. SearchPath(p) \in PathState
  BY DEF SearchPath
<1>3. OpenPathGandalf(p) \in PathState
  <2>1. [p EXCEPT !.status = TempOpen, !.tempOpenTurns = 2] \in PathState
    BY 2 \in 0..2
  <2> QED
    BY <2>1 DEF OpenPathGandalf
<1>4. CorruptPathSaruman(p) \in PathState
  BY 3 \in 0..3 DEF CorruptPathSaruman
<1>5. ReconcileBlock(p, present) \in PathState
  BY DEF ReconcileBlock
<1>6. TickTempOpen(p, present) \in PathState
  <2> DEFINE rest == IF p.tempOpenTurns > 0 THEN p.tempOpenTurns - 1 ELSE 0
             ticked == [p EXCEPT !.tempOpenTurns = rest]
  <2>1. rest \in 0..2
    OBVIOUS
  <2> HIDE DEF rest
  <2>2. ticked \in PathState
    BY <2>1
  <2> HIDE DEF ticked
  <2>3. [ticked EXCEPT !.status = Blocked] \in PathState
    BY <2>2
  <2>4. [ticked EXCEPT !.status = Open, !.blockedBy = NoUnit] \in PathState
    BY <2>2
  <2> QED
    BY <2>2, <2>3, <2>4 DEF TickTempOpen, ticked, rest
<1> QED
  BY <1>1, <1>2, <1>3, <1>4, <1>5, <1>6

\* Fortifying leaves a RegionState.
LEMMA FortifyType ==
  ASSUME NEW r \in RegionState
  PROVE  [r EXCEPT !.fortified = TRUE, !.fortifyTurns = 2] \in RegionState
<1>1. 2 \in 0..2
  OBVIOUS
<1> QED
  BY <1>1 DEF RegionState

\* And so does step 10.
LEMMA TickFortificationType ==
  ASSUME NEW r \in RegionState
  PROVE  TickFortification(r) \in RegionState
<1>1. ASSUME r.fortified, r.fortifyTurns > 0
      PROVE  [r EXCEPT !.fortifyTurns = @ - 1, !.fortified = r.fortifyTurns > 1] \in RegionState
  <2>1. r.fortifyTurns - 1 \in 0..2 /\ (r.fortifyTurns > 1) \in BOOLEAN
    BY <1>1 DEF RegionState
  <2> QED
    BY <2>1 DEF RegionState
<1> QED
  BY <1>1 DEF TickFortification

\* The ends of a path are regions of the map, and so is where a traversal ends.
LEMMA PathEnds ==
  ASSUME NEW p \in Path, NEW r
  PROVE  PathMap[p].from \in Region /\ PathMap[p].to \in Region /\ FarEnd(p, r) \in Region
BY MapAssumption DEF FarEnd

-----------------------------------------------------------------------------
(* Combat *)

\* The power of a group is a natural number: a sum of strengths and bonuses.
LEMMA GroupPowerType ==
  ASSUME NEW table \in [Unit -> UnitState], NEW group \in Seq(Unit)
  PROVE  GroupPower(table, group) \in Nat
<1>1. /\ Len(group) \in Nat /\ DOMAIN group = 1..Len(group)
      /\ \A k \in 1..Len(group) : group[k] \in Unit
  BY LenProperties, ElementOfSeq
<1> DEFINE n == Len(group)
           effective == [i \in DOMAIN group |-> EffectiveStrength(table, group, i)]
<1>2. ASSUME NEW i \in 1..n PROVE effective[i] \in Nat
  <2> DEFINE given == [j \in DOMAIN group |-> LeadershipFrom(group, i, j)]
             own == table[group[i]].strength
  <2>1. \A j \in 1..n : Config[group[j]].bonus \in Nat
    BY <1>1, UnitsAssumption DEF UnitConfig
  <2>2. \A j \in 1..n : given[j] \in Nat
    BY <1>1, <2>1 DEF LeadershipFrom
  <2>3. own \in Nat
    BY <1>1 DEF UnitState
  <2>4. effective[i] = Summed(own, given, n)
    BY <1>1 DEF EffectiveStrength
  <2> HIDE DEF given, own, effective
  <2>5. n \in Nat /\ n \in 0..n
    BY <1>1
  <2>6. \A m \in 0..n : Summed(own, given, m) \in Nat
    BY ONLY <2>2, <2>3, <2>5, SummedSteps
  <2> QED
    BY <2>4, <2>5, <2>6
<1>3. GroupPower(table, group) = Summed(0, effective, n)
  BY DEF GroupPower
<1> HIDE DEF effective
<1>4. n \in Nat /\ n \in 0..n /\ 0 \in Nat
  BY <1>1
<1>5. \A m \in 0..n : Summed(0, effective, m) \in Nat
  <2> DEFINE zero == 0
  <2>1. zero \in Nat
    OBVIOUS
  <2> HIDE DEF zero
  <2>2. \A m \in 0..n : Summed(zero, effective, m) \in Nat
    BY ONLY <1>2, <1>4, <2>1, SummedSteps
  <2> QED
    BY <2>2 DEF zero
<1> QED
  BY <1>3, <1>4, <1>5

\* The power that holds a region is one, too.
LEMMA DefenderPowerType ==
  ASSUME NEW table \in [Unit -> UnitState], NEW defenders \in Seq(Unit),
         NEW attackers, NEW terrain, NEW fortified
  PROVE  DefenderPower(table, defenders, attackers, terrain, fortified) \in Nat
<1>1. GroupPower(table, defenders) \in Nat
  BY GroupPowerType
<1>2. TerrainBonus(terrain) \in Nat
  BY DEF TerrainBonus
<1> QED
  BY <1>1, <1>2 DEF DefenderPower

-----------------------------------------------------------------------------
(* The strengthening of TypeOK *)

FightSteps == {"combat", "damage", "occupy", "repel"}

\* Targets are left only while step 8 runs, and each has its attackers.
Targeted ==
  /\ step \notin FightSteps => targets = {}
  /\ \A t \in targets : \E k \in DOMAIN pending :
       pending[k].type = "ATTACK_REGION" /\ pending[k].region = t

TypeInv == TypeOK /\ Targeted

-----------------------------------------------------------------------------
(* What the helpers return, given TypeOK *)

LEMMA NoRoute == <<>> \in Route /\ "" \in AnyRegion /\ 0 \in Nat
BY DEF Route, AnyRegion

\* An order Submit accepts is an Accepted order.
LEMMA ValidOrder ==
  ASSUME NEW o \in Orders, NEW t \in 1..MaxTurns, TypeOK,
         Validate([o EXCEPT !.turn = t], turn, seen, units, paths, regions) = "OK"
  PROVE  Accepted([o EXCEPT !.turn = t])
<1> DEFINE q == [o EXCEPT !.turn = t]
<1>1. q \in Order /\ q.region \in AnyRegion
  BY OrdersAssumption, TurnsAssumption DEF Order
<1> HIDE DEF q
<1>2. q.unit \in Unit /\ ValidateTarget(q, units, paths, regions) = "OK"
  BY DEF Validate, q
<1>3. q.type \in RouteOrders => q.route \in Route
  <2> SUFFICES ASSUME q.type \in RouteOrders PROVE q.route \in Route
    OBVIOUS
  <2>1. Range(q.route) \subseteq Path
    <3>1. ValidateTarget(q, units, paths, regions) =
            IF ~(Range(q.route) \subseteq Path) THEN "INVALID_PATH"
            ELSE IF q.route # <<>> /\ paths[q.route[1]].status = Blocked
                   THEN "PATH_BLOCKED" ELSE "OK"
      BY DEF ValidateTarget, RouteOrders, PathOrders
    <3> QED
      BY <1>2, <3>1
  <2>2. q.route \in Seq(STRING)
    BY <1>1 DEF Order
  <2>3. q.route \in [1..Len(q.route) -> Path] /\ Len(q.route) \in Nat
    BY <2>1, <2>2, LenProperties DEF Range
  <2> QED
    BY <2>3 DEF Route
<1>4. q.type \in PathOrders => q.path \in Path
  BY <1>2 DEF ValidateTarget, RouteOrders, PathOrders
<1>5. q.type = "ATTACK_REGION" => q.region \in Region
  <2> SUFFICES ASSUME q.type = "ATTACK_REGION" PROVE q.region \in Region
    OBVIOUS
  <2>1. Adjacent(units[q.unit].region, q.region)
    BY <1>2 DEF ValidateTarget, RouteOrders, PathOrders, NotNext
  <2> QED
    BY <2>1, PathEnds DEF Adjacent
<1> QED
  BY <1>1, <1>2, <1>3, <1>4, <1>5 DEF Accepted, q

\* A selection of the pending orders is a sequence of accepted orders.
LEMMA PickPending ==
  ASSUME TypeOK, NEW I \in SUBSET DOMAIN pending
  PROVE  /\ Pick(pending, I) \in Seq(Order)
         /\ \A k \in DOMAIN Pick(pending, I) : Accepted(Pick(pending, I)[k])
         /\ Range(Pick(pending, I)) = {pending[i] : i \in I}
<1>1. pending \in Seq(Order) /\ \A k \in DOMAIN pending : Accepted(pending[k])
  BY DEF TypeOK
<1>2. Pick(pending, I) \in Seq(Order) /\ Range(Pick(pending, I)) = {pending[i] : i \in I}
  BY <1>1, PickProperties
<1>3. \A o \in Range(Pick(pending, I)) : Accepted(o)
  BY <1>1, <1>2
<1>4. \A k \in DOMAIN Pick(pending, I) : Pick(pending, I)[k] \in Range(Pick(pending, I))
  BY DEF Range
<1> QED
  BY <1>2, <1>3, <1>4

LEMMA PendingOfType ==
  ASSUME TypeOK, NEW types
  PROVE  /\ PendingOf(types) \in Seq(Order)
         /\ \A k \in DOMAIN PendingOf(types) : Accepted(PendingOf(types)[k])
         /\ Range(PendingOf(types)) =
              {pending[i] : i \in {k \in DOMAIN pending : pending[k].type \in types}}
<1>1. {k \in DOMAIN pending : pending[k].type \in types} \in SUBSET DOMAIN pending
  OBVIOUS
<1> QED
  BY <1>1, PickPending DEF PendingOf

\* The order in hand and those after it are accepted orders.
LEMMA TodoType ==
  ASSUME TypeOK, todo # <<>>
  PROVE  /\ Accepted(Head(todo))
         /\ Tail(todo) \in Seq(Order)
         /\ \A k \in DOMAIN Tail(todo) : Accepted(Tail(todo)[k])
<1>1. todo \in Seq(Order) /\ \A k \in DOMAIN todo : Accepted(todo[k])
  BY DEF TypeOK
<1>2. \A o \in Range(todo) : Accepted(o)
  BY <1>1 DEF Range
<1>3. /\ Tail(todo) \in Seq(Order) /\ Head(todo) \in Range(todo)
      /\ Range(Tail(todo)) \subseteq Range(todo)
  BY <1>1, TailMembers
<1>4. \A k \in DOMAIN Tail(todo) : Tail(todo)[k] \in Range(Tail(todo))
  BY DEF Range
<1> QED
  BY <1>2, <1>3, <1>4

\* A region keeps its type when its list of units is replaced by another.
LEMMA ListUpdate ==
  ASSUME NEW f \in [AnyRegion -> RegionState], NEW r \in AnyRegion, NEW l \in Seq(Unit)
  PROVE  [f EXCEPT ![r].unitsPresent = l] \in [AnyRegion -> RegionState]
BY DEF RegionState

\* moveUnit keeps units and regions in their types.
LEMMA MoveType ==
  ASSUME TypeOK, NEW u \in Unit, NEW dest \in AnyRegion
  PROVE  /\ MoveLists(u, dest) \in [AnyRegion -> RegionState]
         /\ [units EXCEPT ![u].region = dest] \in [Unit -> UnitState]
<1>1. units \in [Unit -> UnitState] /\ regions \in [AnyRegion -> RegionState]
  BY DEF TypeOK
<1>2. units[u].region \in AnyRegion
  BY <1>1 DEF UnitState
<1>3. ASSUME NEW r \in [AnyRegion -> RegionState], NEW d \in AnyRegion, NEW s \in Seq(Unit)
      PROVE  [r EXCEPT ![d].unitsPresent = s] \in [AnyRegion -> RegionState]
  BY DEF RegionState
<1>4. ASSUME NEW r \in [AnyRegion -> RegionState], NEW d \in AnyRegion
      PROVE  r[d].unitsPresent \in Seq(Unit)
  BY DEF RegionState
<1> DEFINE here == units[u].region
           left == IF here = "" THEN regions
                   ELSE [regions EXCEPT ![here].unitsPresent = Without(@, u)]
<1>5. left \in [AnyRegion -> RegionState]
  BY <1>1, <1>2, <1>3, <1>4, WithoutProperties
<1> HIDE DEF left
<1>6. [left EXCEPT ![dest].unitsPresent = WithOnce(@, u)] \in [AnyRegion -> RegionState]
  BY <1>3, <1>4, <1>5, WithOnceProperties
<1>7. [units EXCEPT ![u].region = dest] \in [Unit -> UnitState]
  BY <1>1 DEF UnitState
<1> QED
  BY <1>6, <1>7 DEF MoveLists, left

-----------------------------------------------------------------------------
(* TypeInv holds initially *)

LEMMA SeedTypes ==
  /\ SeedUnits \in [Unit -> UnitState]
  /\ SeedRegions \in [AnyRegion -> RegionState]
  /\ SeedRB \in RBState
  /\ [p \in Path |-> NewPath] \in [Path -> PathState]
<1>1. SeedUnits \in [Unit -> UnitState]
  <2>1. ASSUME NEW u \in Unit
        PROVE  NewUnit(IF u = Bearer THEN "" ELSE Config[u].start, Config[u].strength)
                 \in UnitState
    <3>1. Config[u].start \in AnyRegion /\ Config[u].strength \in Nat /\ "" \in AnyRegion
      BY UnitsAssumption DEF UnitConfig, AnyRegion
    <3>2. <<>> \in Route
      BY DEF Route
    <3> QED
      BY <3>1, <3>2 DEF NewUnit, UnitState, Active
  <2> QED
    BY <2>1 DEF SeedUnits
<1>2. SeedRegions \in [AnyRegion -> RegionState]
  <2> SUFFICES ASSUME NEW r \in AnyRegion PROVE SeedRegions[r] \in RegionState
    BY DEF SeedRegions
  <2> DEFINE I == {k \in DOMAIN UnitOrder :
                     UnitOrder[k] # Bearer /\ Config[UnitOrder[k]].start = r}
  <2>1. Pick(UnitOrder, I) \in Seq(Unit)
    BY UnitsAssumption, PickProperties, I \in SUBSET DOMAIN UnitOrder
  <2>2. (IF r \in Region THEN StartControl[r] ELSE "") \in Control
    BY MapAssumption DEF Control
  <2>3. SeedRegions[r] = [controlledBy |-> IF r \in Region THEN StartControl[r] ELSE "",
                          fortified |-> FALSE, fortifyTurns |-> 0,
                          unitsPresent |-> Pick(UnitOrder, I)]
    BY DEF SeedRegions
  <2> DEFINE c == IF r \in Region THEN StartControl[r] ELSE ""
             l == Pick(UnitOrder, I)
  <2>4. c \in Control /\ l \in Seq(Unit)
    BY <2>1, <2>2
  <2>5. SeedRegions[r] = [controlledBy |-> c, fortified |-> FALSE, fortifyTurns |-> 0,
                          unitsPresent |-> l]
    BY <2>3
  <2> HIDE DEF c, l, I
  <2> QED
    BY <2>4, <2>5 DEF RegionState
<1>3. SeedRB \in RBState
  <2>1. Config[Bearer].start \in Region
    BY UnitsAssumption DEF UnitConfig
  <2> QED
    BY <2>1 DEF SeedRB, RBState, Route
<1>4. NewPath \in PathState
  BY DEF NewPath, PathState, Open
<1> QED
  BY <1>1, <1>2, <1>3, <1>4

LEMMA NoFightType == NoFight \in FightState
<1>1. NoFight = [target |-> "", side |-> "", attackers |-> <<>>, damage |-> 0, array |-> <<>>]
  BY DEF NoFight
<1>2. <<>> \in Seq(Unit) /\ "" \in AnyRegion /\ "" \in Side \cup {""} /\ 0 \in Int
  BY DEF AnyRegion
<1> DEFINE none == <<>>
<1>3. NoFight = [target |-> "", side |-> "", attackers |-> none, damage |-> 0, array |-> none]
  BY <1>1
<1>4. none \in Seq(Unit)
  BY <1>2
<1> HIDE DEF none
<1> QED
  BY <1>2, <1>3, <1>4 DEF FightState

LEMMA InitTypes == Init => TypeInv
<1> SUFFICES ASSUME Init PROVE TypeInv
  OBVIOUS
<1>1. turn \in 1..MaxTurns
  BY TurnsAssumption DEF Init
<1>2. outcome \in Outcome
  BY DEF Init, Undecided, Outcome
<1>3. fight \in FightState
  BY NoFightType DEF Init
<1>4. pending \in Seq(Order) /\ \A k \in DOMAIN pending : Accepted(pending[k])
  BY DEF Init
<1>5. todo \in Seq(Order) /\ \A k \in DOMAIN todo : Accepted(todo[k])
  BY DEF Init
<1>6. step \in Steps /\ roster \in Seq(Unit) /\ seen \in SUBSET Unit /\ announced \in Nat
  BY DEF Init, Steps
<1>7. Targeted
  BY DEF Init, Targeted
<1>8. /\ units \in [Unit -> UnitState] /\ paths \in [Path -> PathState]
      /\ regions \in [AnyRegion -> RegionState] /\ rb \in RBState
  BY SeedTypes DEF Init
<1>9. /\ sarumanDisabled \in BOOLEAN /\ destroyRing \in BOOLEAN /\ targets \in SUBSET Region
      /\ strayPaths \in SUBSET STRING /\ strayPaths \cap Path = {}
  BY DEF Init
<1> QED
  BY <1>1, <1>2, <1>3, <1>4, <1>5, <1>6, <1>7, <1>8, <1>9 DEF TypeInv, TypeOK

-----------------------------------------------------------------------------
(* Every step preserves TypeInv.  One lemma per part of the turn. *)

LEMMA IntakeTypes ==
  ASSUME TypeInv, NEW o \in Orders, NEW t \in 1..MaxTurns
  PROVE  Submit([o EXCEPT !.turn = t]) => TypeInv'
<1> DEFINE q == [o EXCEPT !.turn = t]
<1> SUFFICES ASSUME Submit(q) PROVE TypeInv'
  OBVIOUS
<1>1. Accepted(q) /\ q \in Order /\ q.unit \in Unit
  BY ValidOrder DEF Submit, TypeInv, Accepted
<1> HIDE DEF q
<1>2. /\ pending' \in Seq(Order)
      /\ \A k \in DOMAIN pending' : Accepted(pending'[k])
      /\ DOMAIN pending \subseteq DOMAIN pending'
      /\ \A k \in DOMAIN pending : pending'[k] = pending[k]
  <2>1. /\ pending \in Seq(Order) /\ DOMAIN pending = 1..Len(pending) /\ Len(pending) \in Nat
        /\ \A k \in DOMAIN pending : Accepted(pending[k])
    BY LenProperties DEF TypeInv, TypeOK
  <2>2. pending' = Append(pending, q)
    BY DEF Submit
  <2>3. /\ pending' \in Seq(Order) /\ Len(pending') = Len(pending) + 1
        /\ \A k \in 1..Len(pending) : pending'[k] = pending[k]
        /\ pending'[Len(pending) + 1] = q
    BY <1>1, <2>1, <2>2, AppendProperties
  <2>4. DOMAIN pending' = 1..(Len(pending) + 1)
    BY <2>3, LenProperties
  <2> QED
    BY <1>1, <2>1, <2>3, <2>4
<1>3. seen' \in SUBSET Unit
  BY <1>1 DEF Submit, TypeInv, TypeOK
<1> QED
  BY <1>2, <1>3 DEF Submit, TypeInv, TypeOK, Targeted, board, control

LEMMA ResetTypes == TypeInv /\ Reset => TypeInv'
<1> SUFFICES ASSUME TypeInv, Reset PROVE TypeInv'
  OBVIOUS
<1>1. turn' \in 1..MaxTurns /\ announced' \in Nat
  BY TurnsAssumption DEF Reset
<1>2. outcome' \in Outcome
  BY DEF Reset, Undecided, Outcome
<1>3. targets = {}
  BY DEF Reset, TypeInv, Targeted, FightSteps
<1>4. pending' \in Seq(Order) /\ \A k \in DOMAIN pending' : Accepted(pending'[k])
  BY DEF Reset
<1> QED
  BY <1>1, <1>2, <1>3, <1>4, SeedTypes DEF Reset, TypeInv, TypeOK, Targeted, control

LEMMA AttackMembers ==
  ASSUME TypeInv
  PROVE  \A x \in Range(PendingOf({"ATTACK_REGION"})) : \E k \in DOMAIN pending :
           x = pending[k] /\ pending[k].type \in {"ATTACK_REGION"}
<1>1. Range(PendingOf({"ATTACK_REGION"})) =
        {pending[i] : i \in {k \in DOMAIN pending : pending[k].type \in {"ATTACK_REGION"}}}
  BY PendingOfType DEF TypeInv
<1> QED
  BY <1>1

\* Steps that only go on to the next part of the turn.
LEMMA PassTypes ==
  TypeInv /\ (BeginTurn \/ RoutesDone \/ FortifyDone \/ MaiaDone \/ AdvanceDone \/ FightDone)
    => TypeInv'
<1> USE DEF TypeInv, TypeOK, Targeted, FightSteps, Steps, board, queue, control, Enter
<1>1. ASSUME TypeInv, BeginTurn PROVE TypeInv'
  BY <1>1, PendingOfType DEF BeginTurn
<1>2. ASSUME TypeInv, RoutesDone PROVE TypeInv'
  BY <1>2, PendingOfType DEF RoutesDone
<1>3. ASSUME TypeInv, FortifyDone PROVE TypeInv'
  BY <1>3, PendingOfType DEF FortifyDone
<1>4. ASSUME TypeInv, MaiaDone PROVE TypeInv'
  BY <1>4, UnitsAssumption DEF MaiaDone
<1>5. ASSUME TypeInv, AdvanceDone PROVE TypeInv'
  <2>1. targets' \in SUBSET Region
    BY <1>5, PendingOfType DEF AdvanceDone, Accepted
  <2>2. \A r \in targets' : \E k \in DOMAIN pending :
          pending[k].type = "ATTACK_REGION" /\ pending[k].region = r
    <3>1. \A x \in Range(PendingOf({"ATTACK_REGION"})) : \E k \in DOMAIN pending :
            x = pending[k] /\ pending[k].type \in {"ATTACK_REGION"}
      BY ONLY <1>5, AttackMembers
    <3>2. targets' = {x.region : x \in Range(PendingOf({"ATTACK_REGION"}))}
      BY <1>5 DEF AdvanceDone
    <3> QED
      BY ONLY <3>1, <3>2
  <2> QED
    BY <1>5, <2>1, <2>2 DEF AdvanceDone
<1>6. ASSUME TypeInv, FightDone PROVE TypeInv'
  BY <1>6, NoFightType DEF FightDone
<1> QED
  BY <1>1, <1>2, <1>3, <1>4, <1>5, <1>6

\* Steps 2, 3 and 6.
LEMMA OrderTypes ==
  TypeInv /\ (RouteOrder \/ PathOrder \/ Reconcile \/ MaiaAbility) => TypeInv'
<1> USE DEF TypeInv, Targeted, FightSteps, queue
<1>1. ASSUME TypeInv, RouteOrder PROVE TypeInv'
  <2> DEFINE o == Head(todo)
  <2>1. Accepted(o) /\ o.unit \in Unit /\ (o.type \in RouteOrders => o.route \in Route)
    BY <1>1, TodoType DEF RouteOrder, Accepted
  <2> HIDE DEF o
  <2>2. units' \in [Unit -> UnitState]
    <3>1. ASSUME o.type \in RouteOrders
          PROVE  [units EXCEPT ![o.unit].route = o.route, ![o.unit].routeIdx = 0]
                   \in [Unit -> UnitState]
      BY <1>1, <2>1, <3>1, UnitsUpdates, "" \in AnyRegion, 0 \in Nat DEF TypeOK, AnyRegion
    <3> QED
      BY <1>1, <3>1 DEF RouteOrder, TypeOK, o
  <2>3. rb' \in RBState
    <3>1. ASSUME o.type \in RouteOrders
          PROVE  Rerouted(o.route) \in RBState
      BY <2>1, <1>1, <3>1 DEF TypeOK, RBState, Rerouted
    <3> QED
      BY <1>1, <3>1 DEF RouteOrder, TypeOK, o
  <2>4. destroyRing' \in BOOLEAN
    BY <1>1 DEF RouteOrder, TypeOK
  <2> QED
    BY <1>1, <2>2, <2>3, <2>4, TodoType DEF RouteOrder, TypeOK
<1>2. ASSUME TypeInv, PathOrder PROVE TypeInv'
  <2> DEFINE o == Head(todo)
  <2>1. o.unit \in Unit /\ (o.type \in PathOrders => o.path \in Path)
    BY <1>2, TodoType DEF PathOrder, Accepted
  <2> HIDE DEF o
  <2>2. paths' \in [Path -> PathState]
    <3>1. ASSUME o.type \in PathOrders
          PROVE  /\ [paths EXCEPT ![o.path] = BlockPath(@, o.unit)] \in [Path -> PathState]
                 /\ [paths EXCEPT ![o.path] = SearchPath(@)] \in [Path -> PathState]
      BY <2>1, <1>2, <3>1, PathTypes DEF TypeOK
    <3> QED
      BY <1>2, <3>1 DEF PathOrder, TypeOK, PathOrders, o
  <2> QED
    BY <1>2, <2>2, TodoType DEF PathOrder, TypeOK
<1>3. ASSUME TypeInv, Reconcile PROVE TypeInv'
  <2>1. ASSUME NEW p \in Path
        PROVE  ReconcileBlock(paths[p], HeldBy(p, paths[p].blockedBy)) \in PathState
    <3>1. HeldBy(p, paths[p].blockedBy) \in BOOLEAN
      BY DEF HeldBy, AtEndpoint
    <3>2. paths[p] \in PathState
      BY <1>3 DEF TypeOK
    <3>3. Bearer \in Unit
      BY UnitsAssumption
    <3> QED
      BY <3>1, <3>2, <3>3, PathTypes
  <2>2. paths' \in [Path -> PathState]
    BY <1>3, <2>1 DEF Reconcile
  <2> QED
    BY <1>3, <2>2, PendingOfType DEF Reconcile, TypeOK, Enter, Steps
<1>4. ASSUME TypeInv, MaiaAbility PROVE TypeInv'
  <2> DEFINE o == Head(todo)
  <2>1. o.unit \in Unit
    BY <1>4, TodoType DEF MaiaAbility, Accepted
  <2>2. o.path \in Path \/ ~(Opens(o) \/ Corrupts(o))
    BY DEF Opens, Corrupts, CanUseAbility, AtEndpoint
  <2>3. Config[o.unit].cooldown \in Nat
    BY <2>1, UnitsAssumption DEF UnitConfig
  <2> HIDE DEF o
  <2>4. [units EXCEPT ![o.unit].cooldown = Config[o.unit].cooldown] \in [Unit -> UnitState]
    BY <1>4, <2>1, <2>3, UnitsUpdates, NoRoute DEF TypeOK
  <2>5. ASSUME o.path \in Path
        PROVE  /\ [paths EXCEPT ![o.path] = OpenPathGandalf(@)] \in [Path -> PathState]
               /\ [paths EXCEPT ![o.path] = CorruptPathSaruman(@)] \in [Path -> PathState]
    BY <1>4, <2>1, <2>5, PathTypes DEF TypeOK
  <2>6. paths' \in [Path -> PathState] /\ units' \in [Unit -> UnitState]
    BY <1>4, <2>2, <2>4, <2>5 DEF MaiaAbility, TypeOK, o
  <2>7. strayPaths' \in SUBSET STRING /\ strayPaths' \cap Path = {}
    <3>1. Head(todo) \in Order
      BY <1>4, TodoType DEF MaiaAbility, Accepted
    <3>2. Head(todo).path \in STRING
      BY <3>1 DEF Order
    <3>3. strayPaths' \subseteq strayPaths \cup ({Head(todo).path} \ Path)
      BY <1>4 DEF MaiaAbility
    <3> QED
      BY <1>4, <3>2, <3>3 DEF TypeOK
  <2> QED
    BY <1>4, <2>6, <2>7, TodoType DEF MaiaAbility, TypeOK
<1> QED
  BY <1>1, <1>2, <1>3, <1>4

\* Steps 4, 5 and 7.
LEMMA MovementTypes ==
  TypeInv /\ (FortifyOrDeploy \/ AdvanceUnit) => TypeInv'
<1> USE DEF TypeInv, Targeted, FightSteps, queue
<1>1. ASSUME TypeInv, FortifyOrDeploy PROVE TypeInv'
  <2> DEFINE o == Head(todo)
             here == units[o.unit].region
             id == IF here \in Region THEN here ELSE ""
             fort == [regions[here] EXCEPT !.fortified = TRUE, !.fortifyTurns = 2]
  <2>1. o.unit \in Unit /\ o.region \in AnyRegion
    BY <1>1, TodoType DEF FortifyOrDeploy, Accepted
  <2>2. here \in AnyRegion /\ id \in AnyRegion
    BY <1>1, <2>1 DEF TypeOK, UnitState, AnyRegion
  <2>3. /\ MoveLists(o.unit, o.region) \in [AnyRegion -> RegionState]
        /\ [units EXCEPT ![o.unit].region = o.region] \in [Unit -> UnitState]
    BY <1>1, <2>1, MoveType
  <2>4. fort \in RegionState
    BY <1>1, <2>2, FortifyType DEF TypeOK
  <2>5. [regions EXCEPT ![id] = fort] \in [AnyRegion -> RegionState]
    BY <1>1, <2>2, <2>4 DEF TypeOK
  <2> HIDE DEF fort
  <2>6. units' \in [Unit -> UnitState] /\ regions' \in [AnyRegion -> RegionState]
    BY <1>1, <2>3, <2>5 DEF FortifyOrDeploy, MoveUnit, TypeOK, fort
  <2> QED
    BY <1>1, <2>6, TodoType DEF FortifyOrDeploy, TypeOK
<1>2. ASSUME TypeInv, AdvanceUnit PROVE TypeInv'
  <2> DEFINE u == Head(roster)
             isBearer == u = Bearer
             route == IF isBearer THEN rb.route ELSE units[u].route
             idx == IF isBearer THEN rb.routeIdx ELSE units[u].routeIdx
             here == IF isBearer THEN rb.trueRegion ELSE units[u].region
             path == route[idx + 1]
             dest == FarEnd(path, here)
  <2>1. u \in Unit /\ Tail(roster) \in Seq(Unit)
    BY <1>2, TailMembers DEF AdvanceUnit, TypeOK
  <2>2. route \in Seq(Path) /\ idx \in Nat
    BY <1>2, <2>1 DEF TypeOK, UnitState, RBState, Route
  <2>3. ASSUME idx < Len(route) PROVE dest \in Region
    <3>1. path \in Path
      BY <2>2, <2>3, ElementOfSeq
    <3> QED
      BY <3>1, PathEnds
  <2> HIDE DEF route, idx, here, path
  <2>4. ASSUME dest \in Region
        PROVE  /\ MoveLists(u, dest) \in [AnyRegion -> RegionState]
               /\ [units EXCEPT ![u].region = dest, ![u].routeIdx = idx + 1]
                    \in [Unit -> UnitState]
    <3>1. dest \in AnyRegion
      BY <2>4 DEF AnyRegion
    <3>3. idx + 1 \in Nat
      BY <2>2
    <3>4. [units EXCEPT ![u].region = dest, ![u].routeIdx = idx + 1] \in [Unit -> UnitState]
      BY <1>2, <2>1, <3>1, <3>3, NoRoute, UnitsUpdates DEF TypeOK
    <3> QED
      BY <1>2, <2>1, <3>1, <3>4, MoveType
  <2>5. [units EXCEPT ![u].routeIdx = idx + 1] \in [Unit -> UnitState]
    <3>1. idx + 1 \in Nat
      BY <2>2
    <3> HIDE DEF idx
    <3> QED
      BY <1>2, <2>1, <3>1, NoRoute, UnitsUpdates DEF TypeOK
  <2>6. ASSUME NEW d \in Region, NEW e \in BOOLEAN
        PROVE  [rb EXCEPT !.trueRegion = d, !.routeIdx = idx + 1, !.exposed = e] \in RBState
    <3>1. rb \in RBState /\ idx + 1 \in Nat
      BY <1>2, <2>2 DEF TypeOK
    <3>2. \A n \in Nat :
            [rb EXCEPT !.trueRegion = d, !.routeIdx = n, !.exposed = e] \in RBState
      BY <3>1 DEF RBState
    <3> QED
      BY <3>1, <3>2
  <2>7. rb.exposed \in BOOLEAN
    BY <1>2 DEF TypeOK, RBState
  <2>8. /\ units' \in [Unit -> UnitState] /\ regions' \in [AnyRegion -> RegionState]
        /\ rb' \in RBState
    <3>1. \/ UNCHANGED <<units, regions, rb>>
          \/ /\ idx < Len(route)
             /\ rb' = [rb EXCEPT !.trueRegion = dest, !.routeIdx = idx + 1,
                         !.exposed = @ \/ (paths[path].surveillance >= 1 /\ turn > HiddenUntilTurn)]
             /\ units' = [units EXCEPT ![u].routeIdx = idx + 1]
             /\ UNCHANGED regions
          \/ /\ idx < Len(route)
             /\ units' = [units EXCEPT ![u].region = dest, ![u].routeIdx = idx + 1]
             /\ regions' = MoveLists(u, dest)
             /\ UNCHANGED rb
      BY <1>2 DEF AdvanceUnit, route, idx, here, path
    <3> HIDE DEF dest
    <3>2. CASE UNCHANGED <<units, regions, rb>>
      BY <1>2, <3>2 DEF TypeOK
    <3>3. CASE /\ idx < Len(route)
               /\ rb' = [rb EXCEPT !.trueRegion = dest, !.routeIdx = idx + 1,
                           !.exposed = @ \/ (paths[path].surveillance >= 1 /\ turn > HiddenUntilTurn)]
               /\ units' = [units EXCEPT ![u].routeIdx = idx + 1]
               /\ UNCHANGED regions
      <4>1. (rb.exposed \/ (paths[path].surveillance >= 1 /\ turn > HiddenUntilTurn)) \in BOOLEAN
        OBVIOUS
      <4>2. rb' \in RBState
        BY <2>3, <2>6, <3>3, <4>1
      <4> QED
        BY <1>2, <2>5, <3>3, <4>2 DEF TypeOK
    <3>4. CASE /\ idx < Len(route)
               /\ units' = [units EXCEPT ![u].region = dest, ![u].routeIdx = idx + 1]
               /\ regions' = MoveLists(u, dest)
               /\ UNCHANGED rb
      BY <1>2, <2>3, <2>4, <3>4 DEF TypeOK
    <3> QED
      BY <3>1, <3>2, <3>3, <3>4
  <2> QED
    BY <1>2, <2>1, <2>8 DEF AdvanceUnit, TypeOK
<1> QED
  BY <1>1, <1>2

\* The attackers of a target: one at least, and all of them units.
LEMMA AttackersType ==
  ASSUME TypeInv, NEW t \in targets
  PROVE  LET orders == AttackOrdersOn(t)
             attackers == [k \in DOMAIN orders |-> orders[k].unit]
         IN /\ attackers \in Seq(Unit) /\ Len(attackers) = Len(orders)
            /\ 1 \in DOMAIN attackers /\ attackers[1] \in Unit
            /\ Range(attackers) =
                 {pending[i].unit : i \in {k \in DOMAIN pending :
                    pending[k].type = "ATTACK_REGION" /\ pending[k].region = t}}
<1> DEFINE orders == AttackOrdersOn(t)
           attackers == [k \in DOMAIN orders |-> orders[k].unit]
           I == {k \in DOMAIN pending :
                   pending[k].type = "ATTACK_REGION" /\ pending[k].region = t}
<1>1. /\ orders \in Seq(Order) /\ \A k \in DOMAIN orders : Accepted(orders[k])
      /\ Range(orders) = {pending[i] : i \in I}
  BY PickPending, I \in SUBSET DOMAIN pending DEF AttackOrdersOn, TypeInv
<1>2. I # {}
  BY DEF TypeInv, Targeted
<1> HIDE DEF orders
<1>3. DOMAIN orders = 1..Len(orders) /\ Len(orders) \in Nat
  BY <1>1, LenProperties
<1>4. 1 \in DOMAIN orders
  BY <1>1, <1>2, <1>3 DEF Range
<1>5. attackers \in [1..Len(orders) -> Unit]
  BY <1>1, <1>3 DEF Accepted
<1>6. attackers \in Seq(Unit) /\ Len(attackers) = Len(orders)
  BY <1>3, <1>5
<1>7. Range(attackers) = {o.unit : o \in Range(orders)}
  BY DEF Range
<1>8. Range(attackers) = {pending[i].unit : i \in I}
  BY <1>1, <1>7
<1> QED
  BY <1>3, <1>4, <1>5, <1>6, <1>8 DEF orders

\* Shifting elements of a list to the front of an array leaves a sequence.
LEMMA ShiftedType ==
  ASSUME NEW array \in Seq(Unit), NEW kept \in Seq(Unit)
  PROVE  Shifted(array, kept) \in Seq(Unit) /\ Len(Shifted(array, kept)) = Len(array)
<1>1. /\ array \in [1..Len(array) -> Unit] /\ Len(array) \in Nat
      /\ kept \in [1..Len(kept) -> Unit]
  BY LenProperties
<1>2. Shifted(array, kept) \in [1..Len(array) -> Unit]
  BY <1>1 DEF Shifted
<1> QED
  BY <1>1, <1>2

\* Step 8.
LEMMA FightTypes == TypeInv /\ Fight => TypeInv'
<1> SUFFICES ASSUME TypeInv, Fight PROVE TypeInv'
  OBVIOUS
<1>1. PICK t \in targets :
        LET orders == AttackOrdersOn(t)
            attackers == [k \in DOMAIN orders |-> orders[k].unit]
            side == Config[attackers[1]].side
            present == regions[t].unitsPresent
            fit == Pick(attackers, {k \in DOMAIN attackers : units[attackers[k]].status = Active})
            defenders == Pick(present, {k \in DOMAIN present :
                           units[present[k]].status = Active /\ Config[present[k]].side # side})
            lead == GroupPower(units, fit)
                      - DefenderPower(units, defenders, fit, Terrain[t], regions[t].fortified)
        IN /\ targets' = targets \ {t}
           /\ fight' = [target |-> t, side |-> side, attackers |-> attackers,
                        damage |-> IF lead > 0 THEN lead ELSE 0, array |-> present]
           /\ \/ lead > 0 /\ step' = "damage" /\ roster' = defenders
              \/ lead <= 0 /\ step' = "repel" /\ roster' = attackers
  BY DEF Fight
<1> DEFINE orders == AttackOrdersOn(t)
           attackers == [k \in DOMAIN orders |-> orders[k].unit]
           side == Config[attackers[1]].side
           present == regions[t].unitsPresent
           fit == Pick(attackers, {k \in DOMAIN attackers : units[attackers[k]].status = Active})
           defenders == Pick(present, {k \in DOMAIN present :
                          units[present[k]].status = Active /\ Config[present[k]].side # side})
           lead == GroupPower(units, fit)
                     - DefenderPower(units, defenders, fit, Terrain[t], regions[t].fortified)
           damage == IF lead > 0 THEN lead ELSE 0
<1>2. attackers \in Seq(Unit) /\ attackers[1] \in Unit
  BY AttackersType
<1>3. side \in Side
  BY <1>2, UnitsAssumption DEF UnitConfig
<1>4. t \in AnyRegion
  BY DEF TypeInv, TypeOK, AnyRegion
<1>5. present \in Seq(Unit)
  BY <1>4 DEF TypeInv, TypeOK, RegionState
<1> HIDE DEF attackers, present, side
<1>6. fit \in Seq(Unit) /\ defenders \in Seq(Unit)
  BY <1>2, <1>5, PickProperties
<1> HIDE DEF fit, defenders
<1>7. /\ GroupPower(units, fit) \in Nat
      /\ DefenderPower(units, defenders, fit, Terrain[t], regions[t].fortified) \in Nat
  BY <1>6, GroupPowerType, DefenderPowerType DEF TypeInv, TypeOK
<1>8. damage \in Int
  BY <1>7
<1> HIDE DEF damage
<1>9. [target |-> t, side |-> side, attackers |-> attackers, damage |-> damage,
       array |-> present] \in FightState
  BY <1>2, <1>3, <1>4, <1>5, <1>8 DEF FightState
<1>10. fight' = [target |-> t, side |-> side, attackers |-> attackers, damage |-> damage,
                 array |-> present]
  BY <1>1 DEF attackers, side, present, fit, defenders, damage
<1>11. roster' \in Seq(Unit) /\ step' \in {"damage", "repel"} /\ targets' \subseteq targets
  BY <1>1, <1>2, <1>6 DEF attackers, side, present, fit, defenders
<1> QED
  BY <1>9, <1>10, <1>11
     DEF Fight, TypeInv, TypeOK, Targeted, FightSteps, Steps, board, queue

LEMMA CombatTypes ==
  TypeInv /\ (DamageDefender \/ Conquer \/ Occupy \/ Repel) => TypeInv'
<1> USE DEF TypeInv, Targeted, FightSteps, queue
<1>1. ASSUME TypeInv, DamageDefender PROVE TypeInv'
  <2> DEFINE d == Head(roster)
             here == units[d].region
             hit == ApplyDamage(units[d], Config[d], fight.damage)
             left == [fight EXCEPT !.damage = @ - units[d].strength]
             kept == Without(regions[here].unitsPresent, d)
  <2>1. d \in Unit /\ Tail(roster) \in Seq(Unit)
    BY <1>1, TailMembers DEF DamageDefender, TypeOK
  <2>2. units[d] \in UnitState /\ Config[d] \in UnitConfig
    BY <1>1, <2>1, UnitsAssumption DEF TypeOK
  <2>3. here \in AnyRegion /\ units[d].strength \in Nat
    BY <2>2 DEF UnitState
  <2>4. fight \in FightState /\ fight.damage \in Int
    BY <1>1 DEF TypeOK, FightState
  <2>5. hit \in UnitState
    BY <2>2, <2>4, ApplyDamageType
  <2>6. left \in FightState
    <3>1. fight.damage - units[d].strength \in Int
      BY <2>3, <2>4
    <3>2. \A n \in Int : [fight EXCEPT !.damage = n] \in FightState
      BY <2>4 DEF FightState
    <3> QED
      BY <3>1, <3>2
  <2>7. kept \in Seq(Unit)
    BY <1>1, <2>3, WithoutProperties DEF TypeOK, RegionState
  <2> HIDE DEF hit, left, kept
  <2>8. [left EXCEPT !.array = Shifted(@, kept)] \in FightState
    <3>1. Shifted(left.array, kept) \in Seq(Unit)
      BY <2>6, <2>7, ShiftedType DEF FightState
    <3> QED
      BY <2>6, <3>1 DEF FightState
  <2>9. [units EXCEPT ![d] = hit] \in [Unit -> UnitState]
    BY <1>1, <2>1, <2>5 DEF TypeOK
  <2>10. [regions EXCEPT ![here].unitsPresent = kept] \in [AnyRegion -> RegionState]
    BY <1>1, <2>3, <2>7, ListUpdate DEF TypeOK
  <2>11. /\ units' \in [Unit -> UnitState] /\ regions' \in [AnyRegion -> RegionState]
         /\ fight' \in FightState
    BY <1>1, <2>6, <2>8, <2>9, <2>10 DEF DamageDefender, TypeOK, hit, left, kept
  <2> QED
    BY <1>1, <2>1, <2>11 DEF DamageDefender, TypeOK
<1>2. ASSUME TypeInv, Conquer PROVE TypeInv'
  <2>1. /\ fight.target \in AnyRegion /\ fight.side \in Control
        /\ fight.array \in Seq(Unit) /\ fight.attackers \in Seq(Unit)
    BY <1>2 DEF TypeOK, FightState, Control
  <2>2. \A r \in RegionState, c \in Control, l \in Seq(Unit) :
          [r EXCEPT !.controlledBy = c, !.unitsPresent = l] \in RegionState
    BY DEF RegionState
  <2>3. regions' \in [AnyRegion -> RegionState]
    BY <1>2, <2>1, <2>2 DEF Conquer, TypeOK
  <2>4. sarumanDisabled' \in BOOLEAN
    BY <1>2 DEF Conquer
  <2> QED
    BY <1>2, <2>1, <2>3, <2>4 DEF Conquer, TypeOK, Steps
<1>3. ASSUME TypeInv, Occupy PROVE TypeInv'
  <2>1. Head(roster) \in Unit /\ Tail(roster) \in Seq(Unit)
    BY <1>3, TailMembers DEF Occupy, TypeOK
  <2>2. fight.target \in AnyRegion
    BY <1>3 DEF TypeOK, FightState
  <2>3. /\ MoveLists(Head(roster), fight.target) \in [AnyRegion -> RegionState]
        /\ [units EXCEPT ![Head(roster)].region = fight.target] \in [Unit -> UnitState]
    BY <1>3, <2>1, <2>2, MoveType
  <2>4. units \in [Unit -> UnitState] /\ regions \in [AnyRegion -> RegionState]
    BY <1>3 DEF TypeOK
  <2>5. \/ MoveUnit(Head(roster), fight.target)
        \/ UNCHANGED <<units, regions>>
    BY <1>3 DEF Occupy
  <2>6. units' \in [Unit -> UnitState] /\ regions' \in [AnyRegion -> RegionState]
    BY <2>3, <2>4, <2>5 DEF MoveUnit
  <2> QED
    BY <1>3, <2>1, <2>6 DEF Occupy, TypeOK
<1>4. ASSUME TypeInv, Repel PROVE TypeInv'
  <2>1. Head(roster) \in Unit /\ Tail(roster) \in Seq(Unit)
    BY <1>4, TailMembers DEF Repel, TypeOK
  <2>2. units[Head(roster)] \in UnitState /\ Config[Head(roster)] \in UnitConfig
    BY <1>4, <2>1, UnitsAssumption DEF TypeOK
  <2>3. ApplyDamage(units[Head(roster)], Config[Head(roster)], 1) \in UnitState
    BY <2>2, ApplyDamageType
  <2>4. units' \in [Unit -> UnitState]
    BY <1>4, <2>1, <2>3 DEF Repel, TypeOK
  <2> QED
    BY <1>4, <2>1, <2>4 DEF Repel, TypeOK
<1> QED
  BY <1>1, <1>2, <1>3, <1>4

\* Steps 9 to 13.
LEMMA EndTypes == TypeInv /\ (TickTimers \/ Detect \/ FinishTurn) => TypeInv'
<1> USE DEF TypeInv, Targeted, FightSteps, queue
<1>1. ASSUME TypeInv, TickTimers PROVE TypeInv'
  <2>1. ASSUME NEW p \in Path
        PROVE  TickTempOpen(paths[p], paths[p].blockedBy # NoUnit
                                        /\ AtEndpoint(paths[p].blockedBy, p)) \in PathState
    <3>1. paths[p] \in PathState /\ Bearer \in Unit
      BY <1>1, UnitsAssumption DEF TypeOK
    <3>2. (paths[p].blockedBy # NoUnit /\ AtEndpoint(paths[p].blockedBy, p)) \in BOOLEAN
      OBVIOUS
    <3> QED
      BY <3>1, <3>2, PathTypes
  <2>2. paths' \in [Path -> PathState]
    BY <1>1, <2>1 DEF TickTimers
  <2>3. regions' \in [AnyRegion -> RegionState]
    BY <1>1, TickFortificationType DEF TickTimers, TypeOK
  <2>4. units' \in [Unit -> UnitState]
    BY <1>1, TickUnitType, UnitsAssumption DEF TickTimers, TypeOK
  <2> QED
    BY <1>1, <2>2, <2>3, <2>4 DEF TickTimers, TypeOK, Steps
<1>2. ASSUME TypeInv, Detect PROVE TypeInv'
  <2>1. turn \in Nat /\ rb \in RBState /\ rb.trueRegion \in Region
    <3>1. rb \in RBState /\ turn \in 1..MaxTurns
      BY <1>2 DEF TypeOK
    <3>2. turn \in Nat
      BY <3>1, TurnsAssumption
    <3> QED
      BY <3>1, <3>2 DEF RBState
  <2>2. [rb EXCEPT !.exposed = TRUE, !.lastDetectedTurn = turn,
                   !.lastDetectedRegion = rb.trueRegion] \in RBState
    BY <2>1 DEF RBState
  <2>3. rb' \in RBState
    BY <1>2, <2>1, <2>2 DEF Detect
  <2> QED
    BY <1>2, <2>3 DEF Detect, TypeOK, Steps
<1>3. ASSUME TypeInv, FinishTurn PROVE TypeInv'
  <2>1. EvaluateWin \in Outcome /\ (~EvaluateWin.over => turn < MaxTurns)
    <3>1. outcome \in Outcome
      BY <1>3 DEF TypeOK
    <3>2. \A w \in {FreePeoples, Shadow, "NONE"},
             c \in {"RING_DESTROYED", "RING_BEARER_CAPTURED", "DRAW"} :
            Over(w, c) \in Outcome /\ Over(w, c).over
      BY DEF Over, Outcome, Side
    <3>3. turn \in Int /\ MaxTurns \in Int
      BY <1>3, TurnsAssumption DEF TypeOK
    <3> QED
      BY <3>1, <3>2, <3>3 DEF EvaluateWin
  <2>2. outcome' \in Outcome
    BY <1>3, <2>1 DEF FinishTurn
  <2>3. turn' \in 1..MaxTurns
    <3>1. turn' = NextTurn(outcome'.over) /\ outcome' = EvaluateWin
      BY <1>3 DEF FinishTurn
    <3>2. turn \in 1..MaxTurns /\ MaxTurns \in Nat
      BY <1>3, TurnsAssumption DEF TypeOK
    <3>3. turn' = IF EvaluateWin.over THEN turn ELSE turn + 1
      BY <3>1 DEF NextTurn
    <3> QED
      BY <2>1, <3>2, <3>3
  <2>4. rb' \in RBState
    BY <1>3 DEF FinishTurn, TypeOK, RBState
  <2>5. announced' \in Nat
    <3>1. announced \in Nat
      BY <1>3 DEF TypeOK
    <3>2. announced' = announced + 1 \/ announced' = announced
      BY <1>3 DEF FinishTurn
    <3> QED
      BY <3>1, <3>2
  <2>6. pending' \in Seq(Order) /\ \A k \in DOMAIN pending' : Accepted(pending'[k])
    <3>1. pending' = <<>>
      BY <1>3 DEF FinishTurn
    <3> QED
      BY <3>1
  <2>7. targets' = {}
    BY <1>3 DEF FinishTurn, Targeted
  <2> QED
    BY <1>3, <2>2, <2>3, <2>4, <2>5, <2>6, <2>7 DEF FinishTurn, TypeOK, Steps
<1> QED
  BY <1>1, <1>2, <1>3

\* What a fight that has just been decided leaves: the target, its attackers, the
\* array of its list, and as the next units to visit defenders of that list or
\* the attackers.
LEMMA FightSummary ==
  ASSUME TypeInv, Fight
  PROVE  \E t \in targets :
           LET orders == AttackOrdersOn(t)
               attackers == [k \in DOMAIN orders |-> orders[k].unit]
           IN /\ targets' = targets \ {t}
              /\ fight'.target = t /\ fight'.attackers = attackers
              /\ fight'.side = Config[attackers[1]].side
              /\ fight'.array = regions[t].unitsPresent
              /\ \/ /\ step' = "damage" /\ fight'.damage > 0
                    /\ Range(roster') \subseteq Range(regions[t].unitsPresent)
                 \/ step' = "repel" /\ roster' = attackers
<1>1. PICK t \in targets :
        LET orders == AttackOrdersOn(t)
            attackers == [k \in DOMAIN orders |-> orders[k].unit]
            side == Config[attackers[1]].side
            present == regions[t].unitsPresent
            fit == Pick(attackers, {k \in DOMAIN attackers : units[attackers[k]].status = Active})
            defenders == Pick(present, {k \in DOMAIN present :
                           units[present[k]].status = Active /\ Config[present[k]].side # side})
            lead == GroupPower(units, fit)
                      - DefenderPower(units, defenders, fit, Terrain[t], regions[t].fortified)
        IN /\ targets' = targets \ {t}
           /\ fight' = [target |-> t, side |-> side, attackers |-> attackers,
                        damage |-> IF lead > 0 THEN lead ELSE 0, array |-> present]
           /\ \/ lead > 0 /\ step' = "damage" /\ roster' = defenders
              \/ lead <= 0 /\ step' = "repel" /\ roster' = attackers
  BY DEF Fight
<1> DEFINE orders == AttackOrdersOn(t)
           attackers == [k \in DOMAIN orders |-> orders[k].unit]
           side == Config[attackers[1]].side
           present == regions[t].unitsPresent
           fit == Pick(attackers, {k \in DOMAIN attackers : units[attackers[k]].status = Active})
           fighting == {k \in DOMAIN present :
                          units[present[k]].status = Active /\ Config[present[k]].side # side}
           lead == GroupPower(units, fit)
                     - DefenderPower(units, Pick(present, fighting), fit, Terrain[t],
                                     regions[t].fortified)
           damage == IF lead > 0 THEN lead ELSE 0
<1>2. t \in AnyRegion /\ present \in Seq(Unit)
  BY DEF TypeInv, TypeOK, AnyRegion, RegionState
<1>3. Range(Pick(present, fighting)) \subseteq Range(present)
  <2>1. fighting \in SUBSET DOMAIN present
    OBVIOUS
  <2> HIDE DEF present, fighting
  <2>2. Range(Pick(present, fighting)) = {present[i] : i \in fighting}
    BY <1>2, <2>1, PickProperties
  <2> QED
    BY <2>1, <2>2 DEF Range
<1> HIDE DEF attackers, side, present, fit, fighting, lead
<1>4. /\ fight' = [target |-> t, side |-> side, attackers |-> attackers, damage |-> damage,
                   array |-> present]
      /\ targets' = targets \ {t}
      /\ \/ lead > 0 /\ step' = "damage" /\ roster' = Pick(present, fighting)
         \/ lead <= 0 /\ step' = "repel" /\ roster' = attackers
  BY <1>1 DEF attackers, side, present, fit, fighting, lead
<1>5. /\ fight'.target = t /\ fight'.attackers = attackers /\ fight'.side = side
      /\ fight'.array = present
      /\ lead > 0 => fight'.damage > 0
  BY <1>4
<1>6. \/ /\ step' = "damage" /\ fight'.damage > 0
         /\ Range(roster') \subseteq Range(present)
      \/ step' = "repel" /\ roster' = attackers
  BY <1>3, <1>4, <1>5
<1> QED
  BY <1>4, <1>5, <1>6 DEF attackers, side, present

-----------------------------------------------------------------------------
(* The theorem *)

\* The type invariant and what it needs are inductive.
LEMMA StepTypes == TypeInv /\ [Next]_vars => TypeInv'
<1> SUFFICES ASSUME TypeInv, [Next]_vars PROVE TypeInv'
  OBVIOUS
<1>1. CASE UNCHANGED vars
  BY <1>1 DEF vars, board, queue, control, TypeInv, TypeOK, Targeted
<1>2. CASE \E o \in Orders, t \in 1..MaxTurns : Submit([o EXCEPT !.turn = t])
  BY <1>2, IntakeTypes
<1>3. CASE Reset
  BY <1>3, ResetTypes
<1>4. CASE ProcessTurn
  BY <1>4, PassTypes, OrderTypes, MovementTypes, FightTypes, CombatTypes, EndTypes
     DEF ProcessTurn
<1> QED
  BY <1>1, <1>2, <1>3, <1>4 DEF Next

\* Whatever units, map and orders the game is configured with, every value the
\* engine stores has the type the code declares for it, through all steps of all
\* turns: timers stay in their ranges, lists name units, ids are on the map.
THEOREM TypesAreCorrect == Spec => []TypeOK
<1>1. Init => TypeInv
  BY InitTypes
<1>2. TypeInv /\ [Next]_vars => TypeInv'
  BY StepTypes
<1>3. TypeInv => TypeOK
  BY DEF TypeInv
<1> QED
  BY <1>1, <1>2, <1>3, PTL DEF Spec
=============================================================================
