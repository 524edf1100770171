----------------------------- MODULE BoardProofs -----------------------------
(***************************************************************************)
(* The coherence of units, paths, orders, timers and targets, proved for   *)
(* every configuration, map and set of orders.  UnitChange and PathChange  *)
(* say what any step of a turn may do to one unit or one path; the         *)
(* invariants and the action properties follow from them one record at a   *)
(* time.  What Validate saw of an order still holds when its step comes,   *)
(* because no step before it disturbs the piece of state it looked at.     *)
(***************************************************************************)
EXTENDS EngineTypes

-----------------------------------------------------------------------------
(* What a step may do to a unit *)

\* The unit keeps its life; it moves only while ACTIVE.
SameLife(s, t) ==
  /\ t.status = s.status /\ t.strength = s.strength /\ t.respawnTurns = s.respawnTurns
  /\ t.region = s.region \/ s.status = Active

UnitChange(u) ==
  \/ SameLife(units[u], units'[u])
  \/ \E d \in Nat : d > 0 /\ units'[u] = ApplyDamage(units[u], Config[u], d)
  \/ units'[u] = TickUnit(units[u], Config[u])

\* Updates of places, routes and cooldowns keep a unit's life.
LEMMA LifeKept ==
  ASSUME NEW s \in UnitState, NEW r, NEW n, NEW route
  PROVE  /\ SameLife(s, s)
         /\ SameLife(s, [s EXCEPT !.cooldown = n])
         /\ SameLife(s, [s EXCEPT !.routeIdx = n])
         /\ SameLife(s, [s EXCEPT !.route = route, !.routeIdx = n])
         /\ s.status = Active => SameLife(s, [s EXCEPT !.region = r])
         /\ s.status = Active => SameLife(s, [s EXCEPT !.region = r, !.routeIdx = n])
BY DEF SameLife, UnitState

\* Every step of a turn changes every unit in one of these ways.
LEMMA UnitSteps ==
  ASSUME TypeInv, ProcessTurn, NEW u \in Unit
  PROVE  UnitChange(u)
<1>1. /\ TypeOK /\ units \in [Unit -> UnitState] /\ units[u] \in UnitState
      /\ roster \in Seq(Unit) /\ fight \in FightState
  BY DEF TypeInv, TypeOK
<1>2. CASE UNCHANGED units
  BY <1>1, <1>2, LifeKept DEF UnitChange
<1>3. CASE RouteOrder
  <2> DEFINE o == Head(todo)
             routed == [units EXCEPT ![o.unit].route = o.route, ![o.unit].routeIdx = 0]
  <2>1. units' = units \/ units' = routed
    BY <1>3 DEF RouteOrder
  <2>2. \/ routed[u] = units[u]
        \/ routed[u] = [units[u] EXCEPT !.route = o.route, !.routeIdx = 0]
    BY <1>1
  <2>3. /\ SameLife(units[u], units[u])
        /\ SameLife(units[u], [units[u] EXCEPT !.route = o.route, !.routeIdx = 0])
    BY <1>1, LifeKept
  <2> HIDE DEF routed
  <2> QED
    BY <2>1, <2>2, <2>3 DEF UnitChange
<1>4. CASE MaiaAbility
  <2> DEFINE o == Head(todo)
             used == [units EXCEPT ![o.unit].cooldown = Config[o.unit].cooldown]
  <2>1. units' = units \/ units' = used
    BY <1>4 DEF MaiaAbility
  <2>2. used[u] = units[u] \/ used[u] = [units[u] EXCEPT !.cooldown = Config[o.unit].cooldown]
    BY <1>1
  <2>3. /\ SameLife(units[u], units[u])
        /\ SameLife(units[u], [units[u] EXCEPT !.cooldown = Config[o.unit].cooldown])
    BY <1>1, LifeKept
  <2> HIDE DEF used
  <2> QED
    BY <2>1, <2>2, <2>3 DEF UnitChange
<1>5. CASE FortifyOrDeploy
  <2> DEFINE o == Head(todo)
             moved == [units EXCEPT ![o.unit].region = o.region]
  <2>1. units' = units \/ (units[o.unit].status = Active /\ units' = moved)
    BY <1>5 DEF FortifyOrDeploy, MoveUnit
  <2>2. moved[u] = units[u] \/ (o.unit = u /\ moved[u] = [units[u] EXCEPT !.region = o.region])
    BY <1>1
  <2>3. /\ SameLife(units[u], units[u])
        /\ units[u].status = Active =>
             SameLife(units[u], [units[u] EXCEPT !.region = o.region])
    BY <1>1, LifeKept
  <2> HIDE DEF moved
  <2> QED
    BY <2>1, <2>2, <2>3 DEF UnitChange
<1>6. CASE AdvanceUnit
  <2> DEFINE v == Head(roster)
             route == IF v = Bearer THEN rb.route ELSE units[v].route
             idx == IF v = Bearer THEN rb.routeIdx ELSE units[v].routeIdx
             here == IF v = Bearer THEN rb.trueRegion ELSE units[v].region
             dest == FarEnd(route[idx + 1], here)
             counted == [units EXCEPT ![v].routeIdx = idx + 1]
             moved == [units EXCEPT ![v].region = dest, ![v].routeIdx = idx + 1]
  <2> HIDE DEF idx, dest
  <2>1. \/ units' = units
        \/ units' = counted
        \/ units[v].status = Active /\ units' = moved
    BY <1>6 DEF AdvanceUnit, idx, dest
  <2>2. counted[u] = units[u] \/ counted[u] = [units[u] EXCEPT !.routeIdx = idx + 1]
    BY <1>1
  <2>3. \/ moved[u] = units[u]
        \/ v = u /\ moved[u] = [units[u] EXCEPT !.region = dest, !.routeIdx = idx + 1]
    BY <1>1
  <2>4. /\ SameLife(units[u], units[u])
        /\ SameLife(units[u], [units[u] EXCEPT !.routeIdx = idx + 1])
        /\ units[u].status = Active =>
             SameLife(units[u], [units[u] EXCEPT !.region = dest, !.routeIdx = idx + 1])
    BY <1>1, LifeKept
  <2> HIDE DEF counted, moved
  <2> QED
    BY <2>1, <2>2, <2>3, <2>4 DEF UnitChange
<1>7. CASE DamageDefender
  <2> DEFINE d == Head(roster)
             hit == ApplyDamage(units[d], Config[d], fight.damage)
  <2>1. units' = [units EXCEPT ![d] = hit] /\ fight.damage > 0
    BY <1>7 DEF DamageDefender
  <2>2. fight.damage \in Nat
    <3>1. fight.damage \in Int
      BY <1>1 DEF FightState
    <3> QED
      BY <2>1, <3>1
  <2> HIDE DEF hit
  <2>3. units'[u] = units[u] \/ (d = u /\ units'[u] = hit)
    BY <1>1, <2>1
  <2> QED
    BY <1>1, <2>1, <2>2, <2>3, LifeKept DEF UnitChange, hit
<1>8. CASE Occupy
  <2> DEFINE v == Head(roster)
             moved == [units EXCEPT ![v].region = fight.target]
  <2>1. units' = units \/ (units[v].status = Active /\ units' = moved)
    BY <1>8 DEF Occupy, MoveUnit
  <2>2. moved[u] = units[u] \/ (v = u /\ moved[u] = [units[u] EXCEPT !.region = fight.target])
    BY <1>1
  <2>3. /\ SameLife(units[u], units[u])
        /\ units[u].status = Active =>
             SameLife(units[u], [units[u] EXCEPT !.region = fight.target])
    BY <1>1, LifeKept
  <2> HIDE DEF moved
  <2> QED
    BY <2>1, <2>2, <2>3 DEF UnitChange
<1>9. CASE Repel
  <2> DEFINE v == Head(roster)
             hit == ApplyDamage(units[v], Config[v], 1)
  <2>1. units' = units \/ units' = [units EXCEPT ![v] = hit]
    BY <1>9 DEF Repel
  <2> HIDE DEF hit
  <2>2. units'[u] = units[u] \/ (v = u /\ units'[u] = hit)
    BY <1>1, <2>1
  <2> QED
    <3>1. 1 \in Nat /\ 1 > 0
      OBVIOUS
    <3> QED
      BY <1>1, <2>1, <2>2, <3>1, LifeKept DEF UnitChange, hit
<1>10. CASE TickTimers
  BY <1>10 DEF TickTimers, UnitChange
<1>11. \/ UNCHANGED units \/ RouteOrder \/ MaiaAbility \/ FortifyOrDeploy \/ AdvanceUnit
       \/ DamageDefender \/ Occupy \/ Repel \/ TickTimers
  BY DEF ProcessTurn, BeginTurn, RoutesDone, PathOrder, Reconcile, FortifyDone, MaiaDone,
         AdvanceDone, Fight, Conquer, FightDone, Detect, FinishTurn, board
<1> QED
  BY <1>2, <1>3, <1>4, <1>5, <1>6, <1>7, <1>8, <1>9, <1>10, <1>11

-----------------------------------------------------------------------------
(* Units *)

\* UnitCoherent, of one unit.
Sane(s, cfg) ==
  /\ s.status = Active <=> s.strength > 0
  /\ s.strength <= cfg.strength
  /\ cfg.indestructible => s.status = Active
  /\ s.status = Respawning => cfg.respawns /\ s.region = "" /\ s.respawnTurns > 0
  /\ s.status = Destroyed => ~cfg.respawns

\* What a unit that has fallen may become.
Mortal(s, t, cfg) ==
  /\ s.status = Destroyed => t.status = Destroyed
  /\ s.status = Respawning /\ t.status # Respawning =>
       t.status = Active /\ t.strength = cfg.strength /\ t.region = cfg.start

\* Damage keeps a unit coherent, the second hit on a fallen unit included.
LEMMA DamageSane ==
  ASSUME NEW s \in UnitState, NEW cfg \in UnitConfig, NEW d \in Nat, d > 0, Sane(s, cfg),
         cfg.respawns => cfg.respawnTurns > 0
  PROVE  Sane(ApplyDamage(s, cfg, d), cfg) /\ Mortal(s, ApplyDamage(s, cfg, d), cfg)
<1> DEFINE left == s.strength - d
<1>1. /\ s.strength \in Nat /\ cfg.strength \in Nat /\ cfg.strength > 0
      /\ cfg.respawnTurns \in Nat
  BY DEF UnitState, UnitConfig
<1>1a. /\ s.strength <= cfg.strength /\ (s.status = Active <=> s.strength > 0)
       /\ cfg.indestructible => s.status = Active
       /\ s.status = Respawning => cfg.respawns
       /\ s.status = Destroyed => ~cfg.respawns
  BY DEF Sane
<1>2. left \in Int /\ left < s.strength
  BY <1>1
<1> USE DEF Active, Destroyed, Respawning
<1>3. CASE cfg.indestructible
  <2> DEFINE n == IF left < 1 THEN 1 ELSE left
             t == [s EXCEPT !.strength = n, !.status = Active]
  <2>1. n \in Nat /\ n > 0 /\ n <= cfg.strength /\ s.status = Active
    BY <1>1, <1>1a, <1>2, <1>3
  <2>2. ApplyDamage(s, cfg, d) = t
    BY <1>3 DEF ApplyDamage
  <2> HIDE DEF n
  <2>3. t.status = Active /\ t.strength = n
    BY DEF UnitState
  <2> QED
    BY <1>1, <2>1, <2>2, <2>3 DEF Sane, Mortal
<1>4. CASE ~cfg.indestructible /\ left > 0
  <2> DEFINE t == [s EXCEPT !.strength = left]
  <2>1. s.status = Active /\ left <= cfg.strength
    BY <1>1, <1>1a, <1>2, <1>4
  <2>2. ApplyDamage(s, cfg, d) = t
    BY <1>4 DEF ApplyDamage
  <2> HIDE DEF left
  <2>3. t.status = Active /\ t.strength = left
    BY <2>1 DEF UnitState
  <2> QED
    BY <1>1, <1>4, <2>1, <2>2, <2>3 DEF Sane, Mortal
<1>5. CASE ~cfg.indestructible /\ ~(left > 0) /\ cfg.respawns
  <2> DEFINE t == [s EXCEPT !.strength = 0, !.status = Respawning,
                            !.respawnTurns = cfg.respawnTurns, !.region = ""]
  <2>1. ApplyDamage(s, cfg, d) = t
    BY <1>5 DEF ApplyDamage
  <2>2. /\ t.status = Respawning /\ t.strength = 0 /\ t.region = ""
        /\ t.respawnTurns = cfg.respawnTurns
    BY DEF UnitState
  <2> HIDE DEF t, left
  <2>3. Sane(t, cfg)
    <3>1. t.strength = 0
      BY <2>2
    <3>2. ~(t.strength > 0) /\ t.strength <= cfg.strength
      BY <1>1, <3>1
    <3>3. cfg.respawnTurns > 0
      BY <1>5
    <3>4. t.respawnTurns > 0
      BY <2>2, <3>3, Zenon
    <3> QED
      BY <1>5, <2>2, <3>2, <3>4, Zenon DEF Sane
  <2>4. Mortal(s, t, cfg)
    BY <1>1a, <1>5, <2>2 DEF Mortal
  <2> QED
    BY <2>1, <2>3, <2>4
<1>6. CASE ~cfg.indestructible /\ ~(left > 0) /\ ~cfg.respawns
  <2> DEFINE t == [s EXCEPT !.strength = 0, !.status = Destroyed]
  <2>1. ApplyDamage(s, cfg, d) = t
    BY <1>6 DEF ApplyDamage
  <2>2. t.status = Destroyed /\ t.strength = 0
    BY DEF UnitState
  <2> HIDE DEF t, left
  <2>3. Sane(t, cfg)
    <3>1. ~(t.strength > 0) /\ t.strength <= cfg.strength
      BY <1>1, <2>2
    <3> QED
      BY <1>6, <2>2, <3>1, Zenon DEF Sane
  <2>4. Mortal(s, t, cfg)
    BY <1>1a, <1>6, <2>2 DEF Mortal
  <2> QED
    BY <2>1, <2>3, <2>4
<1> QED
  BY <1>3, <1>4, <1>5, <1>6

\* So does step 11.
LEMMA TickSane ==
  ASSUME NEW s \in UnitState, NEW cfg \in UnitConfig, Sane(s, cfg)
  PROVE  Sane(TickUnit(s, cfg), cfg) /\ Mortal(s, TickUnit(s, cfg), cfg)
<1> DEFINE wait == IF s.respawnTurns > 0 THEN s.respawnTurns - 1 ELSE 0
           lived == IF s.status # Respawning THEN s
                    ELSE IF wait > 0 THEN [s EXCEPT !.respawnTurns = wait]
                    ELSE [s EXCEPT !.respawnTurns = wait, !.status = Active,
                                   !.strength = cfg.strength, !.region = cfg.start]
<1>1. /\ wait \in Nat /\ cfg.start \in AnyRegion
      /\ cfg.strength \in Nat /\ cfg.strength > 0
  <2>1. s.respawnTurns \in Nat
    BY DEF UnitState
  <2>2. wait \in Nat
    BY <2>1
  <2>3. cfg.start \in AnyRegion
    BY DEF UnitConfig, AnyRegion
  <2>4. cfg.strength \in Nat /\ cfg.strength > 0
    BY DEF UnitConfig
  <2> QED
    BY <2>2, <2>3, <2>4
<1> USE DEF Active, Destroyed, Respawning
<1> HIDE DEF wait
<1>2. lived \in UnitState /\ Sane(lived, cfg) /\ Mortal(s, lived, cfg)
  <2>1. CASE s.status # Respawning
    <3>1. lived = s
      BY <2>1
    <3>2. Mortal(s, s, cfg)
      BY <2>1 DEF Mortal
    <3> QED
      BY <3>1, <3>2
  <2>2. CASE s.status = Respawning /\ wait > 0
    <3> DEFINE t == [s EXCEPT !.respawnTurns = wait]
    <3>1. lived = t
      BY <2>2
    <3>2. /\ t \in UnitState /\ t.respawnTurns = wait /\ t.status = s.status
          /\ t.strength = s.strength /\ t.region = s.region
      BY <1>1 DEF UnitState
    <3> QED
      BY <2>2, <3>1, <3>2 DEF Sane, Mortal
  <2>3. CASE s.status = Respawning /\ ~(wait > 0)
    <3> DEFINE t == [s EXCEPT !.respawnTurns = wait, !.status = Active,
                              !.strength = cfg.strength, !.region = cfg.start]
    <3>1. lived = t
      BY <2>3
    <3>2. /\ t \in UnitState /\ t.status = Active
          /\ t.strength = cfg.strength /\ t.region = cfg.start
      BY <1>1 DEF UnitState
    <3> HIDE DEF t
    <3>3. (t.status = Active <=> t.strength > 0) /\ t.strength <= cfg.strength
      BY <1>1, <3>2
    <3>4. Sane(t, cfg)
      BY <3>2, <3>3, Zenon DEF Sane
    <3>5. Mortal(s, t, cfg)
      BY <2>3, <3>2 DEF Mortal
    <3> QED
      BY <3>1, <3>2, <3>4, <3>5
  <2> QED
    BY <2>1, <2>2, <2>3
<1>3. TickUnit(s, cfg) = [lived EXCEPT !.cooldown = IF @ > 0 THEN @ - 1 ELSE 0]
  BY DEF TickUnit, wait
<1> HIDE DEF lived
<1>4. /\ TickUnit(s, cfg).status = lived.status /\ TickUnit(s, cfg).strength = lived.strength
      /\ TickUnit(s, cfg).region = lived.region
      /\ TickUnit(s, cfg).respawnTurns = lived.respawnTurns
  BY <1>2, <1>3 DEF UnitState
<1> QED
  BY <1>2, <1>4 DEF Sane, Mortal

\* And whatever keeps a unit's life.
LEMMA SameLifeSane ==
  ASSUME NEW s, NEW t, NEW cfg, Sane(s, cfg), SameLife(s, t)
  PROVE  Sane(t, cfg) /\ Mortal(s, t, cfg)
BY DEF Sane, Mortal, SameLife, Active, Respawning, Destroyed

\* A step of a turn keeps every unit coherent and the fallen fallen.
LEMMA UnitStepSane ==
  ASSUME TypeInv, UnitCoherent, ProcessTurn
  PROVE  UnitCoherent' /\ \A u \in Unit : Mortal(units[u], units'[u], Config[u])
<1>1. ASSUME NEW u \in Unit
      PROVE  Sane(units'[u], Config[u]) /\ Mortal(units[u], units'[u], Config[u])
  <2>1. /\ units[u] \in UnitState /\ Config[u] \in UnitConfig /\ Sane(units[u], Config[u])
        /\ Config[u].respawns => Config[u].respawnTurns > 0
    BY UnitsAssumption DEF TypeInv, TypeOK, UnitCoherent, Sane
  <2>2. UnitChange(u)
    BY UnitSteps
  <2> QED
    BY <2>1, <2>2, DamageSane, TickSane, SameLifeSane DEF UnitChange
<1> QED
  BY <1>1 DEF UnitCoherent, Sane

\* A seeded game has coherent units.
LEMMA SeedSane == \A u \in Unit : Sane(SeedUnits[u], Config[u])
<1> SUFFICES ASSUME NEW u \in Unit PROVE Sane(SeedUnits[u], Config[u])
  OBVIOUS
<1>1. /\ SeedUnits[u].status = Active /\ SeedUnits[u].strength = Config[u].strength
  BY DEF SeedUnits, NewUnit
<1>2. Config[u].strength \in Nat \ {0}
  BY UnitsAssumption DEF UnitConfig
<1> QED
  BY <1>1, <1>2 DEF Sane, Active, Respawning, Destroyed

\* UnitCoherent is inductive, and no step but a reset brings back the fallen.
LEMMA StepUnits ==
  TypeInv /\ UnitCoherent /\ [Next]_vars =>
    UnitCoherent' /\ (Reset \/ \A u \in Unit : Mortal(units[u], units'[u], Config[u]))
<1> SUFFICES ASSUME TypeInv, UnitCoherent, [Next]_vars
             PROVE  /\ UnitCoherent'
                    /\ Reset \/ \A u \in Unit : Mortal(units[u], units'[u], Config[u])
  OBVIOUS
<1>1. CASE UNCHANGED units
  BY <1>1 DEF UnitCoherent, Mortal
<1>2. CASE Reset
  <2>1. units' = SeedUnits
    BY <1>2 DEF Reset
  <2>2. UnitCoherent'
    BY <2>1, SeedSane DEF UnitCoherent, Sane
  <2> QED
    BY <1>2, <2>2
<1>3. CASE ProcessTurn
  BY <1>3, UnitStepSane
<1> QED
  BY <1>1, <1>2, <1>3 DEF Next, Submit, vars, board

\* UnitCoherent and TypeInv together.
LEMMA UnitInvariant == Spec => [](TypeInv /\ UnitCoherent)
<1>1. Init => TypeInv /\ UnitCoherent
  <2>1. ASSUME Init PROVE UnitCoherent
    <3>1. units = SeedUnits
      BY <2>1 DEF Init
    <3> QED
      BY <3>1, SeedSane DEF UnitCoherent, Sane
  <2> QED
    BY <2>1, InitTypes
<1>2. TypeInv /\ UnitCoherent /\ [Next]_vars => TypeInv' /\ UnitCoherent'
  BY StepTypes, StepUnits
<1> QED
  BY <1>1, <1>2, PTL DEF Spec

\* A unit's status, strength and place agree in every game: ACTIVE means strength
\* left, the indestructible never fall, only those configured to respawn wait for
\* it, nowhere on the map (ApplyDamage, step 11, resolveCombat's loops).
THEOREM UnitsAreCoherent == Spec => []UnitCoherent
BY UnitInvariant, PTL

\* Until a reset a destroyed unit stays destroyed, and one that waits to respawn
\* comes back only at its start region with full strength, in every game.
THEOREM TheFallenStayFallen == Spec => Lifecycle
<1>1. TypeInv /\ UnitCoherent /\ [Next]_vars =>
        [\/ Reset
         \/ \A u \in Unit :
              /\ units[u].status = Destroyed => units'[u].status = Destroyed
              /\ units[u].status = Respawning /\ units'[u].status # Respawning =>
                   /\ units'[u].status = Active
                   /\ units'[u].strength = Config[u].strength
                   /\ units'[u].region = Config[u].start]_vars
  BY StepUnits DEF Mortal
<1> QED
  BY <1>1, UnitInvariant, PTL DEF Spec, Lifecycle

-----------------------------------------------------------------------------
(* Paths *)

\* PathCoherent, of one path.
Fit(s) ==
  /\ s.status = Open <=> s.blockedBy = NoUnit
  /\ s.status = TempOpen <=> s.tempOpenTurns > 0
  /\ s.corrupted => s.surveillance = 3

\* Surveillance and corruption grow; the latter not once Isengard has fallen.
Grown(s, t, disabled) ==
  /\ t.surveillance >= s.surveillance
  /\ s.corrupted => t.corrupted
  /\ disabled => (t.corrupted <=> s.corrupted)

PathChange(p) ==
  \/ paths'[p] = paths[p]
  \/ \E u \in Unit : paths'[p] = BlockPath(paths[p], u)
  \/ paths'[p] = SearchPath(paths[p])
  \/ paths'[p] = OpenPathGandalf(paths[p])
  \/ ~sarumanDisabled /\ paths'[p] = CorruptPathSaruman(paths[p])
  \/ \E present \in BOOLEAN : paths'[p] = ReconcileBlock(paths[p], present)
  \/ \E present \in BOOLEAN : paths'[p] = TickTempOpen(paths[p], present)

\* Every step of a turn changes every path in one of these ways.
LEMMA PathSteps ==
  ASSUME TypeInv, ProcessTurn, NEW p \in Path
  PROVE  PathChange(p)
<1>1. paths \in [Path -> PathState]
  BY DEF TypeInv, TypeOK
<1>2. CASE UNCHANGED paths
  BY <1>2 DEF PathChange
<1>3. CASE PathOrder
  <2> DEFINE o == Head(todo)
             blocked == [paths EXCEPT ![o.path] = BlockPath(@, o.unit)]
             searched == [paths EXCEPT ![o.path] = SearchPath(@)]
  <2>1. o.unit \in Unit
    BY <1>3, TodoType DEF PathOrder, TypeInv, Accepted
  <2>2. UNCHANGED paths \/ paths' = blocked \/ paths' = searched
    BY <1>3 DEF PathOrder
  <2>3. /\ blocked[p] = paths[p] \/ blocked[p] = BlockPath(paths[p], o.unit)
        /\ searched[p] = paths[p] \/ searched[p] = SearchPath(paths[p])
    BY <1>1
  <2> HIDE DEF blocked, searched
  <2> QED
    BY <2>1, <2>2, <2>3 DEF PathChange
<1>4. CASE Reconcile
  <2>1. HeldBy(p, paths[p].blockedBy) \in BOOLEAN
    BY DEF HeldBy, AtEndpoint
  <2>2. paths'[p] = ReconcileBlock(paths[p], HeldBy(p, paths[p].blockedBy))
    BY <1>4 DEF Reconcile
  <2> QED
    BY <2>1, <2>2 DEF PathChange
<1>5. CASE MaiaAbility
  <2> DEFINE o == Head(todo)
             opened == [paths EXCEPT ![o.path] = OpenPathGandalf(@)]
             corrupted == [paths EXCEPT ![o.path] = CorruptPathSaruman(@)]
  <2>1. UNCHANGED paths \/ paths' = opened \/ (~sarumanDisabled /\ paths' = corrupted)
    BY <1>5 DEF MaiaAbility, Corrupts
  <2>2. /\ opened[p] = paths[p] \/ opened[p] = OpenPathGandalf(paths[p])
        /\ corrupted[p] = paths[p] \/ corrupted[p] = CorruptPathSaruman(paths[p])
    BY <1>1
  <2> HIDE DEF opened, corrupted
  <2> QED
    BY <2>1, <2>2 DEF PathChange
<1>6. CASE TickTimers
  <2> DEFINE present == paths[p].blockedBy # NoUnit /\ AtEndpoint(paths[p].blockedBy, p)
  <2>1. present \in BOOLEAN
    BY DEF AtEndpoint
  <2>2. paths'[p] = TickTempOpen(paths[p], present)
    BY <1>6 DEF TickTimers
  <2> QED
    BY <2>1, <2>2 DEF PathChange
<1>7. UNCHANGED paths \/ PathOrder \/ Reconcile \/ MaiaAbility \/ TickTimers
  BY DEF ProcessTurn, BeginTurn, RouteOrder, RoutesDone, FortifyOrDeploy, FortifyDone,
         MaiaDone, AdvanceUnit, AdvanceDone, Fight, DamageDefender, Conquer, Occupy,
         Repel, FightDone, Detect, FinishTurn, board
<1> QED
  BY <1>2, <1>3, <1>4, <1>5, <1>6, <1>7

\* The operations of package game on a path keep it coherent and only add to
\* its surveillance and corruption.
LEMMA PathSane ==
  ASSUME NEW s \in PathState, Fit(s), NEW u \in Unit, NEW present \in BOOLEAN, NEW disabled
  PROVE  /\ Fit(BlockPath(s, u)) /\ Grown(s, BlockPath(s, u), disabled)
         /\ Fit(SearchPath(s)) /\ Grown(s, SearchPath(s), disabled)
         /\ Fit(OpenPathGandalf(s)) /\ Grown(s, OpenPathGandalf(s), disabled)
         /\ Fit(CorruptPathSaruman(s)) /\ Grown(s, CorruptPathSaruman(s), FALSE)
         /\ Fit(ReconcileBlock(s, present)) /\ Grown(s, ReconcileBlock(s, present), disabled)
         /\ Fit(TickTempOpen(s, present)) /\ Grown(s, TickTempOpen(s, present), disabled)
<1> USE DEF Open, Threatened, Blocked, TempOpen
<1>1. /\ s.surveillance \in 0..3 /\ s.tempOpenTurns \in 0..2 /\ u # NoUnit
      /\ s.status \in {Open, Threatened, Blocked, TempOpen}
  BY UnitsAssumption DEF PathState
<1>2. Fit(BlockPath(s, u)) /\ Grown(s, BlockPath(s, u), disabled)
  BY <1>1 DEF Fit, Grown, BlockPath, PathState
<1>3. Fit(SearchPath(s)) /\ Grown(s, SearchPath(s), disabled)
  BY <1>1 DEF Fit, Grown, SearchPath, PathState
<1>4. Fit(OpenPathGandalf(s)) /\ Grown(s, OpenPathGandalf(s), disabled)
  BY <1>1 DEF Fit, Grown, OpenPathGandalf, PathState
<1>5. Fit(CorruptPathSaruman(s)) /\ Grown(s, CorruptPathSaruman(s), FALSE)
  BY <1>1 DEF Fit, Grown, CorruptPathSaruman, PathState
<1>6. Fit(ReconcileBlock(s, present)) /\ Grown(s, ReconcileBlock(s, present), disabled)
  BY <1>1 DEF Fit, Grown, ReconcileBlock, PathState
<1>7. Fit(TickTempOpen(s, present)) /\ Grown(s, TickTempOpen(s, present), disabled)
  BY <1>1 DEF Fit, Grown, TickTempOpen, PathState
<1> QED
  BY <1>2, <1>3, <1>4, <1>5, <1>6, <1>7

\* Corruption of the board, as CorruptionIsPermanent says it of a step.
Corruption ==
  /\ sarumanDisabled => sarumanDisabled'
  /\ \A p \in Path : Grown(paths[p], paths'[p], sarumanDisabled)

LEMMA PathStepSane ==
  ASSUME TypeInv, PathCoherent, ProcessTurn
  PROVE  PathCoherent' /\ Corruption
<1>1. ASSUME NEW p \in Path
      PROVE  Fit(paths'[p]) /\ Grown(paths[p], paths'[p], sarumanDisabled)
  <2>1. paths[p] \in PathState /\ Fit(paths[p])
    BY DEF TypeInv, TypeOK, PathCoherent, Fit
  <2>2. PathChange(p)
    BY PathSteps
  <2>3. Grown(paths[p], paths[p], sarumanDisabled)
    <3>1. paths[p].surveillance \in 0..3
      BY <2>1 DEF PathState
    <3> QED
      BY <3>1 DEF Grown
  <2>4. Bearer \in Unit /\ TRUE \in BOOLEAN /\ sarumanDisabled \in BOOLEAN
    BY UnitsAssumption DEF TypeInv, TypeOK
  <2>5. CASE ~sarumanDisabled /\ paths'[p] = CorruptPathSaruman(paths[p])
    BY <2>1, <2>4, <2>5, PathSane DEF Grown
  <2> QED
    BY <2>1, <2>2, <2>3, <2>4, <2>5, PathSane DEF PathChange
<1>2. sarumanDisabled => sarumanDisabled'
  BY DEF ProcessTurn, BeginTurn, RouteOrder, RoutesDone, PathOrder, Reconcile,
         FortifyOrDeploy, FortifyDone, MaiaAbility, MaiaDone, AdvanceUnit, AdvanceDone,
         Fight, DamageDefender, Conquer, Occupy, Repel, FightDone, TickTimers, Detect,
         FinishTurn, board
<1> QED
  BY <1>1, <1>2 DEF PathCoherent, Fit, Corruption

\* PathCoherent is inductive, and no step but a reset lessens corruption.
LEMMA StepPaths ==
  TypeInv /\ PathCoherent /\ [Next]_vars => PathCoherent' /\ (Reset \/ Corruption)
<1> SUFFICES ASSUME TypeInv, PathCoherent, [Next]_vars
             PROVE  PathCoherent' /\ (Reset \/ Corruption)
  OBVIOUS
<1>1. CASE UNCHANGED <<paths, sarumanDisabled>>
  <2>1. ASSUME NEW p \in Path PROVE Grown(paths[p], paths'[p], sarumanDisabled)
    <3>1. paths[p].surveillance \in 0..3 /\ paths'[p] = paths[p]
      BY <1>1 DEF TypeInv, TypeOK, PathState
    <3> QED
      BY <3>1 DEF Grown
  <2> QED
    BY <1>1, <2>1 DEF PathCoherent, Corruption
<1>2. CASE Reset
  <2>1. paths' = [p \in Path |-> NewPath] /\ Fit(NewPath)
    BY <1>2 DEF Reset, Fit, NewPath, Open, TempOpen
  <2> QED
    BY <1>2, <2>1 DEF PathCoherent, Fit
<1>3. CASE ProcessTurn
  BY <1>3, PathStepSane
<1> QED
  BY <1>1, <1>2, <1>3 DEF Next, Submit, vars, board

LEMMA PathInvariant == Spec => [](TypeInv /\ PathCoherent)
<1>1. Init => TypeInv /\ PathCoherent
  <2>1. ASSUME Init PROVE PathCoherent
    <3>1. paths = [p \in Path |-> NewPath] /\ Fit(NewPath)
      BY <2>1 DEF Init, Fit, NewPath, Open, TempOpen
    <3> QED
      BY <3>1 DEF PathCoherent, Fit
  <2> QED
    BY <2>1, InitTypes
<1>2. TypeInv /\ PathCoherent /\ [Next]_vars => TypeInv' /\ PathCoherent'
  BY StepTypes, StepPaths
<1> QED
  BY <1>1, <1>2, PTL DEF Spec

\* A path's status, holder and timer agree in every game, through every step of
\* steps 3, 6 and 9 of a turn (path.go).
THEOREM PathsAreCoherent == Spec => []PathCoherent
BY PathInvariant, PTL

\* Until a reset surveillance and corruption never shrink, Saruman once disabled
\* stays so, and corrupts no further path (steps 3, 6 and 8 of a turn).
THEOREM CorruptionStays == Spec => CorruptionIsPermanent
<1>1. TypeInv /\ PathCoherent /\ [Next]_vars =>
        [\/ Reset
         \/ /\ sarumanDisabled => sarumanDisabled'
            /\ \A p \in Path :
                 /\ paths'[p].surveillance >= paths[p].surveillance
                 /\ paths[p].corrupted => paths'[p].corrupted
                 /\ sarumanDisabled => (paths'[p].corrupted <=> paths[p].corrupted)]_vars
  BY StepPaths DEF Corruption, Grown
<1> QED
  BY <1>1, PathInvariant, PTL DEF Spec, CorruptionIsPermanent

-----------------------------------------------------------------------------
(* Orders *)

\* Submit refuses a second order of a unit and an order for another turn; only
\* FinishTurn, which empties the queue, and a reset change the turn.
LEMMA StepOrders == TypeInv /\ OneOrderPerUnit /\ [Next]_vars => OneOrderPerUnit'
<1> SUFFICES ASSUME TypeInv, OneOrderPerUnit, [Next]_vars PROVE OneOrderPerUnit'
  OBVIOUS
<1>1. CASE UNCHANGED <<turn, pending, seen>>
  BY <1>1 DEF OneOrderPerUnit, Distinct
<1>2. CASE pending' = <<>> /\ seen' = {}
  BY <1>2 DEF OneOrderPerUnit, Distinct
<1>3. ASSUME NEW o \in Orders, NEW t \in 1..MaxTurns, Submit([o EXCEPT !.turn = t])
      PROVE  OneOrderPerUnit'
  <2> DEFINE q == [o EXCEPT !.turn = t]
             n == Len(pending) + 1
  <2> HIDE DEF q
  <2>1. /\ q.unit \notin seen /\ q.turn = turn /\ turn' = turn
        /\ pending' = Append(pending, q) /\ seen' = seen \cup {q.unit}
    BY <1>3 DEF Submit, Validate, q
  <2>2. pending \in Seq(Order) /\ q \in Order
    BY <1>3, ValidOrder DEF Submit, TypeInv, TypeOK, Accepted, q
  <2>3. /\ DOMAIN pending' = DOMAIN pending \cup {n} /\ n \notin DOMAIN pending
        /\ pending'[n] = q
        /\ \A k \in DOMAIN pending : pending'[k] = pending[k]
    BY <2>1, <2>2
  <2>4. \A k \in DOMAIN pending : pending[k].unit # q.unit
    BY <2>1 DEF OneOrderPerUnit
  <2>5. Distinct(pending')
    BY <2>3, <2>4 DEF OneOrderPerUnit, Distinct
  <2>6. seen' = {pending'[k].unit : k \in DOMAIN pending'}
    BY <2>1, <2>3 DEF OneOrderPerUnit
  <2>7. \A k \in DOMAIN pending' : pending'[k].turn = turn'
    BY <2>1, <2>3 DEF OneOrderPerUnit
  <2> QED
    BY <2>5, <2>6, <2>7 DEF OneOrderPerUnit, Distinct
<1>4. CASE Reset \/ FinishTurn
  BY <1>2, <1>4 DEF Reset, FinishTurn
<1>5. CASE ProcessTurn /\ ~FinishTurn
  BY <1>1, <1>5 DEF ProcessTurn, BeginTurn, RouteOrder, RoutesDone, PathOrder, Reconcile,
     FortifyOrDeploy, FortifyDone, MaiaAbility, MaiaDone, AdvanceUnit, AdvanceDone,
     Fight, DamageDefender, Conquer, Occupy, Repel, FightDone, TickTimers, Detect, queue
<1> QED
  BY <1>1, <1>3, <1>4, <1>5 DEF Next, vars, queue

\* A turn never acts on two orders of one unit, nor on an order made for another
\* turn, and seen is exactly who has ordered (Submit, FinishTurn), in every game.
THEOREM OrdersAreUnique == Spec => []OneOrderPerUnit
<1>1. Init => TypeInv /\ OneOrderPerUnit
  BY InitTypes DEF Init, OneOrderPerUnit, Distinct
<1>2. TypeInv /\ OneOrderPerUnit /\ [Next]_vars => TypeInv' /\ OneOrderPerUnit'
  BY StepTypes, StepOrders
<1> QED
  BY <1>1, <1>2, PTL DEF Spec

-----------------------------------------------------------------------------
(* What Submit checked is still so when the turn acts on it *)


\* An accepted path order has passed the rule about the ends of its path.
LEMMA ValidPathOrder ==
  ASSUME TypeOK, NEW q \in Order, q.type \in PathOrders,
         Validate(q, turn, seen, units, paths, regions) = "OK"
  PROVE  AtEndpoint(q.unit, q.path)
<1>1. ValidateTarget(q, units, paths, regions) = "OK"
  BY DEF Validate
<1>2. ValidateTarget(q, units, paths, regions) =
        IF q.path \notin Path THEN "INVALID_PATH"
        ELSE IF NotAtEnds(q, units) THEN "UNIT_NOT_ADJACENT" ELSE "OK"
  BY DEF ValidateTarget, RouteOrders, PathOrders
<1> QED
  BY <1>1, <1>2 DEF AtEndpoint, NotAtEnds

\* Until step 3 is over no unit has moved: PathOrdersAtEndpoint is inductive.
LEMMA StepPathOrders ==
  TypeInv /\ PathOrdersAtEndpoint /\ [Next]_vars => PathOrdersAtEndpoint'
<1> SUFFICES ASSUME TypeInv, PathOrdersAtEndpoint, [Next]_vars PROVE PathOrdersAtEndpoint'
  OBVIOUS
<1> DEFINE early == {"idle", "routes", "block"}
<1>1. CASE /\ \A u \in Unit : units'[u].region = units[u].region
           /\ UNCHANGED pending /\ step \in early
  <2>1. ASSUME NEW k \in DOMAIN pending, pending[k].type \in PathOrders
        PROVE  /\ pending[k].path \in Path
               /\ units'[pending[k].unit].region \in Ends(pending[k].path)
    <3>1. AtEndpoint(pending[k].unit, pending[k].path)
      BY <1>1, <2>1 DEF PathOrdersAtEndpoint
    <3>2. pending[k].unit \in Unit
      BY DEF TypeInv, TypeOK, Accepted
    <3> QED
      BY <1>1, <3>1, <3>2 DEF AtEndpoint
  <2> QED
    BY <1>1, <2>1 DEF PathOrdersAtEndpoint, AtEndpoint
<1>2. CASE step' \notin early
  BY <1>2 DEF PathOrdersAtEndpoint
<1>3. CASE pending' = <<>>
  <2>1. DOMAIN pending' = {}
    BY <1>3
  <2> QED
    BY <2>1 DEF PathOrdersAtEndpoint
<1>4. ASSUME NEW o \in Orders, NEW t \in 1..MaxTurns, Submit([o EXCEPT !.turn = t])
      PROVE  PathOrdersAtEndpoint'
  <2> DEFINE q == [o EXCEPT !.turn = t]
  <2>1. q \in Order /\ TypeOK /\ pending \in Seq(Order)
    <3>1. q \in Order
      BY OrdersAssumption, TurnsAssumption DEF Order
    <3> HIDE DEF q
    <3> QED
      BY <3>1 DEF TypeInv, TypeOK
  <2>2. /\ Validate(q, turn, seen, units, paths, regions) = "OK"
        /\ pending' = Append(pending, q) /\ step = "idle" /\ UNCHANGED units
    BY <1>4 DEF Submit, board
  <2> HIDE DEF q
  <2>3. \A k \in DOMAIN pending' :
          pending'[k] = q \/ (k \in DOMAIN pending /\ pending'[k] = pending[k])
    BY <2>1, <2>2
  <2>4. q.type \in PathOrders => AtEndpoint(q.unit, q.path)
    BY <2>1, <2>2, ValidPathOrder
  <2> QED
    BY <2>2, <2>3, <2>4 DEF PathOrdersAtEndpoint, AtEndpoint
<1>5. CASE RouteOrder
  <2> DEFINE o == Head(todo)
             routed == [units EXCEPT ![o.unit].route = o.route, ![o.unit].routeIdx = 0]
  <2>1. units' = units \/ units' = routed
    BY <1>5 DEF RouteOrder
  <2>2. \A u \in Unit : routed[u].region = units[u].region
    BY DEF TypeInv, TypeOK, UnitState
  <2> HIDE DEF routed
  <2> QED
    BY <1>1, <1>5, <2>1, <2>2 DEF RouteOrder, queue
<1>6. CASE BeginTurn \/ RoutesDone \/ PathOrder
  BY <1>1, <1>6 DEF BeginTurn, RoutesDone, PathOrder, board, queue
<1>7. CASE \/ Reconcile \/ FortifyOrDeploy \/ FortifyDone \/ MaiaAbility \/ MaiaDone
           \/ AdvanceUnit \/ AdvanceDone \/ Fight \/ DamageDefender \/ Conquer \/ Occupy
           \/ Repel \/ FightDone \/ TickTimers \/ Detect
  BY <1>2, <1>7 DEF Reconcile, FortifyOrDeploy, FortifyDone, MaiaAbility, MaiaDone,
     AdvanceUnit, AdvanceDone, Fight, DamageDefender, Conquer, Occupy, Repel, FightDone,
     TickTimers, Detect, Enter
<1>8. CASE FinishTurn \/ Reset
  BY <1>3, <1>8 DEF FinishTurn, Reset
<1>9. CASE UNCHANGED vars
  BY <1>9 DEF vars, board, queue, control, PathOrdersAtEndpoint, AtEndpoint
<1> QED
  BY <1>4, <1>5, <1>6, <1>7, <1>8, <1>9 DEF Next, ProcessTurn

\* In every game, an order to block or search a path is acted on with its unit
\* still at an end of the path, where Validate saw it: nothing between order
\* intake and the end of step 3 moves a unit.
THEOREM PathOrdersHold == Spec => []PathOrdersAtEndpoint
<1>1. Init => TypeInv /\ PathOrdersAtEndpoint
  <2>1. Init => DOMAIN pending = {}
    BY DEF Init
  <2> QED
    BY <2>1, InitTypes DEF PathOrdersAtEndpoint
<1>2. TypeInv /\ PathOrdersAtEndpoint /\ [Next]_vars => TypeInv' /\ PathOrdersAtEndpoint'
  BY StepTypes, StepPathOrders
<1> QED
  BY <1>1, <1>2, PTL DEF Spec

\* An order for an ability has passed the rule about its cooldown.
LEMMA ValidAbilityOrder ==
  ASSUME TypeOK, NEW q \in Order, q.type = "MAIA_ABILITY",
         Validate(q, turn, seen, units, paths, regions) = "OK"
  PROVE  q.unit \in Unit /\ units[q.unit].cooldown = 0
<1>1. q.unit \in Unit /\ ValidateTarget(q, units, paths, regions) = "OK"
  BY DEF Validate
<1>2. ValidateTarget(q, units, paths, regions) =
        IF OnCooldown(q, units) THEN "ABILITY_ON_COOLDOWN" ELSE "OK"
  BY DEF ValidateTarget, RouteOrders, PathOrders
<1>3. units[q.unit].cooldown \in Nat
  BY <1>1 DEF TypeOK, UnitState
<1> QED
  BY <1>1, <1>2, <1>3 DEF OnCooldown

\* From intake on the units with an ability order have no cooldown; in step 6
\* the orders left are of different units, so that using one spares the others.
AbilityInv ==
  /\ step \in Early => \A k \in DOMAIN pending :
       pending[k].type = "MAIA_ABILITY" => units[pending[k].unit].cooldown = 0
  /\ step = "maia" => Distinct(todo)
  /\ AbilitiesReady

\* The orders after the first are of other units than the first.
LEMMA DistinctTail ==
  ASSUME NEW s \in Seq(Order), s # <<>>, Distinct(s)
  PROVE  /\ Distinct(Tail(s))
         /\ \A k \in DOMAIN Tail(s) : /\ k + 1 \in DOMAIN s /\ Tail(s)[k] = s[k + 1]
                                      /\ Tail(s)[k].unit # Head(s).unit
<1>1. /\ Len(s) \in Nat /\ DOMAIN s = 1..Len(s) /\ 1 \in DOMAIN s /\ Head(s) = s[1]
      /\ DOMAIN Tail(s) = 1..(Len(s) - 1)
      /\ \A k \in DOMAIN Tail(s) : Tail(s)[k] = s[k + 1]
  OBVIOUS
<1>2. \A k \in DOMAIN Tail(s) : k + 1 \in DOMAIN s /\ k + 1 # 1 /\ k \in Nat
  BY <1>1
<1>3. \A j, k \in DOMAIN Tail(s) : j # k => j + 1 # k + 1
  BY <1>2
<1> QED
  BY <1>1, <1>2, <1>3 DEF Distinct

\* A selection of the pending orders has one order per unit, as they have.
LEMMA DistinctPending ==
  ASSUME TypeOK, OneOrderPerUnit, NEW types
  PROVE  Distinct(PendingOf(types))
<1> DEFINE I == {k \in DOMAIN pending : pending[k].type \in types}
<1>1. pending \in Seq(Order) /\ I \in SUBSET DOMAIN pending
  BY DEF TypeOK
<1>2. PendingOf(types) = Pick(pending, I)
  BY DEF PendingOf
<1> HIDE DEF I
<1>3. \A j, k \in DOMAIN Pick(pending, I) : j # k =>
        \E i1, i2 \in I : /\ i1 # i2
                          /\ Pick(pending, I)[j] = pending[i1]
                          /\ Pick(pending, I)[k] = pending[i2]
  BY <1>1, PickProperties
<1> QED
  BY <1>1, <1>2, <1>3 DEF OneOrderPerUnit, Distinct

\* AbilityInv is inductive, given one order per unit.
LEMMA StepAbilities ==
  TypeInv /\ OneOrderPerUnit /\ AbilityInv /\ [Next]_vars => AbilityInv'
<1> SUFFICES ASSUME TypeInv, OneOrderPerUnit, AbilityInv, [Next]_vars PROVE AbilityInv'
  OBVIOUS
<1>0. TypeOK /\ units \in [Unit -> UnitState]
  BY DEF TypeInv, TypeOK
<1>1. CASE /\ \A u \in Unit : units'[u].cooldown = units[u].cooldown
           /\ UNCHANGED pending /\ step \in Early /\ step' \in Early
  <2>1. \A k \in DOMAIN pending : pending[k].unit \in Unit
    BY <1>0 DEF TypeOK, Accepted
  <2> QED
    BY <1>1, <2>1 DEF AbilityInv, AbilitiesReady, Early
<1>2. CASE step' \notin Early \cup {"maia"}
  BY <1>2 DEF AbilityInv, AbilitiesReady
<1>3. CASE pending' = <<>> /\ step' # "maia"
  <2>1. DOMAIN pending' = {}
    BY <1>3
  <2> QED
    BY <1>3, <2>1 DEF AbilityInv, AbilitiesReady
<1>4. ASSUME NEW o \in Orders, NEW t \in 1..MaxTurns, Submit([o EXCEPT !.turn = t])
      PROVE  AbilityInv'
  <2> DEFINE q == [o EXCEPT !.turn = t]
  <2>1. q \in Order /\ pending \in Seq(Order)
    <3>1. q \in Order
      BY OrdersAssumption, TurnsAssumption DEF Order
    <3> HIDE DEF q
    <3> QED
      BY <1>0, <3>1 DEF TypeOK
  <2>2. /\ Validate(q, turn, seen, units, paths, regions) = "OK"
        /\ pending' = Append(pending, q)
        /\ step = "idle" /\ UNCHANGED <<units, step>>
    BY <1>4 DEF Submit, board, control
  <2> HIDE DEF q
  <2>3. \A k \in DOMAIN pending' :
          pending'[k] = q \/ (k \in DOMAIN pending /\ pending'[k] = pending[k])
    BY <2>1, <2>2
  <2>4. q.type = "MAIA_ABILITY" => units[q.unit].cooldown = 0
    BY <1>0, <2>1, <2>2, ValidAbilityOrder
  <2> QED
    BY <2>2, <2>3, <2>4 DEF AbilityInv, AbilitiesReady, Early
<1>5. CASE RouteOrder
  <2> DEFINE o == Head(todo)
             routed == [units EXCEPT ![o.unit].route = o.route, ![o.unit].routeIdx = 0]
  <2>1. units' = units \/ units' = routed
    BY <1>5 DEF RouteOrder
  <2>2. \A u \in Unit : routed[u].cooldown = units[u].cooldown
    BY <1>0 DEF UnitState
  <2> HIDE DEF routed
  <2> QED
    BY <1>1, <1>5, <2>1, <2>2 DEF RouteOrder, queue, Early
<1>6. CASE FortifyOrDeploy
  <2> DEFINE o == Head(todo)
             moved == [units EXCEPT ![o.unit].region = o.region]
  <2>1. units' = units \/ units' = moved
    BY <1>6 DEF FortifyOrDeploy, MoveUnit
  <2>2. \A u \in Unit : moved[u].cooldown = units[u].cooldown
    BY <1>0 DEF UnitState
  <2> HIDE DEF moved
  <2> QED
    BY <1>1, <1>6, <2>1, <2>2 DEF FortifyOrDeploy, queue, Early
<1>7. CASE BeginTurn \/ RoutesDone \/ PathOrder \/ Reconcile
  BY <1>1, <1>7 DEF BeginTurn, RoutesDone, PathOrder, Reconcile, board, queue, Enter, Early
<1>8. CASE FortifyDone
  <2>1. Distinct(PendingOf({"MAIA_ABILITY"}))
    BY <1>0, DistinctPending
  <2>2. \A q \in Range(PendingOf({"MAIA_ABILITY"})) : units[q.unit].cooldown = 0
    <3>1. Range(PendingOf({"MAIA_ABILITY"})) =
            {pending[i] : i \in {k \in DOMAIN pending : pending[k].type \in {"MAIA_ABILITY"}}}
      BY <1>0, PendingOfType
    <3>2. step \in Early
      BY <1>8 DEF FortifyDone, Early
    <3> QED
      BY <3>1, <3>2 DEF AbilityInv
  <2>3. todo' = PendingOf({"MAIA_ABILITY"}) /\ UNCHANGED units /\ step' = "maia"
    BY <1>8 DEF FortifyDone, Enter, board
  <2>4. \A k \in DOMAIN todo' : todo'[k] \in Range(todo')
    BY DEF Range
  <2>5. Distinct(todo')
    BY <2>1, <2>3
  <2>6. \A k \in DOMAIN todo' : units'[todo'[k].unit].cooldown = 0
    BY <2>2, <2>3, <2>4
  <2> QED
    BY <2>3, <2>5, <2>6 DEF AbilityInv, AbilitiesReady, Early, Distinct
<1>9. CASE MaiaAbility
  <2> DEFINE o == Head(todo)
             used == [units EXCEPT ![o.unit].cooldown = Config[o.unit].cooldown]
  <2>1. /\ todo \in Seq(Order) /\ todo # <<>> /\ step = "maia" /\ step' = "maia"
        /\ todo' = Tail(todo) /\ Distinct(todo)
        /\ \A k \in DOMAIN todo : units[todo[k].unit].cooldown = 0
    BY <1>0, <1>9 DEF MaiaAbility, TypeOK, AbilityInv, AbilitiesReady
  <2>2. units' = units \/ units' = used
    BY <1>9 DEF MaiaAbility
  <2>3. \A u \in Unit : u # o.unit => used[u] = units[u]
    BY <1>0
  <2>4. /\ Distinct(todo')
        /\ \A k \in DOMAIN todo' : /\ k + 1 \in DOMAIN todo /\ todo'[k] = todo[k + 1]
                                   /\ todo'[k].unit # o.unit
    BY <2>1, DistinctTail
  <2>5. \A k \in DOMAIN todo : todo[k].unit \in Unit
    BY <1>0 DEF TypeOK, Accepted
  <2> HIDE DEF used, o
  <2>6. \A k \in DOMAIN todo' : units'[todo'[k].unit].cooldown = 0
    BY <2>1, <2>2, <2>3, <2>4, <2>5
  <2> QED
    BY <2>1, <2>4, <2>6 DEF AbilityInv, AbilitiesReady, Early, Distinct
<1>10. CASE \/ MaiaDone \/ AdvanceUnit \/ AdvanceDone \/ Fight \/ DamageDefender \/ Conquer
            \/ Occupy \/ Repel \/ FightDone \/ TickTimers \/ Detect
  BY <1>2, <1>10 DEF MaiaDone, AdvanceUnit, AdvanceDone, Fight, DamageDefender, Conquer,
     Occupy, Repel, FightDone, TickTimers, Detect, Early
<1>11. CASE FinishTurn \/ Reset
  BY <1>3, <1>11 DEF FinishTurn, Reset, control
<1>12. CASE UNCHANGED vars
  BY <1>12 DEF vars, board, queue, control, AbilityInv, AbilitiesReady, Distinct
<1> QED
  BY <1>4, <1>5, <1>6, <1>7, <1>8, <1>9, <1>10, <1>11, <1>12 DEF Next, ProcessTurn

\* In every game the cooldown Validate saw at zero is still zero when step 6
\* reaches the order, so the second check there never refuses: orders are of
\* different units and only the use of an ability sets a cooldown.
THEOREM AbilitiesStayReady == Spec => []AbilitiesReady
<1>1. Init => TypeInv /\ OneOrderPerUnit /\ AbilityInv
  <2>1. Init => DOMAIN pending = {} /\ step = "idle"
    BY DEF Init
  <2>2. Init => OneOrderPerUnit
    BY DEF Init, OneOrderPerUnit, Distinct
  <2> QED
    BY <2>1, <2>2, InitTypes DEF AbilityInv, AbilitiesReady
<1>2. TypeInv /\ OneOrderPerUnit /\ AbilityInv /\ [Next]_vars
        => TypeInv' /\ OneOrderPerUnit' /\ AbilityInv'
  BY StepTypes, StepOrders, StepAbilities
<1>3. AbilityInv => AbilitiesReady
  BY DEF AbilityInv
<1> QED
  BY <1>1, <1>2, <1>3, PTL DEF Spec

-----------------------------------------------------------------------------
(* Timers *)

SameTimer(s, t) == t.fortified = s.fortified /\ t.fortifyTurns = s.fortifyTurns
SameHolder(s, t) == t.controlledBy = s.controlledBy

\* A new list of units changes nothing else of a region.
LEMMA ListKeeps ==
  ASSUME NEW f \in [AnyRegion -> RegionState], NEW r \in AnyRegion, NEW l, NEW q \in AnyRegion
  PROVE  /\ SameTimer(f[q], [f EXCEPT ![r].unitsPresent = l][q])
         /\ SameHolder(f[q], [f EXCEPT ![r].unitsPresent = l][q])
BY DEF SameTimer, SameHolder, RegionState

\* So does moveUnit.
LEMMA MoveKeeps ==
  ASSUME TypeOK, NEW u \in Unit, NEW dest \in AnyRegion, NEW q \in AnyRegion
  PROVE  SameTimer(regions[q], MoveLists(u, dest)[q])
           /\ SameHolder(regions[q], MoveLists(u, dest)[q])
<1> DEFINE here == units[u].region
           kept == Without(regions[here].unitsPresent, u)
           left == IF here = "" THEN regions ELSE [regions EXCEPT ![here].unitsPresent = kept]
           joined == WithOnce(left[dest].unitsPresent, u)
<1>1. here \in AnyRegion /\ regions \in [AnyRegion -> RegionState]
  BY DEF TypeOK, UnitState
<1>2. kept \in Seq(Unit)
  BY <1>1, WithoutProperties DEF RegionState
<1> HIDE DEF kept
<1>3. left \in [AnyRegion -> RegionState]
  BY <1>1, <1>2, ListUpdate
<1>4. SameTimer(regions[q], left[q]) /\ SameHolder(regions[q], left[q])
  <2>1. SameTimer(regions[q], regions[q]) /\ SameHolder(regions[q], regions[q])
    BY DEF SameTimer, SameHolder
  <2> QED
    BY <1>1, <2>1, ListKeeps
<1>5. MoveLists(u, dest) = [left EXCEPT ![dest].unitsPresent = joined]
  BY DEF MoveLists, kept
<1> HIDE DEF left, joined
<1>6. /\ SameTimer(left[q], MoveLists(u, dest)[q])
      /\ SameHolder(left[q], MoveLists(u, dest)[q])
  BY <1>3, <1>5, ListKeeps
<1> QED
  BY <1>4, <1>6 DEF SameTimer, SameHolder

RegionChange(r) ==
  /\ \/ SameTimer(regions[r], regions'[r])
     \/ FortifyOrDeploy /\ regions'[r].fortified = TRUE /\ regions'[r].fortifyTurns = 2
     \/ TickTimers /\ regions'[r] = TickFortification(regions[r])
  /\ \/ SameHolder(regions[r], regions'[r])
     \/ FortifyOrDeploy /\ r = ""
     \/ Conquer /\ r = fight.target /\ regions'[r].controlledBy = fight.side

\* Every step of a turn changes every region in one of these ways.
LEMMA RegionSteps ==
  ASSUME TypeInv, ProcessTurn, NEW r \in AnyRegion
  PROVE  RegionChange(r)
<1>1. TypeOK /\ regions \in [AnyRegion -> RegionState] /\ roster \in Seq(Unit)
      /\ fight \in FightState /\ units \in [Unit -> UnitState]
  BY DEF TypeInv, TypeOK
<1>2. CASE UNCHANGED regions
  BY <1>2 DEF RegionChange, SameTimer, SameHolder
<1>3. CASE FortifyOrDeploy
  <2> DEFINE o == Head(todo)
             here == units[o.unit].region
             id == IF here \in Region THEN here ELSE ""
             fort == [regions[here] EXCEPT !.fortified = TRUE, !.fortifyTurns = 2]
  <2>1. o.unit \in Unit /\ o.region \in AnyRegion
    BY <1>1, <1>3, TodoType DEF FortifyOrDeploy, Accepted
  <2>2. here \in AnyRegion
    BY <1>1, <2>1 DEF UnitState
  <2>3. \/ regions' = [regions EXCEPT ![id] = fort]
        \/ regions' = MoveLists(o.unit, o.region)
        \/ regions' = regions
    BY <1>3 DEF FortifyOrDeploy, MoveUnit
  <2>4. /\ fort.fortified = TRUE /\ fort.fortifyTurns = 2
        /\ fort.controlledBy = regions[here].controlledBy
    BY <1>1, <2>2 DEF RegionState
  <2>5. CASE regions' = [regions EXCEPT ![id] = fort]
    <3> HIDE DEF fort
    <3>1. CASE r # id
      <4>1. regions'[r] = regions[r]
        BY <1>1, <2>5, <3>1
      <4> QED
        BY <4>1 DEF RegionChange, SameTimer, SameHolder
    <3>2. CASE r = id
      <4>1. regions'[r] = fort
        BY <1>1, <2>5, <3>2
      <4>2. r = here \/ r = ""
        BY <3>2
      <4> QED
        BY <1>3, <2>4, <4>1, <4>2 DEF RegionChange, SameHolder
    <3> QED
      BY <3>1, <3>2
  <2> HIDE DEF o
  <2>6. CASE regions' = MoveLists(o.unit, o.region)
    BY <1>1, <2>1, <2>6, MoveKeeps DEF RegionChange
  <2>7. CASE regions' = regions
    BY <2>7, <1>2
  <2> QED
    BY <2>3, <2>5, <2>6, <2>7
<1>4. CASE AdvanceUnit
  <2>1. PICK dest : regions' = regions \/ (regions' = MoveLists(Head(roster), dest)
                                             /\ dest \in AnyRegion)
    <3> DEFINE u == Head(roster)
               route == units[u].route
               idx == units[u].routeIdx
               dest == FarEnd(route[idx + 1], units[u].region)
    <3>1. u \in Unit
      BY <1>1, <1>4, TailMembers DEF AdvanceUnit
    <3>2. route \in Seq(Path) /\ idx \in Nat
      BY <1>1, <3>1 DEF UnitState, Route
    <3>3. \/ regions' = regions
          \/ idx < Len(route) /\ regions' = MoveLists(u, dest)
      BY <1>4 DEF AdvanceUnit
    <3> HIDE DEF route, idx
    <3>4. idx < Len(route) => dest \in AnyRegion
      <4>1. idx < Len(route) => route[idx + 1] \in Path
        BY <3>2, ElementOfSeq
      <4> QED
        BY <4>1, PathEnds DEF AnyRegion
    <3> QED
      BY <3>3, <3>4
  <2>2. Head(roster) \in Unit
    BY <1>1, <1>4, TailMembers DEF AdvanceUnit
  <2> QED
    BY <1>1, <1>2, <2>1, <2>2, MoveKeeps DEF RegionChange
<1>5. CASE DamageDefender
  <2> DEFINE d == Head(roster)
             here == units[d].region
             kept == Without(regions[here].unitsPresent, d)
  <2>1. d \in Unit
    BY <1>1, <1>5, TailMembers DEF DamageDefender
  <2>2. here \in AnyRegion
    BY <1>1, <2>1 DEF UnitState
  <2>3. regions' = regions \/ regions' = [regions EXCEPT ![here].unitsPresent = kept]
    BY <1>5 DEF DamageDefender
  <2> HIDE DEF here, kept
  <2> QED
    BY <1>1, <1>2, <2>2, <2>3, ListKeeps DEF RegionChange
<1>6. CASE Conquer
  <2>1. regions' = [regions EXCEPT ![fight.target].controlledBy = fight.side,
                                   ![fight.target].unitsPresent = fight.array]
    BY <1>6 DEF Conquer
  <2>2. \A s \in RegionState : LET t == [s EXCEPT !.controlledBy = fight.side,
                                                  !.unitsPresent = fight.array] IN
          t.fortified = s.fortified /\ t.fortifyTurns = s.fortifyTurns
            /\ t.controlledBy = fight.side
    BY DEF RegionState
  <2>3. CASE r = fight.target
    <3>1. regions'[r] = [regions[r] EXCEPT !.controlledBy = fight.side,
                                           !.unitsPresent = fight.array]
      BY <1>1, <2>1, <2>3
    <3> QED
      BY <1>1, <1>6, <2>2, <2>3, <3>1 DEF RegionChange, SameTimer
  <2>4. CASE r # fight.target
    <3>1. regions'[r] = regions[r]
      BY <1>1, <2>1, <2>4
    <3> QED
      BY <3>1 DEF RegionChange, SameTimer, SameHolder
  <2> QED
    BY <2>3, <2>4
<1>7. CASE Occupy
  <2>1. regions' = regions \/ regions' = MoveLists(Head(roster), fight.target)
    BY <1>7 DEF Occupy, MoveUnit
  <2>2. Head(roster) \in Unit /\ fight.target \in AnyRegion
    BY <1>1, <1>7, TailMembers DEF Occupy, FightState
  <2> QED
    BY <1>1, <1>2, <2>1, <2>2, MoveKeeps DEF RegionChange
<1>8. CASE TickTimers
  <2>1. regions'[r] = TickFortification(regions[r])
    BY <1>8 DEF TickTimers
  <2>2. \A s \in RegionState : TickFortification(s).controlledBy = s.controlledBy
    BY DEF TickFortification, RegionState
  <2> QED
    BY <1>1, <1>8, <2>1, <2>2 DEF RegionChange, SameHolder
<1>9. \/ UNCHANGED regions \/ FortifyOrDeploy \/ AdvanceUnit \/ DamageDefender \/ Conquer
      \/ Occupy \/ TickTimers
  BY DEF ProcessTurn, BeginTurn, RouteOrder, RoutesDone, PathOrder, Reconcile, FortifyDone,
         MaiaAbility, MaiaDone, AdvanceDone, Fight, Repel, FightDone, Detect, FinishTurn, board
<1> QED
  BY <1>2, <1>3, <1>4, <1>5, <1>6, <1>7, <1>8, <1>9

\* Only step 6 sets a cooldown and only step 11 runs it down.
CooldownChange(u) ==
  \/ units'[u].cooldown = units[u].cooldown
  \/ MaiaAbility /\ units'[u].cooldown = Config[u].cooldown
  \/ TickTimers /\ units'[u] = TickUnit(units[u], Config[u])

LEMMA CooldownSteps ==
  ASSUME TypeInv, ProcessTurn, NEW u \in Unit
  PROVE  CooldownChange(u)
<1>1. /\ units \in [Unit -> UnitState] /\ units[u] \in UnitState /\ TypeOK
      /\ roster \in Seq(Unit) /\ fight \in FightState
  BY DEF TypeInv, TypeOK
<1>2. CASE UNCHANGED units
  BY <1>2 DEF CooldownChange
<1>4. ASSUME NEW v \in Unit, NEW d \in Int
      PROVE  [units EXCEPT ![v] = ApplyDamage(units[v], Config[v], d)][u].cooldown
               = units[u].cooldown
  <2>1. \A s \in UnitState, cfg \in UnitConfig :
          ApplyDamage(s, cfg, d).cooldown = s.cooldown
    BY DEF ApplyDamage, UnitState
  <2> QED
    BY <1>1, <2>1, UnitsAssumption
<1>5. CASE RouteOrder
  <2> DEFINE o == Head(todo)
             routed == [units EXCEPT ![o.unit].route = o.route, ![o.unit].routeIdx = 0]
  <2>1. units' = units \/ units' = routed
    BY <1>5 DEF RouteOrder
  <2>2. routed[u].cooldown = units[u].cooldown
    BY <1>1 DEF UnitState
  <2> HIDE DEF routed
  <2> QED
    BY <2>1, <2>2 DEF CooldownChange
<1>6. CASE MaiaAbility
  <2> DEFINE o == Head(todo)
             used == [units EXCEPT ![o.unit].cooldown = Config[o.unit].cooldown]
  <2>1. units' = units \/ units' = used
    BY <1>6 DEF MaiaAbility
  <2>2. \/ used[u].cooldown = units[u].cooldown
        \/ used[u].cooldown = Config[u].cooldown
    BY <1>1 DEF UnitState
  <2> HIDE DEF used
  <2> QED
    BY <1>6, <2>1, <2>2 DEF CooldownChange
<1>7. CASE FortifyOrDeploy
  <2> DEFINE moved == [units EXCEPT ![Head(todo).unit].region = Head(todo).region]
  <2>1. units' = units \/ units' = moved
    BY <1>7 DEF FortifyOrDeploy, MoveUnit
  <2>2. moved[u].cooldown = units[u].cooldown
    BY <1>1 DEF UnitState
  <2> HIDE DEF moved
  <2> QED
    BY <2>1, <2>2 DEF CooldownChange
<1>8. CASE AdvanceUnit
  <2> DEFINE v == Head(roster)
             route == IF v = Bearer THEN rb.route ELSE units[v].route
             idx == IF v = Bearer THEN rb.routeIdx ELSE units[v].routeIdx
             here == IF v = Bearer THEN rb.trueRegion ELSE units[v].region
             dest == FarEnd(route[idx + 1], here)
  <2> HIDE DEF idx, dest
  <2> DEFINE counted == [units EXCEPT ![v].routeIdx = idx + 1]
             moved == [units EXCEPT ![v].region = dest, ![v].routeIdx = idx + 1]
  <2>1. units' = units \/ units' = counted \/ units' = moved
    BY <1>8 DEF AdvanceUnit, idx, dest
  <2>2. counted[u].cooldown = units[u].cooldown /\ moved[u].cooldown = units[u].cooldown
    BY <1>1 DEF UnitState
  <2> HIDE DEF counted, moved
  <2> QED
    BY <2>1, <2>2 DEF CooldownChange
<1>9. CASE DamageDefender
  <2>1. units' = [units EXCEPT ![Head(roster)] =
                    ApplyDamage(units[Head(roster)], Config[Head(roster)], fight.damage)]
    BY <1>9 DEF DamageDefender
  <2>2. Head(roster) \in Unit /\ fight.damage \in Int
    BY <1>1, <1>9, TailMembers DEF DamageDefender, FightState
  <2> QED
    BY <1>4, <2>1, <2>2 DEF CooldownChange
<1>10. CASE Occupy
  <2> DEFINE moved == [units EXCEPT ![Head(roster)].region = fight.target]
  <2>1. units' = units \/ units' = moved
    BY <1>10 DEF Occupy, MoveUnit
  <2>2. moved[u].cooldown = units[u].cooldown
    BY <1>1 DEF UnitState
  <2> HIDE DEF moved
  <2> QED
    BY <2>1, <2>2 DEF CooldownChange
<1>11. CASE Repel
  <2>1. \/ units' = units
        \/ units' = [units EXCEPT ![Head(roster)] =
                       ApplyDamage(units[Head(roster)], Config[Head(roster)], 1)]
    BY <1>11 DEF Repel
  <2>2. Head(roster) \in Unit /\ 1 \in Int
    BY <1>1, <1>11, TailMembers DEF Repel
  <2> QED
    BY <1>4, <2>1, <2>2 DEF CooldownChange
<1>12. CASE TickTimers
  BY <1>12 DEF TickTimers, CooldownChange
<1>13. \/ UNCHANGED units \/ RouteOrder \/ MaiaAbility \/ FortifyOrDeploy \/ AdvanceUnit
       \/ DamageDefender \/ Occupy \/ Repel \/ TickTimers
  BY DEF ProcessTurn, BeginTurn, RoutesDone, PathOrder, Reconcile, FortifyDone, MaiaDone,
         AdvanceDone, Fight, Conquer, FightDone, Detect, FinishTurn, board
<1> QED
  BY <1>2, <1>5, <1>6, <1>7, <1>8, <1>9, <1>10, <1>11, <1>12, <1>13

\* Only step 6 opens a path for a time and only step 9 runs the time down.
OpeningChange(p) ==
  \/ paths'[p].tempOpenTurns = paths[p].tempOpenTurns
  \/ MaiaAbility
  \/ TickTimers /\ \E present \in BOOLEAN : paths'[p] = TickTempOpen(paths[p], present)

LEMMA OpeningSteps ==
  ASSUME TypeInv, ProcessTurn, NEW p \in Path
  PROVE  OpeningChange(p)
<1>1. paths \in [Path -> PathState] /\ paths[p] \in PathState
  BY DEF TypeInv, TypeOK
<1>2. CASE UNCHANGED paths \/ MaiaAbility
  BY <1>2 DEF OpeningChange
<1>3. CASE PathOrder
  <2> DEFINE o == Head(todo)
  <2>1. \/ UNCHANGED paths
        \/ paths' = [paths EXCEPT ![o.path] = BlockPath(@, o.unit)]
        \/ paths' = [paths EXCEPT ![o.path] = SearchPath(@)]
    BY <1>3 DEF PathOrder
  <2>2. \A s \in PathState : /\ BlockPath(s, o.unit).tempOpenTurns = s.tempOpenTurns
                            /\ SearchPath(s).tempOpenTurns = s.tempOpenTurns
    BY DEF BlockPath, SearchPath, PathState
  <2> HIDE DEF o
  <2> QED
    BY <1>1, <2>1, <2>2 DEF OpeningChange
<1>4. CASE Reconcile
  <2>1. paths'[p] = ReconcileBlock(paths[p], HeldBy(p, paths[p].blockedBy))
    BY <1>4 DEF Reconcile
  <2>2. \A b : \A s \in PathState :
            ReconcileBlock(s, b).tempOpenTurns = s.tempOpenTurns
    BY DEF ReconcileBlock, PathState
  <2> QED
    BY <1>1, <2>1, <2>2 DEF OpeningChange
<1>5. CASE TickTimers
  <2> DEFINE present == paths[p].blockedBy # NoUnit /\ AtEndpoint(paths[p].blockedBy, p)
  <2>1. present \in BOOLEAN
    BY DEF AtEndpoint
  <2>2. paths'[p] = TickTempOpen(paths[p], present)
    BY <1>5 DEF TickTimers
  <2> QED
    BY <1>5, <2>1, <2>2 DEF OpeningChange
<1>6. UNCHANGED paths \/ PathOrder \/ Reconcile \/ MaiaAbility \/ TickTimers
  BY DEF ProcessTurn, BeginTurn, RouteOrder, RoutesDone, FortifyOrDeploy, FortifyDone,
         MaiaDone, AdvanceUnit, AdvanceDone, Fight, DamageDefender, Conquer, Occupy,
         Repel, FightDone, Detect, FinishTurn, board
<1> QED
  BY <1>2, <1>3, <1>4, <1>5, <1>6

-----------------------------------------------------------------------------
(* TimersTicked, with the steps between the ticking and the next turn *)

Ticked == {"detect", "win"}

TimerInv ==
  /\ step \in Early \cup Ticked => \A p \in Path : paths[p].tempOpenTurns <= 1
  /\ step \in (Early \ {"fortify"}) \cup Ticked =>
       \A r \in AnyRegion : regions[r].fortifyTurns <= 1
  /\ step \in Early \cup Ticked => \A u \in Unit :
       units[u].cooldown = 0 \/ units[u].cooldown < Config[u].cooldown
  /\ \A u \in Unit : units[u].cooldown <= Config[u].cooldown
  /\ \A r \in AnyRegion : regions[r].fortified <=> regions[r].fortifyTurns > 0

\* What ticking makes of a timer that is in its range.
LEMMA TickBounds ==
  /\ \A s \in UnitState, cfg \in UnitConfig : s.cooldown <= cfg.cooldown =>
       /\ TickUnit(s, cfg).cooldown <= cfg.cooldown
       /\ TickUnit(s, cfg).cooldown = 0 \/ TickUnit(s, cfg).cooldown < cfg.cooldown
  /\ \A p \in PathState : Fit(p) =>
       \A present \in BOOLEAN : TickTempOpen(p, present).tempOpenTurns <= 1
  /\ \A r \in RegionState : (r.fortified <=> r.fortifyTurns > 0) =>
       LET t == TickFortification(r) IN
         t.fortifyTurns <= 1 /\ (t.fortified <=> t.fortifyTurns > 0)
<1>1. ASSUME NEW s \in UnitState, NEW cfg \in UnitConfig, s.cooldown <= cfg.cooldown
      PROVE  /\ TickUnit(s, cfg).cooldown <= cfg.cooldown
             /\ TickUnit(s, cfg).cooldown = 0 \/ TickUnit(s, cfg).cooldown < cfg.cooldown
  <2>1. s.cooldown \in Nat /\ cfg.cooldown \in Nat
    BY DEF UnitState, UnitConfig
  <2>2. TickUnit(s, cfg).cooldown = IF s.cooldown > 0 THEN s.cooldown - 1 ELSE 0
    BY DEF TickUnit, UnitState
  <2> QED
    BY <1>1, <2>1, <2>2
<1>2. ASSUME NEW p \in PathState, Fit(p), NEW present \in BOOLEAN
      PROVE  TickTempOpen(p, present).tempOpenTurns <= 1
  BY <1>2 DEF TickTempOpen, PathState, Fit
<1>3. ASSUME NEW r \in RegionState, r.fortified <=> r.fortifyTurns > 0
      PROVE  LET t == TickFortification(r) IN
               t.fortifyTurns <= 1 /\ (t.fortified <=> t.fortifyTurns > 0)
  <2>1. r.fortifyTurns \in 0..2
    BY DEF RegionState
  <2>2. CASE r.fortifyTurns = 0
    BY <1>3, <2>2 DEF TickFortification
  <2>3. CASE r.fortifyTurns \in 1..2
    <3> DEFINE rest == r.fortifyTurns - 1
               more == r.fortifyTurns > 1
               t == [r EXCEPT !.fortifyTurns = rest, !.fortified = more]
    <3>1. TickFortification(r) = t
      BY <1>3, <2>3 DEF TickFortification
    <3>2. rest <= 1 /\ (more <=> rest > 0)
      BY <2>3
    <3> HIDE DEF rest, more
    <3>3. t.fortifyTurns = rest /\ t.fortified = more
      BY DEF RegionState
    <3> QED
      BY <3>1, <3>2, <3>3
  <2> QED
    BY <2>1, <2>2, <2>3
<1> QED
  BY <1>1, <1>2, <1>3

\* A turn runs its steps in order: it is early until step 6 begins, and only
\* ticking leads to the steps before its end.
LEMMA StepsInOrder ==
  ASSUME ProcessTurn
  PROVE  /\ step' \in Early \cup Ticked => step \in Early \cup Ticked \/ TickTimers
         /\ step' \in (Early \ {"fortify"}) \cup Ticked =>
              step \in (Early \ {"fortify"}) \cup Ticked \/ TickTimers
         /\ MaiaAbility => step' \notin Early \cup Ticked
         /\ FortifyOrDeploy => step' \notin (Early \ {"fortify"}) \cup Ticked
         /\ TickTimers => step' \in Ticked
BY DEF ProcessTurn, BeginTurn, RouteOrder, RoutesDone, PathOrder, Reconcile,
       FortifyOrDeploy, FortifyDone, MaiaAbility, MaiaDone, AdvanceUnit, AdvanceDone,
       Fight, DamageDefender, Conquer, Occupy, Repel, FightDone, TickTimers, Detect,
       FinishTurn, Enter, Early, Ticked

\* A step of a turn preserves TimerInv.
LEMMA TurnKeepsTimers ==
  ASSUME TypeInv, PathCoherent, TimerInv, ProcessTurn
  PROVE  TimerInv'
<1>1. /\ \A p \in Path : paths[p] \in PathState /\ Fit(paths[p])
      /\ \A r \in AnyRegion : regions[r] \in RegionState
      /\ \A u \in Unit : units[u] \in UnitState /\ Config[u] \in UnitConfig
  BY UnitsAssumption DEF TypeInv, TypeOK, PathCoherent, Fit
<1>2. ASSUME step' \in Early \cup Ticked, NEW p \in Path
      PROVE  paths'[p].tempOpenTurns <= 1
  <2>1. OpeningChange(p) /\ ~MaiaAbility
    BY <1>2, OpeningSteps, StepsInOrder
  <2>2. CASE TickTimers /\ \E present \in BOOLEAN : paths'[p] = TickTempOpen(paths[p], present)
    BY <1>1, <2>2, TickBounds
  <2>3. CASE step \in Early \cup Ticked /\ paths'[p].tempOpenTurns = paths[p].tempOpenTurns
    BY <2>3 DEF TimerInv
  <2>4. CASE TickTimers
    <3> DEFINE present == paths[p].blockedBy # NoUnit /\ AtEndpoint(paths[p].blockedBy, p)
    <3>1. present \in BOOLEAN
      BY DEF AtEndpoint
    <3>2. paths'[p] = TickTempOpen(paths[p], present)
      BY <2>4 DEF TickTimers
    <3> QED
      BY <2>2, <2>4, <3>1, <3>2
  <2> QED
    BY <1>2, <2>1, <2>3, <2>4, StepsInOrder DEF OpeningChange
<1>3. ASSUME NEW r \in AnyRegion
      PROVE  /\ step' \in (Early \ {"fortify"}) \cup Ticked => regions'[r].fortifyTurns <= 1
             /\ regions'[r].fortified <=> regions'[r].fortifyTurns > 0
  <2>1. RegionChange(r)
    BY RegionSteps
  <2>2. CASE TickTimers
    <3>1. regions'[r] = TickFortification(regions[r])
      BY <2>2 DEF TickTimers
    <3> QED
      BY <1>1, <3>1, TickBounds DEF TimerInv
  <2>3. CASE ~TickTimers /\ SameTimer(regions[r], regions'[r])
    <3>1. /\ regions'[r].fortifyTurns = regions[r].fortifyTurns
          /\ regions'[r].fortified = regions[r].fortified
      BY <2>3 DEF SameTimer
    <3>2. step' \in (Early \ {"fortify"}) \cup Ticked =>
            step \in (Early \ {"fortify"}) \cup Ticked
      BY <2>3, StepsInOrder
    <3> QED
      BY <3>1, <3>2 DEF TimerInv
  <2>4. CASE FortifyOrDeploy /\ regions'[r].fortified = TRUE /\ regions'[r].fortifyTurns = 2
    BY <2>4, StepsInOrder
  <2> QED
    BY <2>1, <2>2, <2>3, <2>4 DEF RegionChange
<1>4. ASSUME NEW u \in Unit
      PROVE  /\ step' \in Early \cup Ticked =>
                  units'[u].cooldown = 0 \/ units'[u].cooldown < Config[u].cooldown
             /\ units'[u].cooldown <= Config[u].cooldown
  <2>1. CooldownChange(u)
    BY CooldownSteps
  <2>2. CASE TickTimers
    <3>1. units'[u] = TickUnit(units[u], Config[u])
      BY <2>2 DEF TickTimers
    <3> QED
      BY <1>1, <3>1, TickBounds DEF TimerInv
  <2>3. CASE ~TickTimers /\ units'[u].cooldown = units[u].cooldown
    <3>1. step' \in Early \cup Ticked => step \in Early \cup Ticked
      BY <2>3, StepsInOrder
    <3> QED
      BY <2>3, <3>1 DEF TimerInv
  <2>4. CASE MaiaAbility /\ units'[u].cooldown = Config[u].cooldown
    <3>1. Config[u].cooldown \in Nat
      BY <1>1 DEF UnitConfig
    <3>2. Config[u].cooldown <= Config[u].cooldown
      BY <3>1
    <3> QED
      BY <2>4, <3>2, StepsInOrder
  <2> QED
    BY <2>1, <2>2, <2>3, <2>4 DEF CooldownChange
<1> QED
  BY <1>2, <1>3, <1>4 DEF TimerInv

\* A seeded game has no timer running.
LEMMA SeedTimers ==
  ASSUME units = SeedUnits, regions = SeedRegions, paths = [p \in Path |-> NewPath]
  PROVE  TimerInv
<1>1. \A u \in Unit : units[u].cooldown = 0 /\ Config[u].cooldown \in Nat
  BY UnitsAssumption DEF SeedUnits, NewUnit, UnitConfig
<1>2. \A u \in Unit : units[u].cooldown <= Config[u].cooldown
  BY <1>1
<1>3. \A r \in AnyRegion : regions[r].fortified = FALSE /\ regions[r].fortifyTurns = 0
  BY DEF SeedRegions
<1>4. \A p \in Path : paths[p].tempOpenTurns = 0
  BY DEF NewPath
<1> QED
  BY <1>1, <1>2, <1>3, <1>4 DEF TimerInv

\* TimerInv is inductive, given the coherence of paths.
LEMMA StepTimers ==
  TypeInv /\ PathCoherent /\ TimerInv /\ [Next]_vars => TimerInv'
<1> SUFFICES ASSUME TypeInv, PathCoherent, TimerInv, [Next]_vars PROVE TimerInv'
  OBVIOUS
<1>1. CASE UNCHANGED <<units, regions, paths, step>>
  BY <1>1 DEF TimerInv
<1>2. CASE Reset
  <2>1. units' = SeedUnits /\ regions' = SeedRegions /\ paths' = [p \in Path |-> NewPath]
    BY <1>2 DEF Reset
  <2>2. \A u \in Unit : units'[u].cooldown = 0 /\ Config[u].cooldown \in Nat
    BY <2>1, UnitsAssumption DEF SeedUnits, NewUnit, UnitConfig
  <2>3. \A u \in Unit : units'[u].cooldown <= Config[u].cooldown
    BY <2>2
  <2>4. \A r \in AnyRegion : regions'[r].fortified = FALSE /\ regions'[r].fortifyTurns = 0
    BY <2>1 DEF SeedRegions
  <2>5. \A p \in Path : paths'[p].tempOpenTurns = 0
    BY <2>1 DEF NewPath
  <2> QED
    BY <2>2, <2>3, <2>4, <2>5 DEF TimerInv
<1>3. CASE ProcessTurn
  BY <1>3, TurnKeepsTimers
<1> QED
  BY <1>1, <1>2, <1>3 DEF Next, Submit, vars, board, control

\* In every game every timer has been ticked once when the next orders come in: a
\* path opened by Gandalf and a fortification last this turn and the next, an
\* ability's cooldown is already one shorter, and a region counts as fortified
\* exactly while its timer runs (steps 4, 6 and 9 to 11 of a turn).
THEOREM TimersAreTicked == Spec => []TimersTicked
<1>1. Init => TypeInv /\ PathCoherent /\ TimerInv
  <2>1. Init => PathCoherent
    <3>1. Init => paths = [p \in Path |-> NewPath] /\ Fit(NewPath)
      BY DEF Init, Fit, NewPath, Open, TempOpen
    <3> QED
      BY <3>1 DEF PathCoherent, Fit
  <2> QED
    BY <2>1, InitTypes, SeedTimers DEF Init
<1>2. TypeInv /\ PathCoherent /\ TimerInv /\ [Next]_vars
        => TypeInv' /\ PathCoherent' /\ TimerInv'
  BY StepTypes, StepPaths, StepTimers
<1>3. TimerInv => TimersTicked
  BY DEF TimerInv, TimersTicked
<1> QED
  BY <1>1, <1>2, <1>3, PTL DEF Spec

-----------------------------------------------------------------------------
(* The targets of attacks *)

\* An attack order has passed the rule about its target's holder.
LEMMA ValidAttackOrder ==
  ASSUME NEW q \in Order, q.type = "ATTACK_REGION",
         Validate(q, turn, seen, units, paths, regions) = "OK"
  PROVE  regions[q.region].controlledBy # Config[q.unit].side
<1>1. ValidateTarget(q, units, paths, regions) = "OK"
  BY DEF Validate
<1>2. ValidateTarget(q, units, paths, regions) =
        IF NotNext(q, units) \/ OwnTarget(q, regions) THEN "INVALID_TARGET" ELSE "OK"
  BY DEF ValidateTarget, RouteOrders, PathOrders
<1> QED
  BY <1>1, <1>2 DEF OwnTarget

BeforeFights == {"idle", "routes", "block", "fortify", "maia", "advance"}

\* Only Conquer gives a region to a side, and only the one whose fight is over.
HostileInv ==
  TargetsHostile /\ (step = "damage" => fight.target \notin targets)

\* Where an order's target is still to be hostile it was before the step, too.
LEMMA StillHostile ==
  ASSUME TypeInv, ProcessTurn
  PROVE  /\ pending' = pending \/ DOMAIN pending' = {}
         /\ step' \in BeforeFights => step \in BeforeFights \/ DOMAIN pending' = {}
         /\ targets' \subseteq targets \/ step \in BeforeFights
         /\ Conquer => step = "damage" /\ step' \notin BeforeFights /\ targets' = targets
<1>1. pending' = <<>> => DOMAIN pending' = {}
  BY DEF ProcessTurn
<1>2. CASE FinishTurn
  BY <1>1, <1>2 DEF FinishTurn, Conquer, BeforeFights
<1>3. CASE ~FinishTurn
  BY <1>3 DEF ProcessTurn, BeginTurn, RouteOrder, RoutesDone, PathOrder, Reconcile,
       FortifyOrDeploy, FortifyDone, MaiaAbility, MaiaDone, AdvanceUnit, AdvanceDone,
       Fight, DamageDefender, Conquer, Occupy, Repel, FightDone, TickTimers, Detect,
       Enter, BeforeFights, queue
<1> QED
  BY <1>2, <1>3

\* While damage is dealt the target of the fight is no longer among those left.
LEMMA FightIsTaken ==
  ASSUME TypeInv, ProcessTurn, step = "damage" => fight.target \notin targets, step' = "damage"
  PROVE  fight'.target \notin targets'
<1>1. CASE Fight
  <2>1. PICK t \in targets : targets' = targets \ {t} /\ fight'.target = t
    BY <1>1, FightSummary
  <2> QED
    BY <2>1
<1>2. CASE DamageDefender
  <2> DEFINE left == [fight EXCEPT !.damage = @ - units[Head(roster)].strength]
             kept == Without(regions[units[Head(roster)].region].unitsPresent, Head(roster))
             shifted == [left EXCEPT !.array = Shifted(@, kept)]
  <2>1. fight' = left \/ fight' = shifted
    BY <1>2 DEF DamageDefender
  <2>2. left.target = fight.target /\ shifted.target = fight.target
    BY DEF TypeInv, TypeOK, FightState
  <2> HIDE DEF left, shifted
  <2>3. fight'.target = fight.target
    BY <2>1, <2>2
  <2> QED
    BY <1>2, <2>3 DEF DamageDefender
<1>3. Fight \/ DamageDefender
  BY DEF ProcessTurn, BeginTurn, RouteOrder, RoutesDone, PathOrder, Reconcile,
       FortifyOrDeploy, FortifyDone, MaiaAbility, MaiaDone, AdvanceUnit, AdvanceDone,
       Conquer, Occupy, Repel, FightDone, TickTimers, Detect, FinishTurn, Enter
<1> QED
  BY <1>1, <1>2, <1>3

\* HostileInv is inductive.
LEMMA StepHostile == TypeInv /\ HostileInv /\ [Next]_vars => HostileInv'
<1> SUFFICES ASSUME TypeInv, HostileInv, [Next]_vars PROVE HostileInv'
  OBVIOUS
<1>1. CASE UNCHANGED <<pending, step, targets, regions, fight>>
  BY <1>1 DEF HostileInv, TargetsHostile
<1>2. ASSUME NEW o \in Orders, NEW t \in 1..MaxTurns, Submit([o EXCEPT !.turn = t])
      PROVE  HostileInv'
  <2> DEFINE q == [o EXCEPT !.turn = t]
  <2>1. q \in Order
    BY OrdersAssumption, TurnsAssumption DEF Order
  <2>2. /\ Validate(q, turn, seen, units, paths, regions) = "OK"
        /\ pending' = Append(pending, q)
        /\ step = "idle" /\ UNCHANGED <<regions, step, targets, fight>>
    BY <1>2 DEF Submit, board, control
  <2> HIDE DEF q
  <2>3. \A k \in DOMAIN pending' :
          pending'[k] = q \/ (k \in DOMAIN pending /\ pending'[k] = pending[k])
    <3>1. pending \in Seq(Order)
      BY DEF TypeInv, TypeOK
    <3> QED
      BY <2>1, <2>2, <3>1
  <2>4. q.type = "ATTACK_REGION" => regions[q.region].controlledBy # Config[q.unit].side
    BY <2>1, <2>2, ValidAttackOrder
  <2> QED
    BY <2>2, <2>3, <2>4 DEF HostileInv, TargetsHostile
<1>3. CASE Reset
  <2>1. DOMAIN pending' = {} /\ step' = "idle"
    BY <1>3 DEF Reset, control
  <2> QED
    BY <2>1 DEF HostileInv, TargetsHostile
<1>4. CASE ProcessTurn
  <2>1. step' = "damage" => fight'.target \notin targets'
    BY <1>4, FightIsTaken DEF HostileInv
  <2>2. ASSUME NEW k \in DOMAIN pending', pending'[k].type = "ATTACK_REGION",
               step' \in BeforeFights \/ pending'[k].region \in targets'
        PROVE  regions'[pending'[k].region].controlledBy # Config[pending'[k].unit].side
    <3>1. pending' = pending /\ k \in DOMAIN pending
      BY <1>4, StillHostile
    <3> DEFINE r == pending[k].region
    <3>2. step \in BeforeFights \/ r \in targets
      BY <1>4, <2>2, <3>1, StillHostile
    <3>3. regions[r].controlledBy # Config[pending[k].unit].side
      BY <2>2, <3>1, <3>2 DEF HostileInv, TargetsHostile, BeforeFights
    <3>4. r \in Region /\ r \in AnyRegion /\ r # ""
      BY <2>2, <3>1, MapAssumption DEF TypeInv, TypeOK, Accepted, AnyRegion
    <3> HIDE DEF r
    <3>5. ~(Conquer /\ r = fight.target)
      BY <1>4, <2>2, <3>1, StillHostile DEF HostileInv, r
    <3>6. SameHolder(regions[r], regions'[r])
      BY <1>4, <3>4, <3>5, RegionSteps DEF RegionChange
    <3> QED
      BY <3>1, <3>3, <3>6 DEF SameHolder, r
  <2> QED
    BY <2>1, <2>2 DEF HostileInv, TargetsHostile, BeforeFights
<1> QED
  BY <1>1, <1>2, <1>3, <1>4 DEF Next, vars, board, queue, control

\* In every game, until the fight for a target is decided no attacker's own side
\* controls it: no other fight of the turn, in whatever order the map of targets
\* yields them, and no fortification of a stray region gives it away first.
THEOREM TargetsStayHostile == Spec => []TargetsHostile
<1>1. Init => TypeInv /\ HostileInv
  <2>1. Init => DOMAIN pending = {} /\ step = "idle"
    BY DEF Init
  <2> QED
    BY <2>1, InitTypes DEF HostileInv, TargetsHostile
<1>2. TypeInv /\ HostileInv /\ [Next]_vars => TypeInv' /\ HostileInv'
  BY StepTypes, StepHostile
<1>3. HostileInv => TargetsHostile
  BY DEF HostileInv
<1> QED
  BY <1>1, <1>2, <1>3, PTL DEF Spec
=============================================================================
