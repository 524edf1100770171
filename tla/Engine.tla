------------------------------- MODULE Engine -------------------------------
(***************************************************************************)
(* engine.Engine: the authoritative state of one game and its 13-step turn *)
(* (internal/engine/engine.go).                                            *)
(*                                                                         *)
(* The mutex mu is held from the first to the last step of ProcessTurn, so *)
(* Submit and Reset happen only when step = "idle".  Inside the turn every *)
(* iteration of a loop over orders, units or attack targets is an action;  *)
(* step names the loop that is running, todo the orders and roster the     *)
(* units it has not reached yet.  The one choice a turn makes by itself is *)
(* the order in which Go's map iteration yields the attack targets.        *)
(***************************************************************************)
EXTENDS GameRules

CONSTANT Orders   \* the orders players may submit, whatever their turn field

ASSUME OrdersAssumption == \A o \in Orders : o \in Order /\ o.region \in AnyRegion

VARIABLES
  turn,             \* state.Turn
  units,            \* state.Units
  paths,            \* state.Paths
  regions,          \* state.Regions
  rb,               \* state.RB
  strayPaths,       \* keys of state.Paths that are no path of the map
  sarumanDisabled,  \* state.SarumanDisabled
  outcome,          \* state.Over, state.Winner and state.Cause
  pending,          \* Engine.pending: this turn's accepted orders
  seen,             \* Engine.seen: the units that already have one
  step, todo, roster,  \* control of ProcessTurn
  destroyRing,      \* destroyRingSubmitted
  targets,          \* resolveCombat's targets not resolved yet
  fight,            \* resolveCombat's locals for the target at hand
  out,              \* the events the last step produced on the bus
  announced         \* GameOver events produced since the game was seeded (history)

board == <<units, paths, regions, rb, strayPaths, sarumanDisabled>>
queue == <<pending, seen>>
control == <<step, todo, roster, destroyRing, targets, fight>>
vars == <<turn, board, outcome, queue, control, out, announced>>

Steps == {"idle", "routes", "block", "fortify", "maia", "advance", "combat",
          "damage", "occupy", "repel", "detect", "win"}

\* No fight is being resolved.
NoFight == [target |-> "", side |-> "", attackers |-> <<>>, damage |-> 0, array |-> <<>>]

Event(topic, type, region) == [topic |-> topic, type |-> type, region |-> region]
Undecided == [over |-> FALSE, winner |-> "", cause |-> ""]

-----------------------------------------------------------------------------
(* Seeding *)

SeedUnits ==
  [u \in Unit |-> NewUnit(IF u = Bearer THEN "" ELSE Config[u].start, Config[u].strength)]

SeedRegions ==
  [r \in AnyRegion |->
    [controlledBy |-> IF r \in Region THEN StartControl[r] ELSE "",
     fortified |-> FALSE, fortifyTurns |-> 0,
     unitsPresent |-> Pick(UnitOrder, {k \in DOMAIN UnitOrder :
                        UnitOrder[k] # Bearer /\ Config[UnitOrder[k]].start = r})]]

SeedRB == [trueRegion |-> Config[Bearer].start, exposed |-> FALSE, route |-> <<>>,
           routeIdx |-> 0, lastDetectedTurn |-> 0, lastDetectedRegion |-> ""]

Init ==
  /\ turn = 1
  /\ units = SeedUnits
  /\ paths = [p \in Path |-> NewPath]
  /\ regions = SeedRegions
  /\ rb = SeedRB
  /\ strayPaths = {} /\ sarumanDisabled = FALSE
  /\ outcome = Undecided
  /\ pending = <<>> /\ seen = {}
  /\ step = "idle" /\ todo = <<>> /\ roster = <<>>
  /\ destroyRing = FALSE /\ targets = {} /\ fight = NoFight
  /\ out = <<>> /\ announced = 0

-----------------------------------------------------------------------------
(* Helpers over the current state *)

\* unitAtEndpoint
AtEndpoint(u, p) == p \in Path /\ units[u].region \in Ends(p)

\* enemyGuardAtEndpoints: what counts is the list of the region, not Region of the unit.
EnemyGuardAtEndpoints(p, side) ==
  \E r \in Ends(p) : \E u \in Range(regions[r].unitsPresent) :
    Config[u].side # side /\ u # Bearer /\ units[u].status = Active

\* Mutant: the unit joins the new list before it leaves the old one.
MoveLists_JoinFirst(u, dest) ==
  LET here == units[u].region
      joined == [regions EXCEPT ![dest].unitsPresent = WithOnce(@, u)]
  IN IF here = "" THEN joined
     ELSE [joined EXCEPT ![here].unitsPresent = Without(@, u)]

\* Mutant: the unit is not taken off the list it leaves.
MoveLists_StaysListed(u, dest) == [regions EXCEPT ![dest].unitsPresent = WithOnce(@, u)]

\* The region lists after moveUnit(u, dest).
MoveLists(u, dest) ==
  LET here == units[u].region
      left == IF here = "" THEN regions
              ELSE [regions EXCEPT ![here].unitsPresent = Without(@, u)]
  IN [left EXCEPT ![dest].unitsPresent = WithOnce(@, u)]

MoveUnit(u, dest) ==
  /\ units' = [units EXCEPT ![u].region = dest]
  /\ regions' = MoveLists(u, dest)

PendingOf(types) == Pick(pending, {k \in DOMAIN pending : pending[k].type \in types})

Enter(s, types) == step' = s /\ todo' = PendingOf(types)

-----------------------------------------------------------------------------
(* Order intake.  An order Validate rejects changes nothing here. *)

Submit(o) ==
  /\ step = "idle"
  /\ Validate(o, turn, seen, units, paths, regions) = "OK"
  /\ pending' = Append(pending, o)
  /\ seen' = seen \cup {o.unit}
  /\ out' = <<>>
  /\ UNCHANGED <<turn, board, outcome, control, announced>>

\* POST /game/reset
Reset ==
  /\ step = "idle"
  /\ turn' = 1
  /\ units' = SeedUnits
  /\ paths' = [p \in Path |-> NewPath]
  /\ regions' = SeedRegions
  /\ rb' = SeedRB
  /\ strayPaths' = {} /\ sarumanDisabled' = FALSE
  /\ outcome' = Undecided
  /\ pending' = <<>> /\ seen' = {}
  /\ out' = <<>> /\ announced' = 0
  /\ UNCHANGED control

-----------------------------------------------------------------------------
(* ProcessTurn.  After the game is over it changes nothing. *)

BeginTurn ==
  /\ step = "idle" /\ ~outcome.over
  /\ Enter("routes", RouteOrders \cup {"DESTROY_RING"})
  /\ destroyRing' = FALSE
  /\ out' = <<>>
  /\ UNCHANGED <<turn, board, outcome, queue, roster, targets, fight, announced>>

\* Mutant: a redirected bearer goes on at the old index of its new route.
Rerouted_KeepsIndex(route) == [rb EXCEPT !.route = route]

Rerouted(route) == [rb EXCEPT !.route = route, !.routeIdx = 0]

\* Step 2: AssignRoute, RedirectUnit; the bearer's route is kept in its unit entry
\* and, a second time, in RB; DestroyRing is only remembered.
RouteOrder ==
  /\ step = "routes" /\ todo # <<>>
  /\ LET o == Head(todo) IN
       \/ /\ o.type = "DESTROY_RING"
          /\ destroyRing' = TRUE
          /\ UNCHANGED <<units, rb>>
       \/ /\ o.type \in RouteOrders
          /\ units' = [units EXCEPT ![o.unit].route = o.route, ![o.unit].routeIdx = 0]
          /\ rb' = IF o.unit = Bearer THEN Rerouted(o.route) ELSE rb
          /\ UNCHANGED destroyRing
  /\ todo' = Tail(todo)
  /\ out' = <<>>
  /\ UNCHANGED <<turn, paths, regions, strayPaths, sarumanDisabled, outcome, queue, step,
                 roster, targets, fight, announced>>

RoutesDone ==
  /\ step = "routes" /\ todo = <<>>
  /\ Enter("block", PathOrders)
  /\ out' = <<>>
  /\ UNCHANGED <<turn, board, outcome, queue, roster, destroyRing, targets, fight, announced>>

\* Step 3: BlockPath and SearchPath.
PathOrder ==
  /\ step = "block" /\ todo # <<>>
  /\ LET o == Head(todo) IN
       \/ /\ o.type = "BLOCK_PATH"
          /\ EnemyGuardAtEndpoints(o.path, Config[o.unit].side)
          /\ out' = <<Event("game.events.path", "BlockFailed", "")>>
          /\ UNCHANGED paths
       \/ /\ o.type = "BLOCK_PATH"
          /\ ~EnemyGuardAtEndpoints(o.path, Config[o.unit].side)
          /\ paths' = [paths EXCEPT ![o.path] = BlockPath(@, o.unit)]
          /\ out' = <<>>
       \/ /\ o.type = "SEARCH_PATH"
          /\ paths' = [paths EXCEPT ![o.path] = SearchPath(@)]
          /\ out' = <<>>
  /\ todo' = Tail(todo)
  /\ UNCHANGED <<turn, units, regions, rb, strayPaths, sarumanDisabled, outcome, queue,
                 step, roster, destroyRing, targets, fight, announced>>

\* Step 3, end: a BLOCKED path reverts unless its ACTIVE blocker is at an endpoint.
HeldBy(p, u) == u # NoUnit /\ AtEndpoint(u, p) /\ units[u].status = Active

Reconcile ==
  /\ step = "block" /\ todo = <<>>
  /\ paths' = [p \in Path |-> ReconcileBlock(paths[p], HeldBy(p, paths[p].blockedBy))]
  /\ Enter("fortify", {"FORTIFY_REGION", "DEPLOY_NAZGUL"})
  /\ out' = <<>>
  /\ UNCHANGED <<turn, units, regions, rb, strayPaths, sarumanDisabled, outcome, queue,
                 roster, destroyRing, targets, fight, announced>>

\* Steps 4 and 5.  The fortified region is stored under its own ID, which is
\* empty for a region that is not on the map.
FortifyOrDeploy ==
  /\ step = "fortify" /\ todo # <<>>
  /\ LET o == Head(todo)
         here == units[o.unit].region
         id == IF here \in Region THEN here ELSE "" IN
       \/ /\ o.type = "FORTIFY_REGION" /\ Config[o.unit].canFortify
          /\ regions' = [regions EXCEPT
               ![id] = [regions[here] EXCEPT !.fortified = TRUE, !.fortifyTurns = 2]]
          /\ UNCHANGED units
       \/ /\ o.type = "DEPLOY_NAZGUL" /\ IsNazgul(o.unit) /\ units[o.unit].status = Active
          /\ MoveUnit(o.unit, o.region)
       \/ /\ ~(o.type = "FORTIFY_REGION" /\ Config[o.unit].canFortify)
          /\ ~(o.type = "DEPLOY_NAZGUL" /\ IsNazgul(o.unit) /\ units[o.unit].status = Active)
          /\ UNCHANGED <<units, regions>>
  /\ todo' = Tail(todo)
  /\ out' = <<>>
  /\ UNCHANGED <<turn, paths, rb, strayPaths, sarumanDisabled, outcome, queue, step, roster,
                 destroyRing, targets, fight, announced>>

FortifyDone ==
  /\ step = "fortify" /\ todo = <<>>
  /\ Enter("maia", {"MAIA_ABILITY"})
  /\ out' = <<>>
  /\ UNCHANGED <<turn, board, outcome, queue, roster, destroyRing, targets, fight, announced>>

\* Step 6: one order type; the config of the unit decides between OpenPath and
\* CorruptPath.
AbilityReady(o) == Config[o.unit].maia /\ units[o.unit].cooldown = 0

CanUseAbility(o) == AbilityReady(o) /\ AtEndpoint(o.unit, o.path)

Opens(o) == CanUseAbility(o) /\ Config[o.unit].abilityPaths = {}

\* Mutant: the fall of Isengard disables nothing.
Corrupts_EvenDisabled(o) == CanUseAbility(o) /\ o.path \in Config[o.unit].abilityPaths

Corrupts(o) ==
  CanUseAbility(o) /\ o.path \in Config[o.unit].abilityPaths /\ ~sarumanDisabled

\* A ready ability stores the path it has read whatever the order names: an id
\* that is no path becomes a key of state.Paths, with a zero PathState for ever.
MaiaAbility ==
  /\ step = "maia" /\ todo # <<>>
  /\ LET o == Head(todo)
         used == [units EXCEPT ![o.unit].cooldown = Config[o.unit].cooldown] IN
       /\ strayPaths' = strayPaths \cup (IF AbilityReady(o) THEN {o.path} \ Path ELSE {})
       /\ \/ /\ Opens(o)
             /\ paths' = [paths EXCEPT ![o.path] = OpenPathGandalf(@)]
             /\ units' = used
             /\ out' = <<>>
          \/ /\ Corrupts(o)
             /\ paths' = [paths EXCEPT ![o.path] = CorruptPathSaruman(@)]
             /\ units' = used
             /\ out' = <<Event("game.events.path", "PathCorrupted", "")>>
          \/ /\ ~Opens(o) /\ ~Corrupts(o)
             /\ out' = <<>>
             /\ UNCHANGED <<paths, units>>
  /\ todo' = Tail(todo)
  /\ UNCHANGED <<turn, regions, rb, sarumanDisabled, outcome, queue, step, roster,
                 destroyRing, targets, fight, announced>>

MaiaDone ==
  /\ step = "maia" /\ todo = <<>>
  /\ step' = "advance" /\ roster' = UnitOrder
  /\ out' = <<>>
  /\ UNCHANGED <<turn, board, outcome, queue, todo, destroyRing, targets, fight, announced>>

\* Step 7: one unit of UnitOrder moves one path along its route.  The bearer's
\* place and route are those of RB; its public entry counts the route, too.
AdvanceUnit ==
  /\ step = "advance" /\ roster # <<>>
  /\ LET u == Head(roster)
         isBearer == u = Bearer
         route == IF isBearer THEN rb.route ELSE units[u].route
         idx == IF isBearer THEN rb.routeIdx ELSE units[u].routeIdx
         here == IF isBearer THEN rb.trueRegion ELSE units[u].region
         path == route[idx + 1]
         dest == FarEnd(path, here)
         mayMove == units[u].status = Active /\ idx < Len(route)
         spotted == paths[path].surveillance >= 1 /\ turn > HiddenUntilTurn
     IN
       \/ /\ ~mayMove
          /\ out' = <<>>
          /\ UNCHANGED <<units, regions, rb>>
       \/ /\ mayMove /\ paths[path].status = Blocked
          /\ out' = <<Event("game.events.unit", "RouteBlocked", "")>>
          /\ UNCHANGED <<units, regions, rb>>
       \/ /\ mayMove /\ paths[path].status # Blocked /\ isBearer
          /\ rb' = [rb EXCEPT !.trueRegion = dest, !.routeIdx = idx + 1,
                              !.exposed = @ \/ spotted]
          /\ units' = [units EXCEPT ![u].routeIdx = idx + 1]
          /\ out' = <<Event("game.ring.position", "RingBearerMoved", dest)>>
                    \o (IF spotted
                          THEN <<Event("game.ring.detection", "RingBearerSpotted", "")>>
                          ELSE <<>>)
          /\ UNCHANGED regions
       \/ /\ mayMove /\ paths[path].status # Blocked /\ ~isBearer
          /\ units' = [units EXCEPT ![u].region = dest, ![u].routeIdx = idx + 1]
          /\ regions' = MoveLists(u, dest)
          /\ out' = <<Event("game.events.unit", "UnitMoved", "")>>
          /\ UNCHANGED rb
  /\ roster' = Tail(roster)
  /\ UNCHANGED <<turn, paths, strayPaths, sarumanDisabled, outcome, queue, step, todo,
                 destroyRing, targets, fight, announced>>

AttackOrdersOn(t) ==
  Pick(pending, {k \in DOMAIN pending :
                   pending[k].type = "ATTACK_REGION" /\ pending[k].region = t})

AdvanceDone ==
  /\ step = "advance" /\ roster = <<>>
  /\ step' = "combat"
  /\ targets' = {o.region : o \in Range(PendingOf({"ATTACK_REGION"}))}
  /\ out' = <<>>
  /\ UNCHANGED <<turn, board, outcome, queue, todo, roster, destroyRing, fight, announced>>

-----------------------------------------------------------------------------
(* Step 8: combat.  One target at a time, in any order.                    *)

\* Go copies the region (`reg`) before the fight and stores the copy after it;
\* the copy's UnitsPresent is the same backing array that remove() shifts in
\* place.  fight.array is that array, over the length the copy remembers.
Fight ==
  /\ step = "combat"
  /\ \E t \in targets :
       LET orders == AttackOrdersOn(t)
           attackers == [k \in DOMAIN orders |-> orders[k].unit]
           side == Config[attackers[1]].side
           present == regions[t].unitsPresent
           fit == Pick(attackers, {k \in DOMAIN attackers : units[attackers[k]].status = Active})
           defenders == Pick(present, {k \in DOMAIN present :
                          units[present[k]].status = Active /\ Config[present[k]].side # side})
           lead == GroupPower(units, fit)
                     - DefenderPower(units, defenders, fit, Terrain[t], regions[t].fortified)
       IN /\ targets' = targets \ {t}
          /\ fight' = [target |-> t, side |-> side, attackers |-> attackers,
                       damage |-> IF lead > 0 THEN lead ELSE 0, array |-> present]
          /\ \/ lead > 0 /\ step' = "damage" /\ roster' = defenders
             \/ lead <= 0 /\ step' = "repel" /\ roster' = attackers
  /\ out' = <<Event("game.events.region", "BattleResolved", "")>>
  /\ UNCHANGED <<turn, board, outcome, queue, todo, destroyRing, announced>>

\* remove() writes the kept elements to the front of the array it is given.
Shifted(array, kept) ==
  [k \in DOMAIN array |-> IF k \in DOMAIN kept THEN kept[k] ELSE array[k]]

\* applyCombatDamage: the next defender takes what damage is left; a unit that
\* falls leaves the list of the region its own entry names.
DamageDefender ==
  /\ step = "damage" /\ roster # <<>> /\ fight.damage > 0
  /\ LET d == Head(roster)
         here == units[d].region
         hit == ApplyDamage(units[d], Config[d], fight.damage)
         left == [fight EXCEPT !.damage = @ - units[d].strength]
         kept == Without(regions[here].unitsPresent, d) IN
       /\ units' = [units EXCEPT ![d] = hit]
       /\ \/ /\ hit.status # Active /\ here # ""
             /\ regions' = [regions EXCEPT ![here].unitsPresent = kept]
             /\ fight' = IF here = fight.target
                           THEN [left EXCEPT !.array = Shifted(@, kept)] ELSE left
          \/ /\ hit.status = Active \/ here = ""
             /\ fight' = left
             /\ UNCHANGED regions
  /\ roster' = Tail(roster)
  /\ out' = <<>>
  /\ UNCHANGED <<turn, paths, rb, strayPaths, sarumanDisabled, outcome, queue, step, todo,
                 destroyRing, targets, announced>>

\* The stored copy of the region changes hands.
Conquer ==
  /\ step = "damage" /\ (roster = <<>> \/ fight.damage <= 0)
  /\ regions' = [regions EXCEPT ![fight.target].controlledBy = fight.side,
                                ![fight.target].unitsPresent = fight.array]
  /\ sarumanDisabled' = (sarumanDisabled
                           \/ (fight.target = "isengard" /\ fight.side = FreePeoples))
  /\ step' = "occupy" /\ roster' = fight.attackers
  /\ out' = <<>>
  /\ UNCHANGED <<turn, units, paths, rb, strayPaths, outcome, queue, todo, destroyRing,
                 targets, fight, announced>>

\* Every attacker still ACTIVE moves in.
Occupy ==
  /\ step = "occupy" /\ roster # <<>>
  /\ LET u == Head(roster) IN
       \/ units[u].status = Active /\ MoveUnit(u, fight.target)
       \/ units[u].status # Active /\ UNCHANGED <<units, regions>>
  /\ roster' = Tail(roster)
  /\ out' = <<>>
  /\ UNCHANGED <<turn, paths, rb, strayPaths, sarumanDisabled, outcome, queue, step, todo,
                 destroyRing, targets, fight, announced>>

\* Every attacker of a failed attack loses one point; it stays in the list of
\* its region even if that destroys it or sends it home.
Repel ==
  /\ step = "repel" /\ roster # <<>>
  /\ LET u == Head(roster) IN
       units' = IF units[u].status = Active
                  THEN [units EXCEPT ![u] = ApplyDamage(@, Config[u], 1)] ELSE units
  /\ roster' = Tail(roster)
  /\ out' = <<>>
  /\ UNCHANGED <<turn, paths, regions, rb, strayPaths, sarumanDisabled, outcome, queue,
                 step, todo, destroyRing, targets, fight, announced>>

\* Mutant: the target stays in the list of targets.
FightDone_Rematch ==
  /\ step \in {"occupy", "repel"} /\ roster = <<>>
  /\ step' = "combat" /\ fight' = NoFight
  /\ targets' = targets \cup {fight.target}
  /\ out' = <<>>
  /\ UNCHANGED <<turn, board, outcome, queue, todo, roster, destroyRing, announced>>

FightDone ==
  /\ step \in {"occupy", "repel"} /\ roster = <<>>
  /\ step' = "combat" /\ fight' = NoFight
  /\ out' = <<>>
  /\ UNCHANGED <<turn, board, outcome, queue, todo, roster, destroyRing, targets, announced>>

-----------------------------------------------------------------------------
(* The end of the turn *)

\* Steps 9 to 11: path, fortification, respawn and cooldown timers.  A path
\* closes again if its blocker is at an endpoint, whatever the blocker's status.
TickTimers ==
  /\ step = "combat" /\ targets = {}
  /\ paths' = [p \in Path |->
       TickTempOpen(paths[p], paths[p].blockedBy # NoUnit
                                /\ AtEndpoint(paths[p].blockedBy, p))]
  /\ regions' = [r \in AnyRegion |-> TickFortification(regions[r])]
  /\ units' = [u \in Unit |-> TickUnit(units[u], Config[u])]
  /\ step' = "detect"
  /\ out' = <<>>
  /\ UNCHANGED <<turn, rb, strayPaths, sarumanDisabled, outcome, queue, todo, roster,
                 destroyRing, targets, fight, announced>>

\* Step 12
Detect ==
  /\ step = "detect"
  /\ \/ /\ RunDetection(turn, units, rb.trueRegion)
        /\ rb' = [rb EXCEPT !.exposed = TRUE, !.lastDetectedTurn = turn,
                            !.lastDetectedRegion = rb.trueRegion]
        /\ out' = <<Event("game.ring.detection", "RingBearerDetected", rb.trueRegion)>>
     \/ /\ ~RunDetection(turn, units, rb.trueRegion)
        /\ out' = <<>>
        /\ UNCHANGED rb
  /\ step' = "win"
  /\ UNCHANGED <<turn, units, paths, regions, strayPaths, sarumanDisabled, outcome, queue,
                 todo, roster, destroyRing, targets, fight, announced>>

ShadowAtMountDoom ==
  \E u \in Range(regions["mount-doom"].unitsPresent) :
    Config[u].side = Shadow /\ units[u].status = Active

\* Mutant: nobody looks who else is at Mount Doom.
RingDestroyed_Unguarded == rb.trueRegion = "mount-doom" /\ destroyRing

RingDestroyed == rb.trueRegion = "mount-doom" /\ destroyRing /\ ~ShadowAtMountDoom

BearerCaptured ==
  rb.exposed /\ \E u \in NazgulViews(units) : units[u].region = rb.trueRegion

Over(winner, cause) == [over |-> TRUE, winner |-> winner, cause |-> cause]

\* Mutant: the draw comes a turn late.
EvaluateWin_LateDraw ==
  IF RingDestroyed THEN Over(FreePeoples, "RING_DESTROYED")
  ELSE IF BearerCaptured THEN Over(Shadow, "RING_BEARER_CAPTURED")
  ELSE IF turn > MaxTurns THEN Over("NONE", "DRAW")
  ELSE outcome

\* Mutant: the turn counter stops.
NextTurn_Stops(over) == turn

NextTurn(over) == IF over THEN turn ELSE turn + 1

EvaluateWin ==
  IF RingDestroyed THEN Over(FreePeoples, "RING_DESTROYED")
  ELSE IF BearerCaptured THEN Over(Shadow, "RING_BEARER_CAPTURED")
  ELSE IF turn >= MaxTurns THEN Over("NONE", "DRAW")
  ELSE outcome

\* Step 13: evaluate, broadcast the snapshot, clear the orders, next turn.
FinishTurn ==
  /\ step = "win"
  /\ outcome' = EvaluateWin
  /\ out' = (IF outcome'.over THEN <<Event("game.broadcast", "GameOver", "")>> ELSE <<>>)
              \o <<Event("game.broadcast", "WorldStateSnapshot", rb.trueRegion)>>
  /\ announced' = IF outcome'.over THEN announced + 1 ELSE announced
  /\ rb' = [rb EXCEPT !.exposed = FALSE]
  /\ pending' = <<>> /\ seen' = {}
  /\ turn' = NextTurn(outcome'.over)
  /\ step' = "idle"
  /\ destroyRing' = FALSE
  /\ UNCHANGED <<units, paths, regions, strayPaths, sarumanDisabled, todo, roster, targets,
                 fight>>

ProcessTurn ==
  \/ BeginTurn \/ RouteOrder \/ RoutesDone \/ PathOrder \/ Reconcile
  \/ FortifyOrDeploy \/ FortifyDone \/ MaiaAbility \/ MaiaDone
  \/ AdvanceUnit \/ AdvanceDone
  \/ Fight \/ DamageDefender \/ Conquer \/ Occupy \/ Repel \/ FightDone
  \/ TickTimers \/ Detect \/ FinishTurn

Next ==
  \/ \E o \in Orders, t \in 1..MaxTurns : Submit([o EXCEPT !.turn = t])
  \/ Reset
  \/ ProcessTurn

Spec == Init /\ [][Next]_vars

\* cmd/server with -auto calls ProcessTurn on a timer, and a call that holds the
\* mutex runs to its end: the turn is fair, players and the reset button are not.
FairSpec == Spec /\ WF_vars(ProcessTurn)
=============================================================================
