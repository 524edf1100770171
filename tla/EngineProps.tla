----------------------------- MODULE EngineProps -----------------------------
(***************************************************************************)
(* What must hold of engine.Engine: its type invariant, what every step of *)
(* every turn preserves, what no step may do, what must eventually happen, *)
(* and the sentences of the documents that the code does not keep.         *)
(***************************************************************************)
EXTENDS Engine

-----------------------------------------------------------------------------
(* Type invariant *)

RBState ==
  [trueRegion : Region, exposed : BOOLEAN, route : Route, routeIdx : Nat,
   lastDetectedTurn : Nat, lastDetectedRegion : Region \cup {""}]

Outcome ==
  [over : BOOLEAN, winner : Side \cup {"NONE", ""},
   cause : {"", "RING_DESTROYED", "RING_BEARER_CAPTURED", "DRAW"}]

FightState ==
  [target : AnyRegion, side : Side \cup {""}, attackers : Seq(Unit), damage : Int,
   array : Seq(Unit)]

\* An order Validate has accepted: its unit exists and its ids are known.
Accepted(o) ==
  /\ o \in Order /\ o.unit \in Unit /\ o.region \in AnyRegion
  /\ o.type \in RouteOrders => o.route \in Route
  /\ o.type \in PathOrders => o.path \in Path
  /\ o.type = "ATTACK_REGION" => o.region \in Region

TypeOK ==
  /\ turn \in 1..MaxTurns
  /\ units \in [Unit -> UnitState]
  /\ paths \in [Path -> PathState]
  /\ regions \in [AnyRegion -> RegionState]
  /\ rb \in RBState
  /\ strayPaths \in SUBSET STRING /\ strayPaths \cap Path = {}
  /\ sarumanDisabled \in BOOLEAN
  /\ outcome \in Outcome
  /\ pending \in Seq(Order) /\ \A k \in DOMAIN pending : Accepted(pending[k])
  /\ seen \in SUBSET Unit
  /\ step \in Steps
  /\ todo \in Seq(Order) /\ \A k \in DOMAIN todo : Accepted(todo[k])
  /\ roster \in Seq(Unit)
  /\ destroyRing \in BOOLEAN
  /\ targets \in SUBSET Region
  /\ fight \in FightState
  /\ announced \in Nat

-----------------------------------------------------------------------------
(* Units *)

\* A unit's status, strength and place agree at every step of every turn:
\* ACTIVE means strength left and never more than configured; an
\* indestructible unit is always ACTIVE; only a unit configured to respawn
\* waits for it, nowhere on the map and with turns left to wait
\* (ApplyDamage, step 11), even when a list that names it twice hits it twice.
UnitCoherent ==
  \A u \in Unit : LET s == units[u] IN
    /\ s.status = Active <=> s.strength > 0
    /\ s.strength <= Config[u].strength
    /\ Config[u].indestructible => s.status = Active
    /\ s.status = Respawning =>
         Config[u].respawns /\ s.region = "" /\ s.respawnTurns > 0
    /\ s.status = Destroyed => ~Config[u].respawns

\* Until a reset, a destroyed unit stays destroyed, and a unit that waits to
\* respawn becomes ACTIVE only at its start region with its full strength.
Lifecycle ==
  [][\/ Reset
     \/ \A u \in Unit :
          /\ units[u].status = Destroyed => units'[u].status = Destroyed
          /\ units[u].status = Respawning /\ units'[u].status # Respawning =>
               /\ units'[u].status = Active
               /\ units'[u].strength = Config[u].strength
               /\ units'[u].region = Config[u].start]_vars

\* moveUnit, remove and the region copy resolveCombat stores back never lose a
\* unit: every ACTIVE unit is in the list of the region it is in.  The only
\* exception is a unit step 11 sent home, which no list receives.
Reborn(u) == Config[u].respawns /\ units[u].region = Config[u].start

ListedUnlessReborn ==
  \A u \in Unit \ {Bearer} :
    units[u].status = Active /\ ~Reborn(u) =>
      u \in Range(regions[units[u].region].unitsPresent)

\* Nor do they leave one behind: step 8 fights whoever a region's list names, and
\* an ACTIVE unit that does not respawn is listed in no region but the one it is
\* in.  A respawner is: an attack that fails sends it off the board, and step 11
\* home, without a word to the list it was in; and moveUnit takes nobody off the
\* list of "", where a Nazgul may be deployed.
NoGhosts ==
  \A r \in AnyRegion \ {""} : \A u \in Range(regions[r].unitsPresent) :
    units[u].status = Active /\ ~Config[u].respawns => units[u].region = r

\* The bearer's unit entry, public in every snapshot, names no region, and no
\* list names the bearer, so that it is never a guard, a defender or an attacker
\* that conquers.  Its place is no secret all the same: the entry repeats the
\* route of RB and how far the bearer has come, and once it has moved it is at
\* one of the two ends of the last path it took.
BearerEntry ==
  /\ units[Bearer].region = "" /\ units[Bearer].status = Active
  /\ \A r \in AnyRegion : Bearer \notin Range(regions[r].unitsPresent)
  /\ units[Bearer].route = rb.route /\ units[Bearer].routeIdx = rb.routeIdx
  /\ rb.routeIdx > 0 => rb.trueRegion \in Ends(rb.route[rb.routeIdx])

-----------------------------------------------------------------------------
(* Orders: what Submit checked still holds when ProcessTurn acts on it *)

Distinct(s) == \A j, k \in DOMAIN s : j # k => s[j].unit # s[k].unit

\* A unit has at most one accepted order per turn, made for this turn.
OneOrderPerUnit ==
  /\ Distinct(pending)
  /\ seen = {pending[k].unit : k \in DOMAIN pending}
  /\ \A k \in DOMAIN pending : pending[k].turn = turn

\* The cooldown Validate saw at zero is still zero when step 6 reaches the
\* order: the second check there never refuses.
AbilitiesReady ==
  step = "maia" => \A k \in DOMAIN todo : units[todo[k].unit].cooldown = 0

\* Until step 3 has acted on it, a path order's unit stands where Validate saw
\* it: at an endpoint of the path.
PathOrdersAtEndpoint ==
  \A k \in DOMAIN pending :
    pending[k].type \in PathOrders /\ step \in {"idle", "routes", "block"} =>
      AtEndpoint(pending[k].unit, pending[k].path)

\* Until a target is resolved, no attacker's own side controls it: no other
\* fight of the same turn takes it first, in whatever order they are resolved.
TargetsHostile ==
  \A k \in DOMAIN pending :
    LET o == pending[k] IN
      o.type = "ATTACK_REGION"
        /\ (step \in {"idle", "routes", "block", "fortify", "maia", "advance"}
              \/ o.region \in targets) =>
        regions[o.region].controlledBy # Config[o.unit].side

-----------------------------------------------------------------------------
(* Paths, regions and timers *)

\* A path's status, holder and timer agree: BLOCKED and TEMPORARILY_OPEN paths
\* name the unit that closed them, OPEN ones nobody, and only a temporarily
\* open path has turns left.
PathCoherent ==
  \A p \in Path : LET s == paths[p] IN
    /\ s.status = Open <=> s.blockedBy = NoUnit
    /\ s.status = TempOpen <=> s.tempOpenTurns > 0
    /\ s.corrupted => s.surveillance = 3

\* The early steps of a turn, in which nothing of this turn's steps 6 and 7 has
\* happened yet.
Early == {"idle", "routes", "block", "fortify"}

\* OpenPath lasts the turn it is used in and the next one, fortification the
\* same, an ability's cooldown is shorter by one when the next orders come in:
\* between turns every timer has already been ticked once.
TimersTicked ==
  /\ step \in Early => \A p \in Path : paths[p].tempOpenTurns <= 1
  /\ step \in Early \ {"fortify"} => \A r \in AnyRegion : regions[r].fortifyTurns <= 1
  /\ step \in Early => \A u \in Unit :
       units[u].cooldown = 0 \/ units[u].cooldown < Config[u].cooldown
  /\ \A r \in AnyRegion : regions[r].fortified <=> regions[r].fortifyTurns > 0

\* Corruption and surveillance only grow within a game, and once Isengard has
\* fallen to the Free Peoples no further path is corrupted.
CorruptionIsPermanent ==
  [][\/ Reset
     \/ /\ sarumanDisabled => sarumanDisabled'
        /\ \A p \in Path :
             /\ paths'[p].surveillance >= paths[p].surveillance
             /\ paths[p].corrupted => paths'[p].corrupted
             /\ sarumanDisabled => (paths'[p].corrupted <=> paths[p].corrupted)]_vars

-----------------------------------------------------------------------------
(* The Ring and the result *)

\* Hidden start: up to HiddenUntilTurn nothing exposes the bearer, nothing is
\* told to the Dark Side, and the Dark Side cannot have won.
HiddenStart ==
  turn <= HiddenUntilTurn =>
    /\ ~rb.exposed
    /\ \A k \in DOMAIN out : out[k].topic # "game.ring.detection"
    /\ outcome.winner # Shadow

\* The board agrees with the result it froze with: the Ring was destroyed with
\* the bearer at Mount Doom and no ACTIVE unit of the Shadow there (step 13
\* reads the region's list, this the units' own entries), the bearer captured
\* by an ACTIVE Nazgul in its region, the game drawn at MaxTurns and not before.
ResultMatchesBoard ==
  /\ outcome.cause = "RING_DESTROYED" =>
       /\ rb.trueRegion = "mount-doom"
       /\ \A u \in Unit : Config[u].side = Shadow /\ units[u].status = Active
                             /\ ~Reborn(u) => units[u].region # "mount-doom"
  /\ outcome.cause = "RING_BEARER_CAPTURED" =>
       \E u \in NazgulViews(units) : units[u].region = rb.trueRegion
  /\ outcome.cause = "DRAW" => turn = MaxTurns

\* The engine implements Match: turns in order, one end, one announcement.
Game == INSTANCE Match
MatchSpec == Game!Spec

\* A game that is over has been announced exactly once, one that is not never.
AnnouncedOnce == announced = IF outcome.over THEN 1 ELSE 0

-----------------------------------------------------------------------------
(* What a comment says and the code does not do: refuted by a run. *)

\* combat.go:41: leadership strengthens "every co-located ally (same group)": the
\* units that attack a region together are of one side.
AttackersAreAllies ==
  \A u \in Range(fight.attackers) : Config[u].side = fight.side

-----------------------------------------------------------------------------
(* Progress *)

\* A call of ProcessTurn ends, whatever the orders.
TurnCompletes == step # "idle" ~> step = "idle"

\* With the turn timer running, a game that is not reset for ever ends.
GameEnds == []<><<Reset>>_vars \/ <>outcome.over
=============================================================================
