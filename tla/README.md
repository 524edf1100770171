# Ring of the Middle Earth: a verification project

`src/ring-of-the-middle-earth/option-b` is a Go server for a two-player board
game with hidden information: the Light Side moves the Ring Bearer to Mount
Doom, the Dark Side hunts it. One `engine.Engine` holds the authoritative state
of a game, takes orders between turns, and plays a turn of thirteen steps when
it is told to; everything that happens is produced to a bus, from which a hub
feeds each side the events it may see; two analyses advise the players; three
instances of the server are deployed on one Kafka broker. These modules model
the rules of the game, the engine, the way of its events to the players, the
handlers of the server, the analyses, and the deployment. TLC checks them on
small instances, and TLAPS proves the main results for every board, every set of
units and orders, any number of clients and any number of workers.

## 1. The system

| Component (code) | State it keeps | Operations | Who it talks to |
|---|---|---|---|
| Rules, `internal/game` | none | `Validate`, `ApplyDamage`, `BlockPath`, `SearchPath`, `OpenPathGandalf`, `CorruptPathSaruman`, `ReconcileBlock`, `TickTempOpen`, `ResolveCombat`, `RunDetection`, `Hops`, `ShortestCost`, `Endpoints`, `PathBetween` | called by the engine and the pipelines |
| Turn engine, `internal/engine` | turn, units, paths, regions, the bearer's private record `RB`, `SarumanDisabled`, result; `pending` orders, `seen` units; all under one mutex | `Submit`, `ProcessTurn`, `Reset`, `Snapshot` | rules; produces to the bus |
| Configuration, `internal/config`, `config/*.json` | units, map, turn limits, read once | `Load`, `LoadMap` | read by all |
| In-memory bus, `internal/bus/bus.go` | subscribers of each topic (channels of 256), `closed` | `Produce` (drops when full), `Subscribe`, `Close` | engine and server produce, hub subscribes |
| Hub, `internal/api/hub.go` | the SSE clients of each side (channels of 64) | `Run` (route by topic, strip for the Dark Side), `Subscribe`, unsubscribe | bus on one side, SSE handlers on the other |
| Event router and cache, `internal/router` | two channels; a snapshot and one view per side | `Route`, `ApplySnapshot`, `SetDetected`, `LightView`, `DarkView` | used by tests; the hub uses its types |
| Analysis pipelines, `internal/pipeline` | per call: a job channel, an unbuffered result channel, four workers, a two-second timeout | `RunRouteRisk`, `RunIntercept` | server calls them with a snapshot |
| HTTP server, `internal/api/server.go` | none of its own | `/order`, `/game/tick`, `/game/reset`, `/game/state`, `/analysis/*`, `/events` | engine, bus, hub, pipelines |
| Main loop, `cmd/server` | turn timer (`-auto`), signals | one `select` over the timer, signals and four channels nobody feeds | engine |
| Kafka bus and deployment, `confluent_bus.go`, `docker-compose.yml` | one consumer group shared by three instances, each with its own engine | the same interface as the in-memory bus | Kafka |
| Browser UI, `ui/` | what it was sent | rendering, posting orders | HTTP and SSE |

**What is hard in it.** The engine is sequential inside its mutex, so its
hazards are not data races but *stale state* and *order*: an order is validated
on the board before the turn and acted on up to seven steps later, after other
orders of both players have moved, killed or corrupted what it relied on;
`resolveCombat` visits its targets in Go's random map order, copies a region,
fights, and stores the copy back while `remove()` shifts the very slice that
copy holds; the place of a unit is kept twice, in the unit and in the list of
its region, and not every step updates both; the bearer's route is kept twice, in its
private record and in a unit entry that snapshots show; timers are set and ticked in the
same turn. Around the engine it is delivery that is hard: channels that drop
when full, a hub that closes a client's channel, a timeout that races the last
answers, three engines that each believe to be the game.

**What makes each component correct.**

* *Rules and engine:* a unit's status, strength and place agree; nobody is lost
  from the lists or left behind in one; what intake checked still holds when a turn acts on it; paths,
  fortifications, cooldowns last exactly as long as the rules say; corruption is
  permanent and ends with the fall of Isengard; the bearer's public entry names
  no region and no list names the bearer; nothing is detected in the hidden turns; the frozen result
  agrees with the board; a game ends exactly once; every turn and every game
  ends.
* *Bus and hub:* the Dark Side never receives the bearer's true region except
  through a detection (it does receive its route, see section 3); order of delivery is order of production per client, and
  nothing is shown twice; a record is lost only where a full channel drops it;
  what waits in the hub's queue reaches every client that reads; a client that
  leaves never takes the server down.
* *Pipelines:* no goroutine is left behind; a result not marked partial is
  complete; the best target per Nazgul is independent of the order of answers.
* *Server:* each submitted order is answered once and consistently with the
  records it produces; what was accepted is played once, in its own game and turn;
  an answer that is encoded while turns go on names only units that were there;
  everybody is answered.
* *Deployment:* no record is skipped when the partition moves or an instance
  stops; no client is shown a record twice or after a later one; the instances
  agree on the game that is announced (they do not).

`PROJECT.json` lists the hazards of this code one by one at their lines, with
the properties that cover them.

## 2. The modules

| Module | What it is |
|---|---|
| `Slices` | filtered slices and sums as the code's loops make them, without `RECURSIVE` |
| `GameRules` | configuration as CONSTANTS with their assumptions; `package game` as operators: `Validate`, `ApplyDamage`, path states, combat power, detection. No state, no `RECURSIVE` |
| `Engine` | `engine.Engine`: `Submit`, `Reset` and `ProcessTurn` |
| `Match` | the abstract specification: what the engine promises of one game |
| `EngineProps` | type invariant, safety, action and liveness properties, and the sentences of the documents the code does not keep |
| `Feed` | the abstract specification of a player's event stream |
| `Delivery` | in-memory bus, `Hub.Run`, and the handlers of `/events` |
| `DeliveryProps` | its invariants, its refinement of `Feed`, its liveness |
| `MCDelivery` | the clients for TLC |
| `Server` | the handlers of the server and the turn timer, around one engine and its mutex; snapshots as Go slices |
| `ServerProps`, `MCServer` | its properties; the players for TLC |
| `Routes` | `Hops` and `ShortestCost` as their loops are written; `BuildRoute`, `RouteRiskScore`, `InterceptScore` and the candidates the two handlers make of them |
| `Survey` | the abstract specification: what a call of an analysis promises |
| `Pipelines` | one call of `RunRouteRisk` or `RunIntercept`, goroutine by goroutine |
| `PipelineProps`, `MCPipelines` | its properties and its refinement of `Survey`; what the searches promise; map, routes and snapshots for TLC |
| `Cluster` | three instances with an engine each, their producers and consumers, one consumer group, stops and restarts |
| `ClusterProps`, `MCCluster` | its properties; the instances for TLC |
| `MCOrders`, `MCWar`, `MCIsengard`, `MCQuest` | three boards for TLC and the orders their players may submit |
| `SliceProofs` | lemmas about the operators of `Slices`: ranks, filtered lists, lists that name nothing twice, sums |
| `EngineTypes` | `TypeOK` is an invariant; the rules keep their types |
| `BoardProofs` | units, paths, orders, timers and targets stay coherent; the fallen stay fallen; corruption is permanent |
| `GameProofs` | what the bearer's public entry shows; nobody is lost from the lists or left behind in one; the engine implements `Match`; hidden start; one announcement; the result agrees with the board |
| `DeliveryProofs` | the hub never sends on a closed channel; the Dark Side is told the bearer's region by detections only; bus, hub and handlers implement `Feed`; nothing is lost but what a full channel drops; no channel is overfull |
| `PipelineProofs` | no candidate is lost or scored twice; the goroutines implement `Survey`; the plan is the best of the scores; a whole ranking is in order and has every candidate; the searches find a shortest and a cheapest route |
| `ServerProofs` | answers agree with the records; an accepted order is played or wiped once; an answer lists in a region only units its list has held |
| `ClusterProofs` | records are shown in order, by one instance, and none is skipped; the log is in order for each life of an engine |

`Engine` and `Delivery` meet at the bus: `Delivery`'s `Emitted` holds the kinds
of record the engine's `out` can hold, with what they show of the bearer, its region or a
path of its route, and the server's copy of an order. They are checked apart, since nothing flows
back: the engine ignores what `Produce` returns. `Server` and `Cluster` compose
the engine with what is around it, each with as much of the engine as its
questions need. `Server` keeps the turn, the order queue, the place of each unit and the lists of units. It
leaves open which orders are legal, and who moves, falls, conquers or respawns in a turn:
any of these may happen to anyone, with what it does to the place and to the lists;
`Engine` says which of them do. `Cluster` keeps the turn and the end of the game. The
candidates of `Pipelines` come from `Routes` by way of `MCPipelines`.

### How state and actions correspond to the code

`units`, `paths`, `regions`, `rb`, `sarumanDisabled`, `turn` and `outcome` are
the fields of `GameState` (with `strayPaths` for the keys of `state.Paths` that are no path); `pending` and `seen` those of `Engine`. The locals of
`ProcessTurn` that live across loop iterations are variables as well: `step`
(which loop runs), `todo` and `roster` (what it has not reached), `destroyRing`,
`targets`, and `fight` (the locals of `resolveCombat`). `out` holds the events
the last step produced, as topic, type and region; `announced` is a history
variable that counts `GameOver` events.

Each iteration of each loop of a turn is one action. Nothing can come between
them, because `Submit` and `Reset` need the mutex (`step = "idle"`), so the
split adds no interleaving: it makes intermediate states visible to the
properties and keeps each action as small as the code it stands for. The only
choice inside a turn is which attack target `Fight` takes next.

| `ProcessTurn` | Actions |
|---|---|
| 1 start, nothing after the end | `BeginTurn` |
| 2 routes, DestroyRing remembered | `RouteOrder`, `RoutesDone` |
| 3 block, search, reconcile | `PathOrder`, `Reconcile` |
| 4, 5 fortify, deploy | `FortifyOrDeploy`, `FortifyDone` |
| 6 Maia abilities | `MaiaAbility`, `MaiaDone` |
| 7 auto-advance | `AdvanceUnit`, `AdvanceDone` |
| 8 combat | `Fight`, `DamageDefender`, `Conquer`, `Occupy`, `Repel`, `FightDone` |
| 9, 10, 11 timers | `TickTimers` |
| 12 detection | `Detect` |
| 13 result, snapshot, next turn | `FinishTurn` |

Three translations deserve a word.

* *The aliased slice.* `resolveCombat` copies `reg := Regions[t]` before the
  fight; the copy's `UnitsPresent` shares its backing array with the live list,
  which `remove()` compacts in place. `fight.array` is that array over the
  length the copy remembers, `Shifted` is what `remove()` does to it, and
  `Conquer` stores it.
* *Filtered slices.* `Pick(s, I)` is the subsequence of `s` at positions `I`,
  defined by ranks and not by recursion, so that proofs can use it.
  `Summed` is a loop that adds up, of which `GroupPower` and `EffectiveStrength` have
  one each, as in `combat.go`. Tables, boards and lists are functions, so that a
  loop over them is a recursive function, never a `RECURSIVE` operator.
* *Go's zero values.* `""` is no region and no unit. The map entry of `""` that
  indexing a Go map with it may create exists from the start in `regions`, and
  so does that of any stray id an order may name (`StrayRegion`), because
  `DEPLOY_NAZGUL` does not ask whether its target is on the map. A Maia ability asks
  no more of its path: a unit that is ready stores what it has read under any id
  (`engine.go:281`, `293`), so that an id that is no path becomes a key of `state.Paths`,
  which snapshots show from then on. Its value is a zero `PathState` for ever, since
  no step changes a path no unit can be at an end of, so that `strayPaths` keeps the keys only.

*Delivery.* A record says of the bearer its `region` where it names it and, in `track`, the
path at whose end the bearer is where it shows its route: a snapshot repeats the bearer's unit
entry with `route` and `routeIdx`, `RingBearerSpotted` and `RouteBlocked` name a path. `Strip`
blanks the region and leaves `track`, as `stripBroadcast` does. `inbox` is the channel the hub subscribed with and `closed` the
field of `MemoryBus`; `light` and `dark` are the hub's maps, `chan` the clients'
channels, `shut` those that are closed; `phase` and `msg` say where in its
`switch` the hub's goroutine is, `handler` where each handler of `/events` is.
`got`, `produced`, `since` and `lost` are history variables.

| Code | Actions |
|---|---|
| `MemoryBus.Produce`, `Close` | `Produce` (`Enqueue` drops when full), `Close` |
| `Hub.Run` | `HubReceive`, then `ToLight`, `ToDark` or both by topic (`AfterLight`), with `Strip` for a broadcast to the Dark Side |
| `Hub.Subscribe` and `events` | `Subscribe`, `Read`, `Unregister`, `CloseChannel` |

The hub's mutex is held for a whole fan-out, so a fan-out is one action, but not
between the two fan-outs of one record, so these are two. Unsubscribing deletes
under the mutex and closes the channel after it: two actions, and a fan-out may
come between them. A client connects, reads and leaves at any time, once; who
connects again is another client with another channel.

*Server.* Every request is a goroutine, and between two calls of the engine or
the bus a handler holds nothing, so that each of these calls is an action. `pc`
is where a handler is, `ask`, `verdict`, `snap` and `view` are its locals; a
client waits for one answer at a time, as a browser's page does. `holder` is who is
inside `ProcessTurn`; `Submit`, `Reset` and `TakeSnapshot` are one action each
under the mutex, while a turn changes units and lists in steps of its own, because an answer
may be encoded meanwhile. `where` is the region of each unit's own entry; that it
differs from the lists is part of the model: `Move` (`moveUnit`) updates both; a unit that
falls (`Fall`) leaves the list of the region its entry names, after `resolveCombat` has copied
the region into `reg`; `Conquer` stores that copy, with the slice it had before, over
the array the falls have shifted; and an attacker beaten back or a unit that comes home
again (`EntryAlone`) changes its entry and no list. `board` holds the regions' lists as Go slices: `mem` is
every array ever made and `slice[r]` an array and a length, so that a snapshot
copies the slice and shares the array. `AppendUnique` and `RemoveFrom` are `appendUnique`
and `remove`, the second of which shifts what it keeps to the front of the same array.
`held` in a snapshot and `been`, the
units each region's list ever held, are history. `encoding/json` lists the keys of a map in
order, so `Encode` goes region by region in `RegionOrder`.

| Code | Actions |
|---|---|
| `order` | `BadJSON` or `OrderArrives` (with the record on `game.orders.raw`), `Submit`, `Record` (`game.orders.validated` and 202, or `game.dlq` and 422) |
| `tick`, the turn timer | `TickArrives`, `TurnBegins`, `Move`, `Fall`, `Conquer`, `EntryAlone`, `TurnEnds` or `TickAfterTheEnd`, `Encode` |
| `reset` | `ResetArrives`, `Reset`, `TakeSnapshot`, `Encode` |
| `state`, `start` | `StateArrives`, `TakeSnapshot`, `Encode` |

*Pipelines.* `in` is the buffered channel, `next` the dispatcher's loop, `worker`
what each worker holds, `collected` and `best` what the caller has gathered,
`expired` the timeout. `out` is unbuffered, so that a worker's send and the
caller's receive are one action.

| Code | Actions |
|---|---|
| dispatcher | `Dispatch`, `DispatcherEnds` |
| workers | `Take`, `Collect` (with the caller), `WorkerCancelled`, `WorkerEnds` |
| `wg.Wait(); close(out)` | `CloseOut` |
| the caller's `select` | `Collect`, `SeesClose`, `SeesTimeout` |
| `context.WithTimeout` | `Timeout` |

A score is part of its candidate, since it is a pure function of the snapshot the
call was made with; `Routes` computes it. A quotient is kept as a fraction. The searches of
the map are loops that turn until their queue is empty or their answer is known. Each is a
recursive function of the number of turns made: a turn (`Visit`, `Settle`) changes
nothing once the loop has ended, and the numbers of turns allowed (`Visits`, the number of
regions, and `Settles`, one more than its square) bound nothing, which is part of what is proved. The
heap is a set: equal entries make no difference, and which of two nearest ones is popped
is left open by `CHOOSE`, of which the proof uses only that it is a nearest one.

*Cluster.* `sending`, `out` and `shown` are an instance's producer queue, the
channel of its consumer and what its hub handed on; `log`, `members`, `owner`,
`position` and `committed` are Kafka's and marked external in `PROJECT.json`: what
the code asks of them is one partition of `game.broadcast`
(`create-topics.sh:33`), `enable.idempotence`, a group all instances share,
`auto.offset.reset` `earliest`, and the library's default of committing, on a timer,
what was *read*. `Stop` loses all an instance has in memory and `Start` seeds a
new engine at turn 1, for nothing is read back. `main` closes the producer
without a flush and leaves the consumer open, so that a signal and a crash are
the same here.

Left out: what an event's JSON holds beyond topic, type and what it shows of the bearer; `ThreatPath`,
`ClearPath` and `AutoAdvance`, which only tests call. The status `THREATENED`
is kept in the type and in `BlockPath`, but nothing the engine calls sets it.

## 3. What TLC checks

An order set is what the players may submit, in any turn field, any number of
times, in any order; duplicates, late orders and orders for the wrong turn are
submitted and rejected by `Validate`. `Reset` may come between any two turns.
`Orders`, the strengths and `MaxTurns` are the bounds; nothing else is capped.

| Run | Instance | What it shows |
|---|---|---|
| `war` (0.6 million states) | Osgiliath front: Aragorn, Gondor's army, the Witch-king, a Nazgul, the bearer; `MaxTurns` 3 | `TypeOK`, `UnitCoherent`, `ListedUnlessReborn`, `TargetsHostile`, `NoGhosts`, `Lifecycle` |
| `isengard` (0.6 million) | Gandalf, Saruman, a Nazgul, the bearer; `MaxTurns` 4; with fairness | `OneOrderPerUnit`, `AbilitiesReady`, `PathOrdersAtEndpoint`, `PathCoherent`, `TimersTicked`, `CorruptionIsPermanent`, `TurnCompletes`, `GameEnds` |
| `quest` (1 million) | the bearer and Gimli at Cirith Ungol, a Nazgul and Sauron in Mordor; `MaxTurns` 4, `HiddenUntilTurn` 1 | `BearerEntry`, `HiddenStart`, `ResultMatchesBoard`, and the refinement `MatchSpec` |
| `delivery` (0.8 million) | one client of each side; channels of one place; two records; with fairness | `TypeOK`, `NeverPanics`, `Secrecy`, `NothingVanishes`, `Arrives`, and the refinement `FeedSpec` |
| `pipelines` (70 thousand) | three workers, a channel of one place, both kinds of call on the Mordor part of the map; with fairness | `HeldOnce`, `WholeRanking`, `BestOfAll`, `SearchesAreShortest`, `NoLeak`, and the refinement `SurveySpec` |
| `server` (0.5 million) | two players and the turn timer, two turns, one unit, one reset; with fairness | `RecordsMatchAnswers`, `PlayedOnce`, `ListsNameVisitors`, `Answered`, `AcceptedIsPlayed` |
| `cluster` (0.2 million) | three instances, one of which plays three turns, one stop; with fairness | `EachLifeInOrder`, `NothingSkipped`, `ShownInOrder`, `RepeatedOnlyAfterStop`, `ShownSomewhere` |

*Why the bounds are enough.* A turn carries effects into the next turn, and the
longest chains are: fall in a fight, wait, return home (respawn timers of 1 and
2 turns: three turns); open a blocked path, have it close again, block it again
(`OpenPath` lasts two turns: four turns); use an ability, wait for the cooldown
of 2 or 3, use it again (four turns). Each board has two units a side where a
property is about two (leadership, two attackers of one target, two targets in
either order), one region that starts with two units, and a path longer than one
hop for detection ranges. The mutants in `PROJECT.json` show that the
interesting cases occur: each is a plausible bug in one operator that breaks its
property within these bounds. Strengths are lowered from those of `units.json`
so that wounds, falls and repelled attacks all happen within three turns.

For delivery the channels have one place instead of 256 and 64. What matters is
whether a channel has room: with one place and two records each of them is full
when the second record comes, or has just been emptied. Records are
distinguished by topic and by what they show, so one `Place` and one `Track` are enough. Two
clients of different sides exercise both halves of a fan-out; clients of one
side do not influence one another, and the proofs hold for any number.
Channels are always closed by their own handler, and the run lets a client leave
at any point of a fan-out. `CHECK_DEADLOCK FALSE` in this cfg: with
`MaxRecords` records produced, the bus closed and the clients gone, nothing is left to do.

For the pipelines three workers suffice for two of them to race for a candidate and
for two answers while a third waits; with one place instead of 20 or 30 the channel is
full, empty, or closed with something in it within four or six candidates. The
candidates are those the handlers make for every place of two Nazgul, on or off the
map, with paths blocked or watched; the theorems hold for any workers, capacities and
candidates. `SearchesAreShortest` compares `Hops` and `ShortestCost` with all the
routes that `BuildRoute` accepts, on all graphs of four regions with up to five
paths of costs 0, 1 and 3, including those where an entry of the heap becomes
outdated. A route that enters more regions than there are is not looked at there; the
theorem is proved over routes of any length. Deadlock is not checked, since a call ends.

For the server one player makes two requests and the other one, besides the timer: two
orders of two players for one unit, an order and a tick, a tick and a reset, in every
interleaving, before and after the end of a game of two turns. One unit between two
regions, which moves, falls, conquers or respawns once a turn, is enough for a list to be
shifted, shortened, filled and stored back while it is encoded; the
run on `SnapshotIsWhole` has two units, whose lists move past one another. Deadlock is not
checked, since clients stop asking at `MaxRequests`.

For the cluster three instances let the partition go from one to another and back, and to
a third while the first is down; three records follow one another through the
channel of one place (instead of 256), the hand of the reader and the hub. To the group
a record is a record, so that it is enough if one engine plays; `doc_game_over_twice`
lets all of them play. One stop, of any instance at any moment, and a start at any moment after
it. Deadlock is not checked, since the turns are bounded by `MaxPlayed`.

*Fairness.* With `-auto`, the `select` loop of `main.go` (lines 80 to 98) calls
`ProcessTurn` whenever the timer fires, and a call that holds the mutex runs to
its end without blocking: `WF_vars(ProcessTurn)`. Players and the reset button
get no fairness. `GameEnds` excuses games that are reset for ever. The cfgs of the
boards leave deadlock checking on: orders and `Reset` are always possible between turns.
In `delivery` the hub's goroutine is fair, because its sends are non-blocking and it
waits for nothing but records; the handler of a client is fair as long as it reads,
which is what `Arrives` is about. `Arrives` excuses a bus that has been closed: main
closes it on its way out of the program.
In `pipelines` every goroutine is fair and the timeout is not: calls return without it.
In `server` a handler that can take its next step does, whoever is inside a turn ends the
fight it is in and leaves it, and the timer takes its turn; nobody has to ask for anything. A handler that
waits for the mutex gets no more than weak fairness, although Go's mutex does not
starve a waiter: a game has finitely many turns, so that in the end the mutex stays
free until the handler takes it. In `cluster`
producers, readers and hubs of running instances are fair, and the group notices who comes and goes;
nobody has to start a stopped instance again, and no commit by the timer is
needed.

### Where the documents say otherwise

Each of these runs refutes one sentence of the documents or comments; the
finding in `PROJECT.json` quotes it.

| Run | What the code does |
|---|---|
| `doc_mixed_attack` | orders of both sides against a region neither controls fight as one band |
| `doc_bearer_track` | the bearer's public entry, in every snapshot, shows its route and how far it has come, and `RouteBlocked` the path it stands before; the hub sends both to the Dark Side, who can read the bearer's region off them without a detection |
| `doc_silent_truncation` | the timeout closes the workers' channel, and when the caller sees the close first, an interception plan that was cut short is not marked partial |
| `doc_torn_snapshot` | a turn that runs while a snapshot is encoded changes the arrays it shares: the answer lists in a region somebody else than was listed there under the mutex |
| `doc_game_over_twice` | each instance plays a game of its own and announces its end on the shared topic |

More sentences are not kept, and have no run of their own:

* a respawned unit is sent home without being put in the list of units "physically
  present" there (`state.go:53`); a defender that has fallen and was "dropped"
  from the list (`engine.go:499`) comes back with the copy of the region stored after the fight; an attacker
  that a failed attack sends away stays listed. `ListedUnlessReborn` and `NoGhosts` are what does
  hold of the lists;
* "No Dark Side unit is present in `mount-doom`" (`TermProject_RingOfTheMiddleEarth.md:43`)
  is decided by that list, so that a unit listed there and respawned at home denies
  the Light Side its win; and `DESTROY_RING` is accepted from anywhere, which line 468 does not
  allow. `ResultMatchesBoard` is the half of the win condition that holds;
* `stripBroadcast`, which "blanks the Ring Bearer's region in a serialized broadcast"
  (`hub.go:99`), decodes every broadcast as a snapshot: the Dark Side's `GameOver` has lost winner
  and cause, which `Delivery` does not follow;
* "A path remains BLOCKED only while the blocking unit stays" (`path.go:61`) until
  step 3 of the next turn, since units advance after step 3; `PathCoherent` is what remains;
* Sauron, who "Never moves" (line 316 of the same document), takes a route as any unit does;
* every snapshot on `game.broadcast` carries the region that "travels ONLY on
  game.ring.position" (`router.go:23`) until the hub blanks it, which is what
  `Secrecy` is about; and the answers of `/game/tick` and `/game/reset` are stripped for neither side;
* "Use the lowest-risk canonical route" (`server.go:196`): all routes are pooled;
* instances are neither "stateless" nor rebuilt from `game.session` (`ARCHITECTURE.md:75-79`, `86-87`):
  `Start` in `Cluster` is the code's fresh engine at turn 1.

A ranking may also be marked partial when nothing is missing (both cases of the
`select` are ready), and equal scores of a Nazgul are decided by arrival; neither
is contradicted by a sentence. Nor is it said what a route of paths that do not touch
should do: the unit jumps to the path's `to` (`engine.go:388`), as `FarEnd` says.

## 4. What is proved

All theorems about the engine hold for every value of the constants that satisfies

* `UnitsAssumption`: finitely many units, in the order of `UnitOrder`, exactly one
  of class `RingBearer`, positive strengths, and positive respawn times of the units
  that respawn. `units.json` is so: 11 of its 13 units do not respawn and have a
  `respawnTurns` of 0, the other two have 3. `config.Load` checks none of it: it
  refuses an empty list and a repeated id;
* `MapAssumption`: paths join regions of the map, `""` is no id;
* `NazgulAssumption`: no unit of class `Nazgul` can fortify, as in `units.json`: a
  Nazgul deployed to an id that is not on the map could otherwise fortify there, which
  replaces the entry of `""`. Only `NobodyIsLost` and `ResultsAreRight` need it;
* `TurnsAssumption`: `MaxTurns` at least 1;
* `OrdersAssumption`: an order is a record of the right type and names, as its
  target region, a region of the map, none, or a stray id.

Those about delivery hold for any set of clients on either side, any capacities of
at least one, any number of records (`ClientsAssumption`, `CapacityAssumption`), and
regions and paths that are not `""` (`PlaceAssumption`). Those about the pipelines hold for any
workers, of which there is one (`WorkerAssumption`), any capacity of at least
one (`CapAssumption`), and any calls with scores that are fractions
(`CandidateAssumption`, `TaskAssumption`); the one about the searches for any finite maps
whose regions have names and whose costs are natural numbers (`MapsAssumption`; `NewMap` checks
neither, nor that no two paths have one id; all paths of `map.json` are so, and a sum of costs is
taken to fit in an `int`). Those about the server hold for any clients, units,
start regions and bounds, with a timer that is no client and neither of them called
`Nobody` (`TimerAssumption`), start regions on the map (`HomeAssumption`), and units and
regions whose ids are not `""` (`OrderAssumption`); those about the cluster for any instances none of which is
`Nobody` (`InstanceAssumption`), any capacity and any bounds.

| Theorem | States |
|---|---|
| `TypesAreCorrect` (`EngineTypes`) | `Spec => []TypeOK` |
| `EngineImplementsMatch` (`GameProofs`) | `Spec => Match!Spec` |
| `GameOverIsAnnouncedOnce` (`GameProofs`) | `Spec => []AnnouncedOnce` |
| `StartIsHidden` (`GameProofs`) | `Spec => []HiddenStart` |
| `TheBearersEntry` (`GameProofs`) | `Spec => []BearerEntry` |
| `UnitsAreCoherent`, `TheFallenStayFallen` (`BoardProofs`) | `Spec => []UnitCoherent`, `Spec => Lifecycle` |
| `PathsAreCoherent`, `CorruptionStays` (`BoardProofs`) | `Spec => []PathCoherent`, `Spec => CorruptionIsPermanent` |
| `OrdersAreUnique` (`BoardProofs`) | `Spec => []OneOrderPerUnit` |
| `PathOrdersHold`, `AbilitiesStayReady` (`BoardProofs`) | `Spec => []PathOrdersAtEndpoint`, `Spec => []AbilitiesReady` |
| `TimersAreTicked`, `TargetsStayHostile` (`BoardProofs`) | `Spec => []TimersTicked`, `Spec => []TargetsHostile` |
| `NobodyIsLost`, `NobodyIsInTwoPlaces` (`GameProofs`) | `Spec => []ListedUnlessReborn`, `Spec => []NoGhosts` |
| `ResultsAreRight` (`GameProofs`) | `Spec => []ResultMatchesBoard` |
| `HubNeverPanics`, `RegionOnlyByDetection` (`DeliveryProofs`) | `Spec => []NeverPanics`, `Spec => []Secrecy` |
| `DeliveryImplementsFeed`, `NoRecordVanishes` (`DeliveryProofs`) | `Spec => Feed!Spec`, `Spec => []NothingVanishes` |
| `ChannelsAreBounded` (`DeliveryProofs`) | `Spec => []TypeOK` |
| `NoCandidateIsLost`, `PlanIsBest` (`PipelineProofs`) | `Spec => []HeldOnce`, `Spec => []BestOfAll` |
| `PipelineImplementsSurvey` (`PipelineProofs`) | `Spec => Survey!Spec` |
| `RankingIsWhole` (`PipelineProofs`) | `Spec => []WholeRanking` |
| `SearchesFindTheBest` (`PipelineProofs`) | `Spec => []SearchesAreShortest` |
| `AnswersMatchRecords`, `AcceptedIsPlayedOnce` (`ServerProofs`) | `Spec => []RecordsMatchAnswers`, `Spec => []PlayedOnce` |
| `ListsNameTheirOwn` (`ServerProofs`) | `Spec => []ListsNameVisitors` |
| `ClientsSeeOrder`, `NoneShownTwice` (`ClusterProofs`) | `Spec => []ShownInOrder`, `Spec => []RepeatedOnlyAfterStop` |
| `NoRecordIsSkipped`, `EachLifeIsOrdered` (`ClusterProofs`) | `Spec => []NothingSkipped`, `Spec => []EachLifeInOrder` |

*Types.* `TypeOK` is not inductive. `Fight` reads the side of the first attacker
of a target, and there is one only because every target left was named by an
attack order still pending; outside step 8 no target is left. `TypeInv` adds
exactly that (`Targeted`). The work is in lemmas: that ranks
enumerate a finite set of positions (`RankIsOnto`), hence that `Pick` selects
what it should (`PickProperties`), that each rule keeps the record type it
updates, that the power of a group is a natural number. `ValidOrder` turns the string tests of `Validate` into what a turn relies on
(`Accepted`): route orders have routes on the map, path orders a path, attacks a
region.

*Refinement.* `GameInv` links engine and `Match`: a turn is in progress only
while the game is undecided, and until `HiddenUntilTurn` the bearer is not
exposed. Every action but three is a stuttering step (`QuietSteps`,
`DetectingSteps`); `FinishTurn` is `Play` or `End` (`WinIsAllowed`: a capture
needs an exposed bearer, hence a later turn; a draw needs `MaxTurns`); `Reset` is
`Restart`.

*The bearer's entry.* That it names no region (`BearerHidden`) is preserved only if the bearer
never gets into a fight. It does not, because `Validate` refuses any attack order of a unit
whose public region is not next to the target, and the bearer's public region is
`""`, which no path touches (`NoBearerAttack`); so bands, defenders, and the
array stored by `Conquer` never name it (`BearerApart`). That its route is RB's, and that the
bearer is at an end of the last path it took, is `RouteInv`: a new route starts at
index 0 in both records (`Rerouted`), and step 7 advances both by the same path.

*Units, paths and orders.* Each of these invariants is inductive together with
`TypeInv`, and speaks of one record at a time, so the proofs do, too.
`UnitChange` lists what any step of a turn may do to a unit: leave its life
alone, `ApplyDamage` with positive damage, or `TickUnit` (`UnitSteps`, one case
per action). That each of the three keeps a unit coherent and the fallen fallen
is arithmetic on one record (`DamageSane`, `TickSane`, `SameLifeSane`); a unit a
stale list names twice may be hit again after it has fallen, and `DamageSane`
covers that. `PathChange` and `PathSane` do the same for paths, where
`CorruptPathSaruman` needs `~sarumanDisabled`. For orders only `Submit`,
`FinishTurn` and `Reset` matter, and `Submit` appends no unit that is in `seen`.

*What `Validate` saw.* `PathOrdersAtEndpoint` is inductive with the types alone: nothing
moves a unit between intake and step 3. `AbilitiesReady` needs what
was true at intake (`AbilityInv`), and that the orders step 6 works through are of
different units (`OneOrderPerUnit`): only the use of an ability sets a cooldown.
`TargetsHostile` needs `HostileInv`: the target of a fight is out of `targets`
once the fight has begun, and `Conquer`, the only step that gives a region to a
side, gives this one; each other target left is of another region, in
whatever order they are taken. `TimersTicked` is a property of the time between two
turns; `TimerInv` carries it from the ticking (steps 9 to 11) through steps 12
and 13, bounds a cooldown by the configured one at any time, and takes from
`PathCoherent` that only a temporarily open path has turns left.

*The lists.* The copy of the region that `Conquer` stores back is stale, and a stale
list could lose a unit. `ListInv` says why it does not: `remove()` only shifts and shortens, so that at
every step of the damage the live list is no longer than the copy and names nobody the copy
does not (`Covered`); and units other than Nazgul are on the map or nowhere, so that only
a Nazgul's deployment uses a stray id (`OnTheMap`). `ResultMatchesBoard` follows
from this at the step that decides the game: the engine reads the list of Mount Doom, the property
the units, and who is active there and not reborn is in the list.

`NoGhosts` needs the converse: a unit that does not respawn leaves the list it is on with
every step that changes its region, and the copy `Conquer` stores names no such unit that is
active elsewhere (`GhostInv`): nobody moves between the copy and the store, and whoever has
fallen there does not rise again.

*Delivery.* `NeverPanics` follows from `Registration`: a channel is registered
exactly while its handler reads, and closed only after that, which is the reason
why `unsubscribe` may close outside the mutex. `Secrecy` speaks of the clients'
channels only; it is inductive together with `Hidden`, which follows a record
from the bus on: in the hub's queue only three topics show a region (`Routable`),
the position never gets to the second fan-out, `stripBroadcast` blanks what does
(`StripShown`), and no channel of the Dark Side is registered with the Light Side.

That `Delivery` implements `Feed` needs order at every place a record waits
(`InOrder`): ids rise in the hub's queue, and the hub's record precedes them all
(`HubInOrder`); they rise in a client's channel, follow what the client was shown,
and do not pass the hub's record, staying strictly before it as long as the hub
`Awaits` to send it to that client (`ClientInOrder`). `Produce` is then a step
`Produce` of `Feed` and `Read` a step `Show`; every other step is a stuttering
step. `AllKept` is `NothingVanishes` made inductive by nothing more than the type of
`since`, given the three invariants before: between the two fan-outs a record is
`AtHub` for the Dark Side only, and a reader is registered with its own side
(`ReadersAreRegistered`).

`ChannelsAreBounded` adds to these that every non-blocking send looks for room
first (`Bounded`).

*Pipelines.* `HeldOnce` is inductive with the types (`Places`): a candidate goes from the
dispatcher's loop to the channel, to one worker's hands, and to what was collected, and
leaves each place as it enters the next. For the refinement, a call that answers
without the timeout has seen the close; the channel is closed only when all workers are done,
a worker is done only when `in` is empty and its dispatcher has ended, or when the context is
(`Ending`); so nothing is left in a channel or a hand, and by `HeldOnce` everything has arrived
(`ClosedMeansAll`). `BestSoFar` is the loop invariant of the caller of `RunIntercept`: one
entry for each Nazgul, and none of its scores that arrived is better, whatever the
order of arrival. `WholeRanking` needs that as many
results as candidates are all of them, since nothing is gathered twice (`AllRanked`), that the
answer was made of what was gathered (`RankedOnce`), and that sorting loses nothing:
`Ranked` puts an entry at the number of entries before it, these places are one to one
since ties go by arrival (`PlacesInOrder`), hence `RankedSorts`, for rankings of any length.

*Searches.* An invariant of each loop says what it has found so far, in terms of routes that
`BuildRoute` accepts (`Reached`), so that an answer is never too low. That it is not too high
needs more. For `Hops` (`HopInv`) the distances in the queue never fall and no distance is
more than one above the first of them, hence each region that is visited has neighbours at most
one further away, and a distance once noted is final. For `ShortestCost` (`CostInv`) a cost may still
be lowered while an entry for it is in the heap; a region is settled when its last entry is gone,
no settled region costs more than any entry left, and an edge out of a settled region costs at
least what it leads to (costs are not negative); an outdated entry changes nothing. Following any route from its start, its
regions cannot then have been missed, nor be cheaper than what was found (`HopsBound`,
`CostBound`). The loops do end by their own conditions: a turn visits a region
that is never queued again; a turn of the second takes an entry off the heap, and puts
entries on it only when it settles a region, which it does once each (`HopsLoop`, `CostLoop`).
What the searches find is stated for any map and any two regions (`HopsAreFewest`,
`CostIsCheapest`); the property only looks at the maps of the run.

*Server.* A client waits for its answer before it asks again, and an order carries its
client and the number of its request; so an order that arrives is new everywhere, and the
orders in two handlers' hands differ (`AsksDiffer`). `InHand` says what is known of an order
in its handler's hands, and `RecordsMatchAnswers` is inductive with it. `PlayedOnce` needs
why the engine takes no second order of a unit in a turn, although turns and resets clear
`seen` while handlers wait: `seen` remembers every unit of this game and turn
(`Remembered`), a turn that goes on raises the turn, a game that ends does so once, since
no turn begins after it, and a reset raises the game. `QueueEnds` is the step both a turn
and a reset make of all orders in the queue at once.

`ListsNameVisitors` is about what a snapshot keeps although its arrays are written over. A
slice is `Sound` for a region if it stays inside its array, all it shows are units that the
region's list has held, and no other region's list lies in its array. Every region's own
slice is so at every step of a turn (`Laid`). A step writes a unit only into the array of the
list of a region it was in, never shortens an array, and lists a region only in its own or a
fresh one (`Proper`); hence whatever slice was sound once is sound ever after
(`ProperCarries`): those a snapshot copied, and the one `resolveCombat` did, which `Conquer`
may therefore store back however stale it is. `remove`, `append` and `seed`, a loop over the
units, are each shown to be so (`RemoveFromLaid`, `AppendToLaid`, `SeededLaid`). The lengths
an answer shows are those of the slices, copied under the mutex (`Right`). What the arrays hold
by then is another matter: `doc_torn_snapshot`.

*Cluster.* What an instance holds is what it has shown and what is on its way to its hub.
`GroupInv` puts bounds on it (`Behind`): nobody holds a record at or past `position`, and an
instance that does not own the partition holds none from where the next owner would begin
if the one there is now vanished, which is after the last offset *stored*. A rebalance
keeps this because a member that lives stores its position as it gives the partition up, and
one that does not is down, and holds nothing. That a new life of an instance is not taken
for the member it was before is `LivesInOrder`. Hence the sets instances hold are disjoint
(`Apart`) and each is read in rising order (`Orderly`). `NothingSkipped` follows because a
record once located is located for ever (`LocatedStays`), and `position` passes only records
that are read, or goes back. For `EachLifeInOrder` the log, the producer's queue and the engine
form one line (`QueueOf`, `Ahead`): each record of a life stands in the relation
`Succession` to all behind it.

*Only model-checked:* liveness under fairness, which the prover does not support
(`TurnCompletes`, `GameEnds`, `Arrives`, `NoLeak`, `Answered`, `AcceptedIsPlayed`,
`ShownSomewhere`). Every safety invariant, action property and refinement the passing runs
check is also a theorem.

## 5. Not modelled

* `internal/router` (`EventRouter`, `WorldStateCache`): no program constructs
  one, only tests do. The hub repeats the `switch` of `Route` with sends that do not
  block, and it is the hub that `Delivery` models.
* `ThreatPath`, `ClearPath`, `AutoAdvance`: called by tests only. The warnings of a
  ranking: text beside the score.
* Reading and checking the JSON files (`Load`, `LoadMap`): I/O; what the rules rely on is
  in the assumptions of `GameRules`. The topics and schemas of Kafka are the
  configuration of an external service; failures of the broker and full producer
  queues, which the code does not handle, are left out of `Cluster`.
* HTTP headers and CORS, the health check and the configuration endpoints, which read
  constants; the four channels of the main loop that nobody feeds; the three seconds open
  requests are given at the end.
* The browser UI, which holds no rule of the game, `demo.ps1` and the other scripts.
