------------------------------- MODULE Routes -------------------------------
(***************************************************************************)
(* The map's searches (internal/game/map.go) and the pure functions of the *)
(* analysis pipelines: BuildRoute, RouteRiskScore, InterceptScore, and the *)
(* candidates the two handlers of server.go make of them.                  *)
(*                                                                         *)
(* A map is a function from path ids to their [from, to, cost]; the        *)
(* adjacency NewMap builds goes both ways.  The order of the adjacency     *)
(* lists and of equal entries in the heap changes no result.               *)
(***************************************************************************)
EXTENDS Integers, Sequences, FiniteSets, FiniteSetsExt, SequencesExt, Slices

Unreachable == 1073741824   \* 1 << 30

\* The edges that leave region r: adj[r].
EdgesFrom(m, r) ==
  {[to |-> m[p].to, cost |-> m[p].cost] : p \in {q \in DOMAIN m : m[q].from = r}}
    \cup {[to |-> m[p].from, cost |-> m[p].cost] : p \in {q \in DOMAIN m : m[q].to = r}}

\* The regions that paths join; a search may start at another one.
Regions(m) == {m[p].from : p \in DOMAIN m} \cup {m[p].to : p \in DOMAIN m}
Visits(m, a) == Cardinality(Regions(m) \cup {a})

-----------------------------------------------------------------------------
(* Hops: breadth first, until b is seen or the queue is empty.             *)

\* One turn of the loop, for the first region of the queue.
Visit(m, b, s) ==
  IF s.queue = <<>> \/ b \in DOMAIN s.dist THEN s
  ELSE LET cur == Head(s.queue)
           fresh == {e.to : e \in EdgesFrom(m, cur)} \ DOMAIN s.dist
       IN [dist |-> [r \in DOMAIN s.dist \cup fresh |->
                       IF r \in DOMAIN s.dist THEN s.dist[r] ELSE s.dist[cur] + 1],
           queue |-> Tail(s.queue) \o SetToSeq(fresh)]

\* The loop queues no region twice, so that it has ended after Visits(m, a) turns.
Hops(m, a, b) ==
  LET loop[k \in 0..Visits(m, a)] ==
        IF k = 0 THEN [dist |-> [r \in {a} |-> 0], queue |-> <<a>>]
        ELSE Visit(m, b, loop[k - 1])
      dist == loop[Visits(m, a)].dist
  IN IF b \in DOMAIN dist THEN dist[b] ELSE Unreachable

-----------------------------------------------------------------------------
(* ShortestCost: Dijkstra with a heap that keeps outdated entries.         *)

\* Mutant: a region's first cost is kept, as Hops keeps its first distance.
Improves_FirstOnly(dist, r, cost) == r \notin DOMAIN dist

\* `old, ok := dist[e.to]; !ok || nd < old`
Improves(dist, r, cost) == r \in DOMAIN dist => cost < dist[r]

\* The edges of the entry cur are relaxed.
Relax(m, s, cur) ==
  LET better == {e \in EdgesFrom(m, cur.node) : Improves(s.dist, e.to, cur.dist + e.cost)}
      reached == {e.to : e \in better}
      cost == [r \in reached |-> cur.dist + Min({e.cost : e \in {f \in better : f.to = r}})]
  IN [dist |-> [r \in DOMAIN s.dist \cup reached |->
                  IF r \in reached THEN cost[r] ELSE s.dist[r]],
      heap |-> (s.heap \ {cur}) \cup {[node |-> r, dist |-> cost[r]] : r \in reached},
      found |-> s.found]

NotFound == -1

\* One turn of the loop, for a nearest entry of the heap.
Settle(m, b, s) ==
  IF s.heap = {} \/ s.found # NotFound THEN s
  ELSE LET cur == CHOOSE e \in s.heap : \A f \in s.heap : e.dist <= f.dist
       IN IF cur.node = b THEN [s EXCEPT !.heap = @ \ {cur}, !.found = cur.dist]
          ELSE IF cur.dist > s.dist[cur.node] THEN [s EXCEPT !.heap = @ \ {cur}]
          ELSE Relax(m, s, cur)

\* No region is relaxed twice, and none puts more entries on the heap than there
\* are regions.
Settles(m, a) == 1 + Visits(m, a) * Visits(m, a)

ShortestCost(m, a, b) ==
  LET loop[k \in 0..Settles(m, a)] ==
        IF k = 0
          THEN [dist |-> [r \in {a} |-> 0], heap |-> {[node |-> a, dist |-> 0]},
                found |-> NotFound]
          ELSE Settle(m, b, loop[k - 1])
      s == loop[Settles(m, a)]
  IN IF s.found # NotFound THEN s.found
     ELSE IF b \in DOMAIN s.dist THEN s.dist[b] ELSE Unreachable

-----------------------------------------------------------------------------
(* Routes and their risk *)

\* The region at the other end of a path, "" if the path does not touch cur.
Across(m, p, cur) ==
  IF p \notin DOMAIN m THEN ""
  ELSE IF cur = m[p].from THEN m[p].to
  ELSE IF cur = m[p].to THEN m[p].from ELSE ""

\* The regions a route enters, the one it starts from included.
Along(m, start, pathIDs) ==
  LET at[k \in 0..Len(pathIDs)] == IF k = 0 THEN start ELSE Across(m, pathIDs[k], at[k - 1])
  IN at

\* The regions BuildRoute visits, and the cost up to each of them.  `ok` is
\* FALSE for a route with a path that does not start where the last one ended.
BuildRoute(id, m, start, pathIDs) ==
  LET n == Len(pathIDs)
      at == Along(m, start, pathIDs)
      ok == \A k \in 1..n : at[k] # ""
      cost(k) == Summed(0, [j \in 1..n |-> m[pathIDs[j]].cost], k)
  IN [ok |-> ok, id |-> id, paths |-> pathIDs,
      regions |-> {at[k] : k \in 0..n}, dests |-> [k \in 1..n |-> at[k]],
      reach |-> IF ok THEN [k \in 1..n |-> cost(k)] ELSE <<>>,
      cost |-> IF ok THEN cost(n) ELSE 0]

Count(s, S) == Cardinality({k \in DOMAIN s : s[k] \in S})

\* The Nazgul within two hops of any region of the route, the start included.
Proximity(m, route, nazgul) ==
  Count(nazgul, {n \in Range(nazgul) : \E r \in route.regions : Hops(m, n, r) <= 2})

\* paths and threat are what the snapshot says of paths and regions.
RouteRiskScore(m, route, paths, threat, nazgul) ==
  Summed(0, [k \in DOMAIN route.dests |-> threat[route.dests[k]]], Len(route.dests))
    + 3 * Summed(0, [k \in DOMAIN route.paths |-> paths[route.paths[k]].surveillance],
                 Len(route.paths))
    + 5 * Count(route.paths, {p \in DOMAIN paths : paths[p].status = "BLOCKED"})
    + 2 * Count(route.paths, {p \in DOMAIN paths : paths[p].status = "THREATENED"})
    + 2 * Proximity(m, route, nazgul)

-----------------------------------------------------------------------------
(* Interception.  A score is a fraction: floating-point quotients of small *)
(* integers compare as the fractions do.                                   *)

InterceptScore(turnsToIntercept, rbTurnsToReach, routeLength) ==
  IF rbTurnsToReach - turnsToIntercept < 0 \/ routeLength <= 0 THEN [num |-> 0, den |-> 1]
  ELSE [num |-> routeLength - turnsToIntercept, den |-> routeLength]

-----------------------------------------------------------------------------
(* The handlers' candidates.  canon is canonicalRoutes(); a snapshot says  *)
(* of the paths, the regions' threat and the Nazgul, in config order.      *)

BuiltRoutes(m, canon) ==
  SelectSeq([k \in DOMAIN canon |-> BuildRoute(canon[k].id, m, canon[k].start, canon[k].paths)],
            LAMBDA r : r.ok)

Active(nazgul) == SelectSeq(nazgul, LAMBDA n : n.active)

\* analysisRoutes: one candidate per canonical route, scored by the workers.
RiskCandidates(m, canon, snap) ==
  LET routes == BuiltRoutes(m, canon)
      hunters == [k \in DOMAIN Active(snap.nazgul) |-> Active(snap.nazgul)[k].region]
  IN [k \in DOMAIN routes |->
        [id |-> routes[k].id, target |-> "",
         score |-> [num |-> RouteRiskScore(m, routes[k], snap.paths, snap.threat, hunters),
                    den |-> 1]]]

\* analysisIntercept: one candidate per canonical route, region entered on it and
\* active Nazgul, in this order.
InterceptCandidates(m, canon, snap) ==
  LET scored(route, k, n) ==
        [id |-> n.id, target |-> route.dests[k],
         score |-> InterceptScore(ShortestCost(m, n.region, route.dests[k]),
                                  route.reach[k], route.cost)]
      onRoute(route) ==
        FlattenSeq([k \in DOMAIN route.dests |->
          [j \in DOMAIN Active(snap.nazgul) |-> scored(route, k, Active(snap.nazgul)[j])]])
      routes == BuiltRoutes(m, canon)
  IN FlattenSeq([k \in DOMAIN routes |-> onRoute(routes[k])])
=============================================================================
