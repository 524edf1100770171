--------------------------- MODULE PipelineProps ---------------------------
(***************************************************************************)
(* What must hold of a call of an analysis pipeline, however its goroutines*)
(* and its timeout interleave.                                             *)
(***************************************************************************)
EXTENDS Pipelines, Routes

CONSTANT Maps   \* the maps a server may be started with

\* Paths join regions that have a name, and none of them costs less than nothing.
ASSUME MapsAssumption ==
  \A m \in Maps :
    /\ IsFiniteSet(DOMAIN m)
    /\ \A p \in DOMAIN m : m[p].from # "" /\ m[p].to # "" /\ m[p].cost \in Nat


JobNumbers == 1..Len(Jobs)

\* Where candidate j is.
InChannel(j) == \E k \in DOMAIN in : in[k] = j
InHand(w, j) == worker[w] = Holding(j)
Arrived(j) == \E k \in DOMAIN collected : collected[k] = j

\* A candidate that was dispatched is in one place: the channel, one worker's
\* hands, or among the scores that arrived, and in none of them twice.  It is
\* nowhere only if its worker, or the dispatcher, gave up on a done context.
HeldOnce ==
  /\ \A k, l \in DOMAIN in : in[k] = in[l] => k = l
  /\ \A k, l \in DOMAIN collected : collected[k] = collected[l] => k = l
  /\ \A v, w \in Worker : \A j \in JobNumbers : InHand(v, j) /\ InHand(w, j) => v = w
  /\ \A j \in JobNumbers :
       /\ InChannel(j) \/ (\E w \in Worker : InHand(w, j)) \/ Arrived(j) => j < next
       /\ ~(InChannel(j) /\ Arrived(j))
       /\ \A w \in Worker : InHand(w, j) => ~InChannel(j) /\ ~Arrived(j)
       /\ j < next /\ ~CtxDone =>
            InChannel(j) \/ Arrived(j) \/ \E w \in Worker : InHand(w, j)

\* A ranking that is not marked partial ranks every candidate, and recommends
\* one that no candidate of the call undercuts (RunRouteRisk, lines 127 to 137).
WholeRanking ==
  answer.ready /\ task.kind = "risk" /\ ~answer.partial =>
    /\ Len(answer.ranked) = Len(Jobs)
    /\ Range(answer.ranked) = Range(Jobs)
    /\ \A j \in JobNumbers : ~Below(Jobs[j].score, answer.ranked[1].score)

\* The plan names each unit once, with a score that no score of the unit that
\* arrived exceeds, and in a call that did not time out no score at all.
BestOfAll ==
  answer.ready /\ task.kind = "intercept" =>
    /\ \A e, f \in answer.byUnit : e.id = f.id => e = f
    /\ \A j \in JobNumbers : Arrived(j) \/ ~expired =>
         \E e \in answer.byUnit : e.id = Jobs[j].id /\ ~Below(e.score, Jobs[j].score)

\* The goroutines, whatever they do, implement Survey.
Gathering ==
  INSTANCE Survey WITH Calls <- {Len(t.jobs) : t \in Task}, size <- Len(Jobs),
                       gathered <- Range(collected), answered <- answer.ready
SurveySpec == Gathering!Spec

\* The call returns, even if the timeout never fires, and no goroutine is left
\* behind: the dispatcher, the workers and the goroutine that waits for them all
\* end, whatever the caller no longer receives (ARCHITECTURE.md:50).
NoLeak ==
  <>(answer.ready /\ ~dispatching /\ outClosed /\ \A w \in Worker : worker[w] = Done)

-----------------------------------------------------------------------------
(* What a comment says and the code does not do: refuted by a run. *)

\* intercept.go:49: RunIntercept keeps "the best-scoring target region per
\* Nazgul": unless it is marked partial a plan has, for every Nazgul of the call,
\* a target no other scores better than.
PlanNamesTheBest ==
  answer.ready /\ task.kind = "intercept" /\ ~answer.partial =>
    \A j \in JobNumbers :
      \E e \in answer.byUnit : e.id = Jobs[j].id /\ ~Below(e.score, Jobs[j].score)

-----------------------------------------------------------------------------
(* The searches *)

\* What BuildRoute says of a sequence of paths, and where it ends.
RouteOf(m, a, ps) == BuildRoute("", m, a, ps)
LeadsTo(m, a, ps, b) ==
  RouteOf(m, a, ps).ok /\ b = IF ps = <<>> THEN a ELSE RouteOf(m, a, ps).dests[Len(ps)]

\* The routes from a to b that enter no more regions than there are.
RoutesTo(m, a, b) ==
  {ps \in UNION {[1..n -> DOMAIN m] : n \in 0..(Visits(m, a) - 1)} : LeadsTo(m, a, ps, b)}

\* Of the routes BuildRoute accepts from a to b, Hops counts the paths of a
\* shortest one and ShortestCost is the cost of a cheapest one, and both say so
\* when there is none (map.go, lines 105 and 133).
Shortest(m, a, b) ==
  LET routes == RoutesTo(m, a, b) IN
    \/ routes = {} /\ Hops(m, a, b) = Unreachable /\ ShortestCost(m, a, b) = Unreachable
    \/ /\ \E ps \in routes : Hops(m, a, b) = Len(ps)
       /\ \E ps \in routes : ShortestCost(m, a, b) = RouteOf(m, a, ps).cost
       /\ \A ps \in routes :
            /\ Hops(m, a, b) <= Len(ps)
            /\ ShortestCost(m, a, b) <= RouteOf(m, a, ps).cost

\* Looked at once, when a call without candidates starts.
SearchesAreShortest ==
  Jobs = <<>> /\ dispatching /\ ~expired =>
    \A m \in Maps : \A a, b \in Regions(m) : Shortest(m, a, b)
=============================================================================
