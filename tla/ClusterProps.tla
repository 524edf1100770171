---------------------------- MODULE ClusterProps ----------------------------
(***************************************************************************)
(* What must hold of the instances, whichever of them stops and starts and *)
(* however the group deals the partition.                                  *)
(***************************************************************************)
EXTENDS Cluster

Seen(k) == k \in past \/ \E i \in Instance : k \in Range(shown[i])

\* Within a life of an instance its engine announces the end of its game once, after
\* which it shows no later turn, and its records are logged in the order of its turns.
EachLifeInOrder ==
  \A j, k \in DOMAIN log :
    j < k /\ log[j].by = log[k].by /\ log[j].life = log[k].life =>
      /\ log[j] # log[k] /\ log[j].turn <= log[k].turn
      /\ log[j].type = "GameOver" => log[k].turn = log[j].turn

\* No record that the group has read past is forgotten: it was shown, is on its way
\* to a hub, or was on its way when the instance stopped.
NothingSkipped ==
  \A k \in 1..position - 1 :
    Seen(k) \/ k \in lost \/ \E i \in Instance : k \in Range(out[i])

\* The clients of an instance get the records in their order and once each, however
\* often the partition goes to other instances and comes back.
ShownInOrder ==
  \A i \in Instance : \A j, k \in DOMAIN shown[i] : j < k => shown[i][j] < shown[i][k]

\* Two instances that are up have never shown the same record: one is repeated only
\* when the instance that showed it has stopped.
RepeatedOnlyAfterStop ==
  \A i, j \in Instance : i # j => Range(shown[i]) \cap Range(shown[j]) = {}

\* Every record of the log reaches the clients of some instance, or an instance
\* stopped with it in its hands.
ShownSomewhere == []<>(\A k \in DOMAIN log : Seen(k) \/ k \in lost)

-----------------------------------------------------------------------------
(* What the docs say and the code does not do: refuted by a run. *)

\* TermProject_RingOfTheMiddleEarth.md:707: GameOver "must appear exactly once in
\* game.broadcast even if the game engine crashes and restarts".
GameOverAtMostOnce == Cardinality({k \in DOMAIN log : log[k].type = "GameOver"}) <= 1
=============================================================================
