---------------------------- MODULE MCPipelines ----------------------------
(***************************************************************************)
(* The pipelines for TLC, fed by the handlers of server.go: the last part  *)
(* of the map, with its costs and threats, the canonical routes across it, *)
(* and snapshots that differ in where the Nazgul are and what they block.  *)
(***************************************************************************)
EXTENDS PipelineProps

Link(a, b, c) == [from |-> a, to |-> b, cost |-> c]

MordorMap ==
  [p \in {"dead-marshes-to-ithilien", "dead-marshes-to-mordor", "ithilien-to-cirith-ungol",
          "cirith-ungol-to-mordor", "cirith-ungol-to-mount-doom", "mordor-to-mount-doom"} |->
     CASE p = "dead-marshes-to-ithilien" -> Link("dead-marshes", "ithilien", 1)
       [] p = "dead-marshes-to-mordor" -> Link("dead-marshes", "mordor", 2)
       [] p = "ithilien-to-cirith-ungol" -> Link("ithilien", "cirith-ungol", 2)
       [] p = "cirith-ungol-to-mordor" -> Link("cirith-ungol", "mordor", 1)
       [] p = "cirith-ungol-to-mount-doom" -> Link("cirith-ungol", "mount-doom", 2)
       [] OTHER -> Link("mordor", "mount-doom", 1)]

Threat ==
  [r \in {"dead-marshes", "ithilien", "cirith-ungol", "mordor", "mount-doom"} |->
     IF r \in {"mordor", "mount-doom"} THEN 5 ELSE IF r = "cirith-ungol" THEN 4 ELSE 2]

\* The canonical routes 2 and 3 from the Dead Marshes on, and one that does not
\* start where the bearer would be.
Bypass == [id |-> "route-2", start |-> "dead-marshes",
           paths |-> <<"dead-marshes-to-ithilien", "ithilien-to-cirith-ungol",
                       "cirith-ungol-to-mount-doom">>]
Dark == [id |-> "route-3", start |-> "dead-marshes",
         paths |-> <<"dead-marshes-to-mordor", "mordor-to-mount-doom">>]
Twisted == [id |-> "route-x", start |-> "dead-marshes",
            paths |-> <<"dead-marshes-to-mordor", "cirith-ungol-to-mordor",
                        "cirith-ungol-to-mount-doom">>]
Broken == [id |-> "route-y", start |-> "dead-marshes", paths |-> <<"mordor-to-mount-doom">>]

Clear == [p \in DOMAIN MordorMap |-> [status |-> "OPEN", surveillance |-> 0]]
Watched ==
  [Clear EXCEPT !["mordor-to-mount-doom"] = [status |-> "BLOCKED", surveillance |-> 1],
                !["ithilien-to-cirith-ungol"] = [status |-> "THREATENED", surveillance |-> 0]]

Nazgul(id, r) == [id |-> id, active |-> r # "", region |-> r]

\* A Nazgul is anywhere, also off the map, or not ACTIVE; another is near the end.
Snapshots ==
  [paths : {Clear, Watched}, threat : {Threat},
   nazgul : {<<Nazgul("nazgul-2", r), Nazgul("nazgul-3", q)>> :
               r \in DOMAIN Threat \cup {"nowhere", ""}, q \in {"mount-doom", "ithilien", ""}}]

Calls ==
  [kind : {"risk"},
   jobs : {RiskCandidates(MordorMap, <<Bypass, Dark, Broken, Twisted>>, s) : s \in Snapshots}]
  \cup
  [kind : {"intercept"},
   jobs : {InterceptCandidates(MordorMap, <<Broken, Dark>>, s) : s \in Snapshots}]

Candidates ==
  [id : {"route-2", "route-3", "route-x", "nazgul-2", "nazgul-3"}, target : DOMAIN Threat \cup {""},
   score : [num : -9..60, den : 1..3]]

-----------------------------------------------------------------------------
(* The maps of the searches *)

\* All graphs over four regions with up to five paths of costs 0, 1 and 3.
Pairs == {<<"a", "b">>, <<"b", "c">>, <<"c", "d">>, <<"d", "a">>, <<"a", "c">>}
Graphs ==
  {[p \in DOMAIN g |-> Link(p[1], p[2], g[p])] :
     g \in UNION {[ps -> {0, 1, 3}] : ps \in SUBSET Pairs}}
=============================================================================
