----------------------------- MODULE MCCluster ------------------------------
(***************************************************************************)
(* The instances of docker-compose.yml for TLC.  To the group a record is  *)
(* a record, whichever engine it is from: where the group is the question  *)
(* one engine plays, and the others only read.                             *)
(***************************************************************************)
EXTENDS ClusterProps

OnePlays == [i \in Instance |-> IF i = "go-1" THEN 3 ELSE 0]
AllPlay == [i \in Instance |-> 1]
=============================================================================
