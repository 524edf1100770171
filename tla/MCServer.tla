------------------------------ MODULE MCServer ------------------------------
(***************************************************************************)
(* Two players and the turn timer for TLC, one or two units between Mordor *)
(* and Mount Doom.                                                         *)
(***************************************************************************)
EXTENDS ServerProps

Pair == <<"nazgul-2", "nazgul-3">>
Alone == <<"nazgul-2">>
Mordor == <<"mordor", "mount-doom">>
Uneven == [c \in Client |-> IF c = "light" THEN 2 ELSE 1]
Twice == [c \in Client |-> 2]
AllInMordor == [u \in Unit |-> "mordor"]
=============================================================================
