-------------------------------- MODULE Feed --------------------------------
(***************************************************************************)
(* What a player's event stream promises, whatever lies between the engine *)
(* and the player: it shows records that were produced, each at most once, *)
(* in the order of their production, and none that is for the other side.  *)
(* Records may be missing; nothing shown is ever taken back.               *)
(***************************************************************************)
EXTENDS Integers, Sequences

CONSTANTS Client, DarkClient

VARIABLES
  produced,   \* the records produced so far; a record's id is its position
  stream      \* what each client has been shown

vars == <<produced, stream>>

\* m names the bearer's region to a client of the Dark Side only if it is a
\* detection, and detections are for the Dark Side alone.
Permitted(c, m) ==
  IF c \in DarkClient
    THEN m.region # "" => m.topic = "game.ring.detection"
    ELSE m.topic # "game.ring.detection"

\* m is record m.id, perhaps with the bearer's region blanked on the way.
Genuine(m) ==
  /\ m.id \in DOMAIN produced
  /\ m.topic = produced[m.id].topic /\ m.type = produced[m.id].type
  /\ m.track = produced[m.id].track
  /\ m.region \in {"", produced[m.id].region}

Init == produced = <<>> /\ stream = [c \in Client |-> <<>>]

Produce ==
  /\ Len(produced') = Len(produced) + 1
  /\ LET r == produced'[Len(produced')] IN
       produced' = Append(produced, r) /\ r.id = Len(produced')
  /\ UNCHANGED stream

\* The client is shown a record later than all it was shown before.
Show(c) ==
  /\ Len(stream'[c]) = Len(stream[c]) + 1
  /\ LET m == stream'[c][Len(stream'[c])] IN
       /\ stream' = [stream EXCEPT ![c] = Append(@, m)]
       /\ Permitted(c, m) /\ Genuine(m)
       /\ \A k \in DOMAIN stream[c] : stream[c][k].id < m.id
  /\ UNCHANGED produced

Next == Produce \/ \E c \in Client : Show(c)

Spec == Init /\ [][Next]_vars
=============================================================================
