--------------------------- MODULE DeliveryProps ---------------------------
(***************************************************************************)
(* What must hold of the way from the engine to the players.               *)
(***************************************************************************)
EXTENDS Delivery

IsDark(c) == SideOf[c] = "dark"

Records ==
  [id : Nat, topic : HubTopics \cup {"game.orders.raw", ""},
   type : {"RingBearerMoved", "RingBearerDetected", "RingBearerSpotted", "GameOver",
           "WorldStateSnapshot", "RouteBlocked", "UnitMoved", "OrderSubmitted", ""},
   region : Place \cup {""}, track : Track \cup {""}]

\* The channels never hold more than they were made for.
TypeOK ==
  /\ inbox \in Seq(Records) /\ Len(inbox) <= BusCap
  /\ closed \in BOOLEAN /\ panicked \in BOOLEAN
  /\ phase \in {"receive", "light", "dark"} /\ msg \in Records
  /\ light \subseteq Client /\ dark \subseteq Client /\ shut \subseteq Client
  /\ chan \in [Client -> Seq(Records)] /\ \A c \in Client : Len(chan[c]) <= ClientCap
  /\ handler \in [Client -> {"none", "reading", "closing", "gone"}]
  /\ got \in [Client -> Seq(Records)]
  /\ produced \in Seq(Records)
  /\ since \in [Client -> 0..MaxRecords]

\* The hub never sends on a channel its client has closed, however the
\* client's leaving and a fan-out interleave.
NeverPanics == ~panicked

\* Nothing on its way to a client of the Dark Side, nor anything it was sent, names
\* the bearer's region, except a detection.  Its route is another matter: see
\* DarkNeverTracks.
Secrecy ==
  \A c \in Client : IsDark(c) =>
    \A m \in Range(chan[c]) \cup Range(got[c]) :
      m.region # "" => m.topic = Detection

\* Where record k is for client c.
Sent(c, k) == \E m \in Range(chan[c]) \cup Range(got[c]) : m.id = k
Queued(k) == \E m \in Range(inbox) : m.id = k
AtHub(c, k) == msg.id = k /\ (phase = "light" \/ (phase = "dark" /\ IsDark(c)))
Dropped(c, k) == <<k, "bus">> \in lost \/ <<k, c>> \in lost

For(c, m) == m.topic \in HubTopics \ {IF IsDark(c) THEN Position ELSE Detection}

\* Every record for a side, produced after a client of that side has registered,
\* is sent to that client or still on its way, unless a full channel dropped it.
NothingVanishes ==
  \A c \in Client : handler[c] = "reading" =>
    \A k \in since[c] + 1 .. Len(produced) : For(c, produced[k]) =>
      Sent(c, k) \/ AtHub(c, k) \/ Queued(k) \/ Dropped(c, k)

\* Bus, hub and handlers implement the abstract stream of a player.
Stream == INSTANCE Feed WITH DarkClient <- {c \in Client : IsDark(c)}, stream <- got
FeedSpec == Stream!Spec

\* What has reached the hub's channel is sent to every client that goes on
\* reading, unless that client's channel is full, or main closes the bus, on its
\* way to the end of the program.
Arrives ==
  \A c \in Client, k \in 1..MaxRecords :
    (handler[c] = "reading" /\ Queued(k) /\ For(c, produced[k])) ~>
      (handler[c] # "reading" \/ closed \/ <<k, c>> \in lost
         \/ \E m \in Range(got[c]) : m.id = k)

-----------------------------------------------------------------------------
(* What a document says and the code does not do: refuted by a run. *)

\* "The Dark Side player never sees the Ring Bearer's position unless a detection
\* event fires" (TermProject, 64; router.go:2): what shows the bearer's region, or
\* a path it is at an end of, comes to the Dark Side on the detection topic only.
DarkNeverTracks ==
  \A c \in Client : IsDark(c) =>
    \A m \in Range(got[c]) : m.region # "" \/ m.track # "" => m.topic = Detection
=============================================================================
