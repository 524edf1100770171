------------------------------ MODULE Delivery ------------------------------
(***************************************************************************)
(* From the engine to the players: the in-memory bus (internal/bus/bus.go),*)
(* the hub that routes its records to the clients of each side             *)
(* (internal/api/hub.go), and the handlers of /events that read for them.  *)
(*                                                                         *)
(* The hub's lock is held during a whole fan-out and during a              *)
(* registration, so each of them is one action: the handlers' reads touch  *)
(* one channel each and commute with the sends to the others.  Produce is  *)
(* one send, for the hub is the bus's only subscriber.  A handler that     *)
(* leaves deletes its channel from the hub under the lock and closes it    *)
(* afterwards: two actions.                                                *)
(***************************************************************************)
EXTENDS Integers, Sequences, FiniteSets, Functions

CONSTANTS
  Client,      \* the connections to /events, each with a channel of its own
  SideOf,      \* the `side` parameter each of them is made with
  BusCap,      \* places in the hub's channel on the bus (256)
  ClientCap,   \* places in a client's channel (64)
  Place,       \* the regions the bearer may be in
  Track,       \* the paths its route may lead along
  MaxRecords   \* bound on the records produced

ASSUME ClientsAssumption == SideOf \in [Client -> STRING]
ASSUME CapacityAssumption ==
  BusCap \in Nat \ {0} /\ ClientCap \in Nat \ {0} /\ MaxRecords \in Nat
ASSUME PlaceAssumption == "" \notin Place \cup Track

VARIABLES
  inbox,       \* the channel the hub subscribed with
  closed,      \* MemoryBus.closed
  phase, msg,  \* Hub.Run: what it does with the record it has received
  light, dark, \* Hub.light, Hub.dark: the channels registered
  chan,        \* the records in each client's channel
  shut,        \* the client channels that have been closed
  handler,     \* where each handler of /events is
  panicked,    \* a send on a closed channel, which ends a Go program
  got,         \* history: what each client has been sent over HTTP
  produced,    \* history: the records produced
  since,       \* history: how many there were when the client registered
  lost         \* history: <<id, where>> of the records a full channel dropped

busVars == <<inbox, closed, produced>>
hubVars == <<phase, msg, light, dark, panicked>>
clientVars == <<chan, shut, handler, got, since>>
vars == <<busVars, hubVars, clientVars, lost>>

-----------------------------------------------------------------------------
(* Records.  region is the bearer's region where the record names it, and  *)
(* track the path at whose end the bearer is, where the record shows its   *)
(* route.  The last detection that a snapshot repeats to both sides is     *)
(* left out: it is meant for the dark.                                     *)

Position == "game.ring.position"
Detection == "game.ring.detection"
Broadcast == "game.broadcast"
EventTopics == {"game.events.unit", "game.events.region", "game.events.path"}
HubTopics == {Position, Detection, Broadcast} \cup EventTopics

\* What the engine emits, and the server's copy of an order.  A snapshot holds the
\* bearer's unit entry, with its route and how far it has come on it; UnitMoved
\* stands for the other events of units, regions and paths: the hub routes by topic.
Emitted ==
       [topic : {Position}, type : {"RingBearerMoved"}, region : Place, track : {""}]
  \cup [topic : {Detection}, type : {"RingBearerDetected"}, region : Place, track : {""}]
  \cup [topic : {Detection}, type : {"RingBearerSpotted"}, region : {""}, track : Track]
  \cup [topic : {Broadcast}, type : {"GameOver"}, region : {""}, track : {""}]
  \cup [topic : {Broadcast}, type : {"WorldStateSnapshot"}, region : Place,
        track : Track \cup {""}]
  \cup [topic : {"game.events.unit"}, type : {"RouteBlocked"}, region : {""}, track : Track]
  \cup [topic : {"game.events.unit"}, type : {"UnitMoved"}, region : {""}, track : {""}]
  \cup [topic : {"game.orders.raw"}, type : {"OrderSubmitted"}, region : {""}, track : {""}]

Numbered(r, n) ==
  [id |-> n, topic |-> r.topic, type |-> r.type, region |-> r.region, track |-> r.track]

NoRecord == [id |-> 0, topic |-> "", type |-> "", region |-> "", track |-> ""]

\* Mutant: only the bearer's unit entry is blanked, whose region is empty anyway,
\* not the region beside it.
Strip_UnitEntryOnly(m) == m

\* stripBroadcast blanks the bearer's region, beside the units and in its entry;
\* the entry's route and index go out as they are.
Strip(m) == [m EXCEPT !.region = ""]

-----------------------------------------------------------------------------
(* The bus *)

Init ==
  /\ inbox = <<>> /\ closed = FALSE
  /\ phase = "receive" /\ msg = NoRecord /\ light = {} /\ dark = {} /\ panicked = FALSE
  /\ chan = [c \in Client |-> <<>>] /\ shut = {}
  /\ handler = [c \in Client |-> "none"]
  /\ got = [c \in Client |-> <<>>] /\ since = [c \in Client |-> 0]
  /\ produced = <<>> /\ lost = {}

\* Mutant: a full channel makes room by dropping what it holds the longest.
Enqueue_DropsOldest(s, m) == IF Len(s) < BusCap THEN Append(s, m) ELSE Append(Tail(s), m)

\* Mutant: the channel has one place more than it should.
Enqueue_OneTooMany(s, m) == IF Len(s) <= BusCap THEN Append(s, m) ELSE s

\* A non-blocking send into the hub's channel.
Enqueue(s, m) == IF Len(s) < BusCap THEN Append(s, m) ELSE s

\* Every producer ignores the error a closed bus returns.
Produce(r) ==
  /\ Len(produced) < MaxRecords
  /\ LET m == Numbered(r, Len(produced) + 1)
         heard == ~closed /\ m.topic \in HubTopics IN
       /\ produced' = Append(produced, m)
       /\ inbox' = IF heard THEN Enqueue(inbox, m) ELSE inbox
       /\ lost' = IF closed \/ (heard /\ Len(inbox) >= BusCap)
                   THEN lost \cup {<<m.id, "bus">>} ELSE lost
  /\ UNCHANGED <<closed, hubVars, clientVars>>

\* main closes the bus on its way out; no channel is closed.
Close ==
  /\ ~closed /\ closed' = TRUE
  /\ UNCHANGED <<inbox, produced, hubVars, clientVars, lost>>

-----------------------------------------------------------------------------
(* Hub.Run *)

\* Mutant: the record stays in the channel.
HubReceive_Peeks ==
  /\ phase = "receive" /\ inbox # <<>>
  /\ msg' = Head(inbox) /\ inbox' = inbox
  /\ phase' = IF msg'.topic = Detection THEN "dark" ELSE "light"
  /\ UNCHANGED <<closed, produced, light, dark, panicked, clientVars, lost>>

HubReceive ==
  /\ phase = "receive" /\ inbox # <<>>
  /\ msg' = Head(inbox) /\ inbox' = Tail(inbox)
  /\ phase' = IF msg'.topic = Detection THEN "dark" ELSE "light"
  /\ UNCHANGED <<closed, produced, light, dark, panicked, clientVars, lost>>

\* toLight and toDark: a non-blocking send to every channel registered.
FanOut(registered, m) ==
  /\ panicked' = (panicked \/ registered \cap shut # {})
  /\ chan' = [c \in Client |->
       IF c \in registered \ shut /\ Len(chan[c]) < ClientCap
         THEN Append(chan[c], m) ELSE chan[c]]
  /\ lost' = lost \cup {<<m.id, c>> : c \in {d \in registered : Len(chan[d]) >= ClientCap}}

\* Mutant: a broadcast is done with once the Light Side has it.
AfterLight_BroadcastToo(m) == IF m.topic \in {Position, Broadcast} THEN "receive" ELSE "dark"

\* The position is for the Light Side only.
AfterLight(m) == IF m.topic = Position THEN "receive" ELSE "dark"

ToLight ==
  /\ phase = "light" /\ phase' = AfterLight(msg)
  /\ FanOut(light, msg)
  /\ UNCHANGED <<busVars, msg, light, dark, shut, handler, got, since>>

ToDark ==
  /\ phase = "dark" /\ phase' = "receive"
  /\ FanOut(dark, IF msg.topic = Broadcast THEN Strip(msg) ELSE msg)
  /\ UNCHANGED <<busVars, msg, light, dark, shut, handler, got, since>>

-----------------------------------------------------------------------------
(* The handlers of /events *)

\* Hub.Subscribe: whoever does not ask for the Dark Side's stream gets Light's.
Subscribe(c) ==
  /\ handler[c] = "none"
  /\ handler' = [handler EXCEPT ![c] = "reading"]
  /\ light' = IF SideOf[c] = "dark" THEN light ELSE light \cup {c}
  /\ dark' = IF SideOf[c] = "dark" THEN dark \cup {c} ELSE dark
  /\ since' = [since EXCEPT ![c] = Len(produced)]
  /\ UNCHANGED <<busVars, phase, msg, panicked, chan, shut, got, lost>>

Read(c) ==
  /\ handler[c] = "reading" /\ chan[c] # <<>>
  /\ got' = [got EXCEPT ![c] = Append(@, Head(chan[c]))]
  /\ chan' = [chan EXCEPT ![c] = Tail(@)]
  /\ UNCHANGED <<busVars, hubVars, shut, handler, since, lost>>

\* Mutant: the channel is closed before the hub has forgotten it.
Unregister_ClosesFirst(c) ==
  /\ handler[c] = "reading"
  /\ handler' = [handler EXCEPT ![c] = "closing"]
  /\ shut' = shut \cup {c}
  /\ UNCHANGED <<busVars, hubVars, chan, got, since, lost>>

\* The request is over; what is still in the channel is never read.
Unregister(c) ==
  /\ handler[c] = "reading"
  /\ handler' = [handler EXCEPT ![c] = "closing"]
  /\ light' = light \ {c} /\ dark' = dark \ {c}
  /\ UNCHANGED <<busVars, phase, msg, panicked, chan, shut, got, since, lost>>

CloseChannel(c) ==
  /\ handler[c] = "closing"
  /\ handler' = [handler EXCEPT ![c] = "gone"]
  /\ shut' = shut \cup {c}
  /\ UNCHANGED <<busVars, hubVars, chan, got, since, lost>>

-----------------------------------------------------------------------------
Hub == HubReceive \/ ToLight \/ ToDark
Handle(c) == Subscribe(c) \/ Read(c) \/ Unregister(c) \/ CloseChannel(c)

Next ==
  \/ \E r \in Emitted : Produce(r)
  \/ Close
  \/ Hub
  \/ \E c \in Client : Handle(c)

Spec == Init /\ [][Next]_vars

\* The hub's goroutine waits for nothing but records, and the clients the
\* property is about keep reading; nobody has to connect, leave or produce.
FairSpec == Spec /\ WF_vars(Hub) /\ \A c \in Client : WF_vars(Read(c))
=============================================================================
