------------------------------- MODULE Cluster -------------------------------
(***************************************************************************)
(* The deployment of docker-compose.yml: instances of the server, each     *)
(* with -auto, on one Kafka broker.  Every instance has an engine of its   *)
(* own in memory, a producer, and a consumer in the group all share, which *)
(* feeds its hub over a channel.  An instance that stops loses all of it:  *)
(* main closes the producer without a flush and the consumer not at all,   *)
(* so that a signal and a crash are the same here.                         *)
(*                                                                         *)
(* Kafka is external and modelled by what the code asks of it: an          *)
(* idempotent producer appends each record once and in order, the group    *)
(* gives a partition to one member, the offset is committed on a timer and *)
(* when a living member loses the partition.  Of the topics game.broadcast *)
(* is kept, which has one partition; the partitions of the others are      *)
(* dealt and read the same way.  An engine is its turn and whether its     *)
(* game is over; orders and resets are in Server.tla.                      *)
(***************************************************************************)
EXTENDS Integers, Sequences, FiniteSets, Functions

CONSTANTS
  Instance,
  MaxTurns,
  OutCap,        \* capacity of the consumer's channel
  MaxPlayed,     \* bound on the turns of each instance, all its lives together
  MaxStops       \* bound on the stops of all instances together

Nobody == "nobody"

ASSUME InstanceAssumption == Nobody \notin Instance

VARIABLES
  up, life,                \* which instances run, and how often each was started
  turn, over,              \* the engine of each
  sending,                 \* the queue of each producer
  log,                     \* game.broadcast
  members, owner,          \* the group: lives of instances, and who reads the log
  position, committed,     \* the owner's next record, and the one the group has stored
  out,                     \* each instance's channel to its hub: offsets of records
  shown,                   \* what the hub has handed to its clients, in this life
  past, lost,              \* history: shown, and dropped, by lives that are over
  played, stops

engineVars == <<turn, over, sending>>
groupVars == <<members, owner, position, committed>>
hubVars == <<out, shown, past, lost>>
vars == <<up, life, engineVars, log, groupVars, hubVars, played, stops>>

Init ==
  /\ up = [i \in Instance |-> TRUE] /\ life = [i \in Instance |-> 1]
  /\ turn = [i \in Instance |-> 1] /\ over = [i \in Instance |-> FALSE]
  /\ sending = [i \in Instance |-> <<>>] /\ log = <<>>
  /\ members = {} /\ owner = Nobody /\ position = 1 /\ committed = 0
  /\ out = [i \in Instance |-> <<>>] /\ shown = [i \in Instance |-> <<>>]
  /\ past = {} /\ lost = {} /\ played = [i \in Instance |-> 0] /\ stops = 0

-----------------------------------------------------------------------------
(* The engine and the producer *)

\* What a turn puts on game.broadcast.
Emitted(i, won) ==
  LET Rec(type) == [type |-> type, by |-> i, life |-> life[i], turn |-> turn[i]] IN
    (IF won THEN <<Rec("GameOver")>> ELSE <<>>) \o <<Rec("WorldStateSnapshot")>>

\* The turn timer fires.
ProcessTurn(i) ==
  /\ up[i] /\ ~over[i] /\ played[i] < MaxPlayed[i] /\ played' = [played EXCEPT ![i] = @ + 1]
  /\ \E won \in {turn[i] = MaxTurns, TRUE} :
       /\ over' = [over EXCEPT ![i] = won]
       /\ sending' = [sending EXCEPT ![i] = @ \o Emitted(i, won)]
       /\ turn' = [turn EXCEPT ![i] = IF won THEN @ ELSE @ + 1]
  /\ UNCHANGED <<up, life, log, groupVars, hubVars, stops>>

\* Mutant: without enable.idempotence a record whose acknowledgement is lost is
\* sent again.
Appended_Retried(r) == log \o <<r, r>>

Appended(r) == Append(log, r)

Deliver(i) ==
  /\ sending[i] # <<>> /\ log' = Appended(Head(sending[i]))
  /\ sending' = [sending EXCEPT ![i] = Tail(@)]
  /\ UNCHANGED <<up, life, turn, over, groupVars, hubVars, played, stops>>

-----------------------------------------------------------------------------
(* The group and the consumers *)

Live == {<<i, life[i]>> : i \in {j \in Instance : up[j]}}

\* Mutant: auto.offset.reset "latest".
StartOf_Latest(stored) == IF stored = 0 THEN Len(log) + 1 ELSE stored

\* auto.offset.reset is "earliest".
StartOf(stored) == IF stored = 0 THEN 1 ELSE stored

\* Mutant: a member that gives the partition up leaves its offset uncommitted.
Stored_OnTimerOnly == committed

\* A member that lives commits as it gives the partition up; of one that is gone
\* the group has what it committed last.
Stored == IF \E m \in members \cap Live : m[1] = owner THEN position ELSE committed

\* Members have come or their sessions have run out: the partition is dealt anew.
Rebalance ==
  /\ members # Live /\ members' = Live
  /\ committed' = Stored /\ position' = StartOf(committed')
  /\ owner' \in (IF Live = {} THEN {Nobody} ELSE {m[1] : m \in Live})
  /\ UNCHANGED <<up, life, engineVars, log, hubVars, played, stops>>

\* Whether instance i, in the life it is in, has been given the partition.
Owns(i) == owner = i /\ up[i] /\ <<i, life[i]>> \in members

\* The reading goroutine takes the next record and sends it to the channel.  When
\* the channel is full it holds that record, the last of `out`, and reads no more.
Read(i) ==
  /\ Owns(i) /\ position <= Len(log) /\ Len(out[i]) <= OutCap
  /\ out' = [out EXCEPT ![i] = Append(@, position)] /\ position' = position + 1
  /\ UNCHANGED <<up, life, engineVars, log, members, owner, committed, shown, past, lost, played,
                 stops>>

\* The client library's timer: what was read is stored, shown or not.
AutoCommit(i) ==
  /\ Owns(i) /\ committed # position /\ committed' = position
  /\ UNCHANGED <<up, life, engineVars, log, members, owner, position, hubVars, played, stops>>

\* The hub hands the next record to the clients of its instance.
Show(i) ==
  /\ out[i] # <<>> /\ shown' = [shown EXCEPT ![i] = Append(@, Head(out[i]))]
  /\ out' = [out EXCEPT ![i] = Tail(@)]
  /\ UNCHANGED <<up, life, engineVars, log, groupVars, past, lost, played, stops>>

-----------------------------------------------------------------------------
\* The engine is gone, and with it what was not yet sent or shown.  The group learns
\* of it later; until then nobody reads what the instance was to read.
Stop(i) ==
  /\ up[i] /\ stops < MaxStops /\ stops' = stops + 1
  /\ up' = [up EXCEPT ![i] = FALSE]
  /\ turn' = [turn EXCEPT ![i] = 1] /\ over' = [over EXCEPT ![i] = FALSE]
  /\ sending' = [sending EXCEPT ![i] = <<>>]
  /\ out' = [out EXCEPT ![i] = <<>>] /\ lost' = lost \cup Range(out[i])
  /\ shown' = [shown EXCEPT ![i] = <<>>] /\ past' = past \cup Range(shown[i])
  /\ UNCHANGED <<life, log, groupVars, played>>

\* A new engine at turn 1: nothing is read back.
Start(i) ==
  /\ ~up[i] /\ up' = [up EXCEPT ![i] = TRUE] /\ life' = [life EXCEPT ![i] = @ + 1]
  /\ UNCHANGED <<engineVars, log, groupVars, hubVars, played, stops>>

Next ==
  \/ \E i \in Instance :
       ProcessTurn(i) \/ Deliver(i) \/ Read(i) \/ AutoCommit(i) \/ Show(i) \/ Stop(i) \/ Start(i)
  \/ Rebalance

Spec == Init /\ [][Next]_vars

\* The goroutines of an instance and the client library run while it is up, and the
\* group notices who comes and goes.  Nobody need start a stopped instance again.
FairSpec ==
  /\ Spec /\ WF_vars(Rebalance)
  /\ \A i \in Instance : WF_vars(Deliver(i)) /\ WF_vars(Read(i)) /\ WF_vars(Show(i))
=============================================================================
