------------------------------- MODULE Server -------------------------------
(***************************************************************************)
(* The HTTP handlers that change or show the game (internal/api/server.go) *)
(* and the turn timer of cmd/server, around one engine and its mutex.  Go  *)
(* runs every request in a goroutine of its own; between its calls of the  *)
(* engine and of the bus a handler holds nothing.                          *)
(*                                                                         *)
(* Of the engine this module keeps what the handlers can tell: the turn,   *)
(* the order queue, and the regions' lists of units as Go slices, for a    *)
(* snapshot copies the slices and not the arrays behind them, and is       *)
(* encoded after the mutex is given up.  A turn does to the lists what it  *)
(* may do, a move, a fall in a fight, a conquest that stores an old slice  *)
(* back, a change of a unit's entry alone; which orders are legal and what *)
(* a turn really does is left open: Engine.tla says it.                    *)
(***************************************************************************)
EXTENDS Slices

CONSTANTS
  Client,       \* the players' browsers; each waits for one answer at a time
  Timer,        \* the main loop with -auto
  UnitOrder,    \* units.json, without the bearer, whom no list names
  Home,         \* the start region of every unit
  RegionOrder,  \* the regions by name, the order in which JSON lists a map
  MaxTurns,
  MaxRequests, MaxResets, MaxMoves   \* bounds: requests of each client, resets, moves, falls
                                     \* and changes of an entry alone in a turn

Unit == Range(UnitOrder)
Region == Range(RegionOrder)

Nobody == "nobody"

ASSUME TimerAssumption == Timer \notin Client /\ Nobody \notin Client \cup {Timer}
ASSUME HomeAssumption == Home \in [Unit -> Region]
\* Load refuses a second unit with the same id.
ASSUME OrderAssumption ==
  /\ UnitOrder \in Seq(STRING) /\ RegionOrder \in Seq(STRING)
  /\ "" \notin Unit \cup Region

VARIABLES
  turn, over, pending, seen,      \* the engine
  where, board,                   \* Units[u].Region, "" for nowhere, and the regions' lists
  reg,                            \* resolveCombat's copy of a region
  holder, moves,                  \* who is inside ProcessTurn, and what it has done
  pc, ask, verdict, snap, view,   \* each handler, what it was asked and what it knows
  raw, validated, dlq,            \* the records on game.orders.* and game.dlq
  asked, game, fate, replies,     \* history
  been                            \* history: whom each region's list ever held

lists == <<where, board, reg, been>>
engineVars == <<turn, over, pending, seen, lists, holder, moves>>
handlerVars == <<pc, ask, verdict, snap, view>>
topics == <<raw, validated, dlq>>
vars == <<engineVars, handlerVars, topics, asked, game, fate, replies>>

-----------------------------------------------------------------------------
(* Slices.  board.mem is the arrays ever made, board.slice[r] the list of  *)
(* region r: its array and its length.  Array 1 is the nil slice's.        *)

Content(mem, s) == SubSeq(mem[s.arr], 1, s.len)

\* append: in place while the array has room, otherwise in one twice as long.
AppendTo(b, r, u) ==
  LET s == b.slice[r]
      old == b.mem[s.arr]
      room == Len(old)
      longer == IF room = 0 THEN <<u>> ELSE Append(old, u) \o [k \in 1..(room - 1) |-> ""]
  IN IF s.len < room
       THEN [mem |-> [b.mem EXCEPT ![s.arr][s.len + 1] = u],
             slice |-> [b.slice EXCEPT ![r].len = @ + 1]]
       ELSE [mem |-> Append(b.mem, longer),
             slice |-> [b.slice EXCEPT ![r] = [arr |-> Len(b.mem) + 1, len |-> s.len + 1]]]

\* Mutant: the places that become free are cleared, as slices.DeleteFunc does.
RemoveFrom_ClearsTail(b, r, u) ==
  LET s == b.slice[r]
      kept == Without(Content(b.mem, s), u)
  IN [mem |-> [b.mem EXCEPT ![s.arr] = [k \in DOMAIN @ |-> IF k <= Len(kept) THEN kept[k] ELSE ""]],
      slice |-> [b.slice EXCEPT ![r].len = Len(kept)]]

\* remove: what stays is shifted to the front of the same array.
RemoveFrom(b, r, u) ==
  LET s == b.slice[r]
      kept == Without(Content(b.mem, s), u)
  IN [mem |-> [b.mem EXCEPT ![s.arr] = kept \o SubSeq(@, Len(kept) + 1, Len(@))],
      slice |-> [b.slice EXCEPT ![r].len = Len(kept)]]

AppendUnique(b, r, u) ==
  IF u \in Range(Content(b.mem, b.slice[r])) THEN b ELSE AppendTo(b, r, u)

\* What moveUnit and applyCombatDamage do first: a unit that is nowhere is on no
\* list they know of.
Left(b, u) == IF where[u] = "" THEN b ELSE RemoveFrom(b, where[u], u)

\* seed: new lists, in new arrays.
Seeded(mem) ==
  LET after[k \in 0..Len(UnitOrder)] ==
        IF k = 0
          THEN [mem |-> mem, slice |-> [r \in Region |-> [arr |-> 1, len |-> 0]]]
          ELSE AppendTo(after[k - 1], Home[UnitOrder[k]], UnitOrder[k])
  IN after[Len(UnitOrder)]

-----------------------------------------------------------------------------
NoOrder == [by |-> Nobody, n |-> 0, unit |-> "", turn |-> 0]
NoSnapshot == [slice |-> <<>>, held |-> <<>>]
NoReg == [region |-> "", slice |-> [arr |-> 1, len |-> 0], held |-> <<>>]

Held(b) == [r \in Region |-> Content(b.mem, b.slice[r])]

Init ==
  /\ turn = 1 /\ over = FALSE /\ pending = <<>> /\ seen = {}
  /\ where = Home /\ board = Seeded(<<<<>>>>) /\ reg = NoReg /\ holder = Nobody /\ moves = 0
  /\ pc = [c \in Client |-> "idle"] /\ ask = [c \in Client |-> NoOrder]
  /\ verdict = [c \in Client |-> ""]
  /\ snap = [c \in Client |-> NoSnapshot] /\ view = [c \in Client |-> <<>>]
  /\ raw = <<>> /\ validated = <<>> /\ dlq = <<>>
  /\ asked = [c \in Client |-> 0] /\ game = 1 /\ fate = {} /\ replies = {}
  /\ been = [r \in Region |-> {u \in Unit : Home[u] = r}]

\* A client that has its answer asks again; the bound is on its requests.
Asks(c, step) ==
  /\ pc[c] \in {"idle", "answered"} /\ asked[c] < MaxRequests[c]
  /\ asked' = [asked EXCEPT ![c] = @ + 1]
  /\ pc' = [pc EXCEPT ![c] = step]
  /\ snap' = [snap EXCEPT ![c] = NoSnapshot] /\ view' = [view EXCEPT ![c] = <<>>]

-----------------------------------------------------------------------------
(* POST /order *)

BadJSON(c) ==
  /\ Asks(c, "idle")
  /\ UNCHANGED <<engineVars, ask, verdict, topics, game, fate, replies>>

\* The order is decoded and its copy put on game.orders.raw.
OrderArrives(c, u, t) ==
  /\ Asks(c, "submit")
  /\ LET o == [by |-> c, n |-> asked'[c], unit |-> u, turn |-> t] IN
       ask' = [ask EXCEPT ![c] = o] /\ raw' = Append(raw, o)
  /\ UNCHANGED <<engineVars, verdict, validated, dlq, game, fate, replies>>

\* Validate's first rules; ILLEGAL stands for all the others.  That the game is
\* over is not one of them.
Verdicts(o) ==
  IF o.unit \in seen THEN {"DUPLICATE_UNIT_ORDER"}
  ELSE IF o.turn # turn THEN {"WRONG_TURN"} ELSE {"OK", "ILLEGAL"}

\* History: what became of an order, when, and whether the game was over then.
Marked(o, what) == [order |-> o, what |-> what, game |-> game, turn |-> turn, late |-> over]

\* Engine.Submit, under the mutex.
Submit(c) ==
  /\ pc[c] = "submit" /\ holder = Nobody
  /\ \E v \in Verdicts(ask[c]) :
       /\ verdict' = [verdict EXCEPT ![c] = v]
       /\ pending' = IF v = "OK" THEN Append(pending, ask[c]) ELSE pending
       /\ seen' = IF v = "OK" THEN seen \cup {ask[c].unit} ELSE seen
       /\ fate' = IF v = "OK" THEN fate \cup {Marked(ask[c], "accepted")} ELSE fate
  /\ pc' = [pc EXCEPT ![c] = "record"]
  /\ UNCHANGED <<turn, over, lists, holder, moves, ask, snap, view, topics, asked, game, replies>>

Reply(c, code) == replies' = replies \cup {[order |-> ask[c], code |-> code]}

\* The handler returns.
Forget(c) ==
  /\ pc' = [pc EXCEPT ![c] = "idle"]
  /\ ask' = [ask EXCEPT ![c] = NoOrder] /\ verdict' = [verdict EXCEPT ![c] = ""]

\* Mutant: without the return a rejected order is also recorded as validated.
Record_NoReturn(c) ==
  /\ pc[c] = "record"
  /\ dlq' = IF verdict[c] = "OK" THEN dlq ELSE Append(dlq, ask[c])
  /\ validated' = Append(validated, ask[c])
  /\ Reply(c, IF verdict[c] = "OK" THEN 202 ELSE 422)
  /\ Forget(c)
  /\ UNCHANGED <<engineVars, snap, view, raw, asked, game, fate>>

\* The verdict's record, and the answer.
Record(c) ==
  /\ pc[c] = "record"
  /\ \/ /\ verdict[c] # "OK" /\ dlq' = Append(dlq, ask[c]) /\ UNCHANGED validated
        /\ Reply(c, 422)
     \/ /\ verdict[c] = "OK" /\ validated' = Append(validated, ask[c]) /\ UNCHANGED dlq
        /\ Reply(c, 202)
  /\ Forget(c)
  /\ UNCHANGED <<engineVars, snap, view, raw, asked, game, fate>>

-----------------------------------------------------------------------------
(* POST /game/tick and the turn timer *)

TickArrives(c) ==
  /\ Asks(c, "tick")
  /\ UNCHANGED <<engineVars, ask, verdict, topics, game, fate, replies>>

Wants(h) == h = Timer \/ (h \in Client /\ pc[h] = "tick")

\* What snapshotLocked copies of the lists.  History: held, what they hold then.
Snapshot == [slice |-> board.slice, held |-> Held(board)]

\* h's handler goes on to encode a snapshot; the timer only logs its turn.
Shows(h, s) ==
  /\ pc' = IF h = Timer THEN pc ELSE [pc EXCEPT ![h] = "encode"]
  /\ snap' = IF h = Timer THEN snap ELSE [snap EXCEPT ![h] = s]

\* Mutant: without -auto.
TurnBegins_OnlyAsked(h) ==
  /\ Wants(h) /\ holder = Nobody /\ ~over /\ h # Timer
  /\ holder' = h
  /\ UNCHANGED <<turn, over, pending, seen, lists, moves, handlerVars, topics, asked, game, fate,
                 replies>>

TurnBegins(h) ==
  /\ Wants(h) /\ holder = Nobody /\ ~over
  /\ holder' = h
  /\ UNCHANGED <<turn, over, pending, seen, lists, moves, handlerVars, topics, asked, game, fate,
                 replies>>

\* A game that is over is only shown.
TickAfterTheEnd(c) ==
  /\ pc[c] = "tick" /\ holder = Nobody /\ over
  /\ Shows(c, Snapshot)
  /\ UNCHANGED <<engineVars, ask, verdict, view, topics, asked, game, fate, replies>>

\* A step of whoever is inside ProcessTurn that changes nothing but units and lists.
InTurn ==
  /\ Wants(holder)
  /\ UNCHANGED <<turn, over, pending, seen, holder, handlerVars, topics, asked, game, fate, replies>>

Counted == moves < MaxMoves /\ moves' = moves + 1

\* moveUnit
Move(u, r) ==
  /\ InTurn /\ Counted /\ reg = NoReg
  /\ where' = [where EXCEPT ![u] = r]
  /\ board' = AppendUnique(Left(board, u), r, u)
  /\ been' = [been EXCEPT ![r] = @ \cup {u}]
  /\ UNCHANGED reg

\* A unit listed in region r when the fight for r began falls, destroyed where its
\* entry says it is or gone to respawn, and leaves the list of the region of its
\* entry.  resolveCombat took its copy of r before the first of them fell.
Fall(u, r) ==
  /\ InTurn /\ Counted
  /\ \/ reg = NoReg /\ reg' = [region |-> r, slice |-> board.slice[r], held |-> Held(board)[r]]
     \/ reg.region = r /\ UNCHANGED reg
  /\ u \in Range(reg'.held)
  /\ \E place \in {where[u], ""} : where' = [where EXCEPT ![u] = place]
  /\ board' = Left(board, u)
  /\ UNCHANGED been

\* The copy is stored, with the slice it had: whoever was removed meanwhile may be
\* listed again, or a unit twice.
Conquer ==
  /\ InTurn /\ reg # NoReg
  /\ board' = [board EXCEPT !.slice[reg.region] = reg.slice]
  /\ reg' = NoReg
  /\ UNCHANGED <<where, moves, been>>

\* An attacker beaten back goes to respawn and stays listed; a unit whose wait is
\* over is at home again and not listed.
EntryAlone(u) ==
  /\ InTurn /\ Counted /\ reg = NoReg
  /\ where' = [where EXCEPT ![u] = IF @ = "" THEN Home[u] ELSE ""]
  /\ UNCHANGED <<board, reg, been>>

AfterTurn(isOver) == IF isOver THEN turn ELSE turn + 1

\* The queue has been played; the snapshot is taken before the turn goes on.
TurnEnds ==
  /\ Wants(holder) /\ holder' = Nobody /\ moves' = 0 /\ reg = NoReg
  /\ over' \in {turn = MaxTurns, TRUE}
  /\ Shows(holder, Snapshot)
  /\ fate' = fate \cup {Marked(o, "played") : o \in Range(pending)}
  /\ pending' = <<>> /\ seen' = {}
  /\ turn' = AfterTurn(over')
  /\ UNCHANGED <<lists, ask, verdict, view, topics, asked, game, replies>>

-----------------------------------------------------------------------------
(* POST /game/reset and GET /game/state *)

ResetArrives(c) ==
  /\ game + Cardinality({d \in Client : pc[d] = "reset"}) <= MaxResets
  /\ Asks(c, "reset")
  /\ UNCHANGED <<engineVars, ask, verdict, topics, game, fate, replies>>

\* Mutant: the orders in the queue survive the reset.
Reset_KeepsQueue(c) ==
  /\ pc[c] = "reset" /\ holder = Nobody
  /\ turn' = 1 /\ over' = FALSE /\ pending' = pending /\ seen' = {}
  /\ where' = Home /\ board' = Seeded(board.mem) /\ game' = game + 1
  /\ fate' = fate \cup {Marked(o, "wiped") : o \in Range(pending)}
  /\ pc' = [pc EXCEPT ![c] = "snapshot"]
  /\ UNCHANGED <<reg, been, holder, moves, ask, verdict, snap, view, topics, asked, replies>>

\* Mutant: the snapshot is taken before Reset gives the mutex up, and waits for it.
Reset_Relocks(c) ==
  /\ pc[c] = "reset" /\ holder = Nobody
  /\ turn' = 1 /\ over' = FALSE /\ pending' = <<>> /\ seen' = {}
  /\ where' = Home /\ board' = Seeded(board.mem) /\ game' = game + 1
  /\ fate' = fate \cup {Marked(o, "wiped") : o \in Range(pending)}
  /\ pc' = [pc EXCEPT ![c] = "snapshot"] /\ holder' = c
  /\ UNCHANGED <<reg, been, moves, ask, verdict, snap, view, topics, asked, replies>>

\* Engine.Reset; the snapshot of the answer is taken with a lock of its own.
Reset(c) ==
  /\ pc[c] = "reset" /\ holder = Nobody
  /\ turn' = 1 /\ over' = FALSE /\ pending' = <<>> /\ seen' = {}
  /\ where' = Home /\ board' = Seeded(board.mem) /\ game' = game + 1
  /\ fate' = fate \cup {Marked(o, "wiped") : o \in Range(pending)}
  /\ pc' = [pc EXCEPT ![c] = "snapshot"]
  /\ UNCHANGED <<reg, been, holder, moves, ask, verdict, snap, view, topics, asked, replies>>

StateArrives(c) ==
  /\ Asks(c, "snapshot")
  /\ UNCHANGED <<engineVars, ask, verdict, topics, game, fate, replies>>

TakeSnapshot(c) ==
  /\ pc[c] = "snapshot" /\ holder = Nobody
  /\ Shows(c, Snapshot)
  /\ UNCHANGED <<engineVars, ask, verdict, view, topics, asked, game, fate, replies>>

\* writeJSON, without the mutex: the list of the next region is read from whatever
\* its array holds by now.
Encode(c) ==
  /\ pc[c] = "encode"
  /\ LET r == RegionOrder[Len(view[c]) + 1] IN
       view' = [view EXCEPT ![c] = Append(@, Content(board.mem, snap[c].slice[r]))]
  /\ pc' = [pc EXCEPT ![c] = IF Len(view'[c]) = Len(RegionOrder) THEN "answered" ELSE "encode"]
  /\ UNCHANGED <<engineVars, ask, verdict, snap, topics, asked, game, fate, replies>>

-----------------------------------------------------------------------------
Request(c) ==
  \/ BadJSON(c)
  \/ \E u \in Unit, t \in 1..MaxTurns : OrderArrives(c, u, t)
  \/ TickArrives(c) \/ ResetArrives(c) \/ StateArrives(c)

Handle(c) ==
  \/ Submit(c) \/ Record(c)
  \/ TurnBegins(c) \/ TickAfterTheEnd(c)
  \/ Reset(c) \/ TakeSnapshot(c)
  \/ Encode(c)

Next ==
  \/ \E c \in Client : Request(c) \/ Handle(c)
  \/ TurnBegins(Timer)
  \/ \E u \in Unit, r \in Region : Move(u, r) \/ Fall(u, r)
  \/ \E u \in Unit : EntryAlone(u)
  \/ Conquer
  \/ TurnEnds

Spec == Init /\ [][Next]_vars

\* Goroutines run, whoever is inside ProcessTurn leaves it, and a handler that
\* waits for the mutex while nobody takes it gets it.  With -auto the timer fires
\* again and again: nothing feeds the other channels of the main loop.
FairSpec ==
  /\ Spec /\ WF_vars(Conquer) /\ WF_vars(TurnEnds) /\ WF_vars(TurnBegins(Timer))
  /\ \A c \in Client : WF_vars(Handle(c))
=============================================================================
