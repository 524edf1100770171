----------------------------- MODULE ServerProps -----------------------------
(***************************************************************************)
(* What must hold of the handlers, however the requests of the players and *)
(* the turn timer interleave.                                              *)
(***************************************************************************)
EXTENDS Server

Times(s, o) == Cardinality({k \in DOMAIN s : s[k] = o})
Accepted(o) == \E f \in fate : f.order = o /\ f.what = "accepted"

\* An order that was answered left one copy on game.orders.raw and one verdict,
\* on game.orders.validated if the engine took it and on game.dlq if not, and the
\* answer said the same.  One that is under way has no verdict on a topic yet.
RecordsMatchAnswers ==
  /\ \A a \in replies :
       /\ Times(raw, a.order) = 1
       /\ Times(validated, a.order) = (IF Accepted(a.order) THEN 1 ELSE 0)
       /\ Times(dlq, a.order) = (IF Accepted(a.order) THEN 0 ELSE 1)
       /\ a.code = IF Accepted(a.order) THEN 202 ELSE 422
  /\ \A c \in Client : pc[c] \in {"submit", "record"} =>
       Times(raw, ask[c]) = 1 /\ Times(validated, ask[c]) = 0 /\ Times(dlq, ask[c]) = 0

\* Every order the engine took waits in its queue, or was played, once, in the
\* game and the turn it was taken in and made for, or was wiped by a reset; and
\* however two players' orders for a unit race, it took one a turn, and one more
\* after the end, where the turn stays the last one.
PlayedOnce ==
  \A f \in fate : f.what = "accepted" =>
    LET ends == {g \in fate : g.order = f.order /\ g.what # "accepted"} IN
      /\ f.turn = f.order.turn
      /\ Cardinality(ends) + Times(pending, f.order) = 1
      /\ \A g \in ends : g.game = f.game /\ g.turn = f.turn
      /\ Times(pending, f.order) = 1 => f.game = game /\ f.turn = turn
      /\ \A g \in fate :
           g.what = "accepted" /\ g.order.unit = f.order.unit
             /\ g.game = f.game /\ g.turn = f.turn /\ g.late = f.late => g = f

\* An answer is encoded after the mutex is given up, from arrays that later turns
\* shift, extend and list anew.  However torn it comes out, each of its lists is as
\* long as the region's list was when the snapshot was taken, and names only units
\* that region's list has held: never a unit of another region's, nor a free place.
ListsNameVisitors ==
  \A c \in Client : pc[c] = "answered" => \A k \in DOMAIN RegionOrder :
    LET r == RegionOrder[k] IN
      Len(view[c][k]) = Len(snap[c].held[r]) /\ Range(view[c][k]) \subseteq been[r]

\* Every request is answered, whatever the other players and the timer do.
Answered ==
  \A c \in Client : pc[c] \notin {"idle", "answered"} ~> pc[c] \in {"idle", "answered"}

\* Accepted before the end of its game, and neither played nor wiped yet.
Waiting == {f \in fate : f.what = "accepted" /\ ~f.late
              /\ ~ \E g \in fate : g.order = f.order /\ g.what # "accepted"}

\* With the timer running, an order taken before the game is over is played or
\* wiped.  One taken after the end waits for a reset, perhaps for ever.
AcceptedIsPlayed == []<>(Waiting = {})

-----------------------------------------------------------------------------
(* What a comment says and the code does not do: refuted by a run. *)

\* engine.go:586: Snapshot is "thread-safe": an answer lists in a region whom the
\* region's list held when the snapshot was taken.
SnapshotIsWhole ==
  \A c \in Client : pc[c] = "answered" => \A k \in DOMAIN RegionOrder :
    view[c][k] = snap[c].held[RegionOrder[k]]
=============================================================================
