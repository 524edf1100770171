------------------------------- MODULE Match -------------------------------
(***************************************************************************)
(* What the engine promises of one game, whatever happens on the board.    *)
(* Turns are played one after the other; the game ends once, with one      *)
(* GameOver, at the latest in turn MaxTurns; the Dark Side cannot win      *)
(* while the bearer's start is hidden; afterwards nothing changes until a  *)
(* reset.                                                                  *)
(***************************************************************************)
EXTENDS Integers

CONSTANTS HiddenUntilTurn, MaxTurns

VARIABLES
  turn,       \* the turn being played, or the one the game ended in
  outcome,    \* [over, winner, cause]
  announced   \* how many times the end of this game has been announced

vars == <<turn, outcome, announced>>

Undecided == [over |-> FALSE, winner |-> "", cause |-> ""]

Results ==
  { [over |-> TRUE, winner |-> "FREE_PEOPLES", cause |-> "RING_DESTROYED"],
    [over |-> TRUE, winner |-> "SHADOW", cause |-> "RING_BEARER_CAPTURED"],
    [over |-> TRUE, winner |-> "NONE", cause |-> "DRAW"] }

Init == turn = 1 /\ outcome = Undecided /\ announced = 0

\* A turn that decides nothing.
Play ==
  /\ ~outcome.over /\ turn < MaxTurns
  /\ turn' = turn + 1
  /\ UNCHANGED <<outcome, announced>>

\* The turn that ends the game.
End ==
  /\ ~outcome.over
  /\ outcome' \in Results
  /\ outcome'.winner = "SHADOW" => turn > HiddenUntilTurn
  /\ outcome'.winner = "NONE" => turn = MaxTurns
  /\ announced' = announced + 1
  /\ UNCHANGED turn

Restart == turn' = 1 /\ outcome' = Undecided /\ announced' = 0

Next == Play \/ End \/ Restart

Spec == Init /\ [][Next]_vars
=============================================================================
