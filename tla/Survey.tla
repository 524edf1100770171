------------------------------- MODULE Survey -------------------------------
(***************************************************************************)
(* What a call of an analysis pipeline promises, whatever its goroutines   *)
(* do: it gathers each candidate at most once and answers once, and unless *)
(* the two seconds have passed it has gathered all of them.                *)
(***************************************************************************)
EXTENDS Naturals

CONSTANT Calls   \* the numbers of candidates a call may have

VARIABLES size, gathered, expired, answered

vars == <<size, gathered, expired, answered>>

Init == size \in Calls /\ gathered = {} /\ expired = FALSE /\ answered = FALSE

Gather(j) ==
  /\ ~answered /\ j \in 1..size \ gathered /\ gathered' = gathered \cup {j}
  /\ UNCHANGED <<size, expired, answered>>

Expire == ~answered /\ expired' = TRUE /\ UNCHANGED <<size, gathered, answered>>

Answer ==
  /\ ~answered /\ answered' = TRUE
  /\ expired \/ gathered = 1..size
  /\ UNCHANGED <<size, gathered, expired>>

Next == (\E j \in 1..size : Gather(j)) \/ Expire \/ Answer

Spec == Init /\ [][Next]_vars
=============================================================================
