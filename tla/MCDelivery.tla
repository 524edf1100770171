----------------------------- MODULE MCDelivery -----------------------------
(***************************************************************************)
(* For TLC: one client of each side.  Channels have one place instead of   *)
(* 256 and 64.                                                             *)
(***************************************************************************)
EXTENDS DeliveryProps

OneEach == [c \in {"frodo", "witch-king"} |-> IF c = "frodo" THEN "light" ELSE "dark"]
=============================================================================
