------------------------- MODULE MCSubscriptionSync -------------------------
(* Instances of SubscriptionSync for TLC. *)
EXTENDS SubscriptionSync, TLC

CONSTANTS sA, sB, w1, w2
=============================================================================
