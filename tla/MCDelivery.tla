----------------------------- MODULE MCDelivery -----------------------------
(***************************************************************************)
(* An instance of Delivery for TLC: one watch and two reviews, the         *)
(* scheduled notifier beside one started by hand.                          *)
(***************************************************************************)
EXTENDS Delivery, TLC

CONSTANTS w1, f1, f2, cron, hand
=============================================================================
