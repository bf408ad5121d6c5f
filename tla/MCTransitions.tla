--------------------------- MODULE MCTransitions ---------------------------
(* Instances of Transitions for TLC; its constants are numbers. *)
EXTENDS Transitions
=============================================================================
