----------------------------- MODULE MCDocuments ----------------------------
(* An instance of Documents for TLC: one attachment. *)
EXTENDS Documents

(* The later bytes are the shorter document. *)
MCPageCount == [v \in 1..2 |-> 3 - v]
=============================================================================
