----------------------------- MODULE MCBackfill -----------------------------
(* An instance of Backfill for TLC: the collection runs with a short list. *)
EXTENDS Backfill
=============================================================================
