---------------------------- MODULE EvidenceLog ----------------------------
(***************************************************************************)
(* What the evidence store promises, with no files, processes or crashes:  *)
(* an append-only log of captures of public pages, at most one per capture *)
(* key, each one's bytes held before it is logged, and a tamper-evidence   *)
(* seal that follows the log one entry behind at most.  EvidenceStore      *)
(* (the files and the processes of snapshotter/store.py) implements it.    *)
(***************************************************************************)
EXTENDS Naturals, Sequences

CONSTANTS
  Records,        \* The captures that may be logged.
  Bodies,         \* The distinct response bodies.
  KeyOf,          \* The capture key of a record.
  BodyOf,         \* The body a record cites.
  Seed            \* The records an established store starts with.

VARIABLES
  log,            \* The captures, oldest first.
  sealed,         \* How many of them the integrity chain covers.
  held            \* The bodies that are stored whole.

vars == <<log, sealed, held>>

KeysLogged == {KeyOf[log[i]] : i \in 1..Len(log)}

Init ==
  /\ log = Seed
  /\ sealed = Len(Seed)
  /\ held = {BodyOf[Seed[i]] : i \in 1..Len(Seed)}

(* The bytes of a response become whole on disk. *)
Hold(b) ==
  /\ held' = held \cup {b}
  /\ UNCHANGED <<log, sealed>>

(* A capture of a key not yet logged, of bytes that are held, while every  *)
(* earlier capture is sealed.                                              *)
Record(r) ==
  /\ sealed = Len(log)
  /\ KeyOf[r] \notin KeysLogged
  /\ BodyOf[r] \in held
  /\ log' = Append(log, r)
  /\ UNCHANGED <<sealed, held>>

(* The chain catches up with the log. *)
Seal ==
  /\ sealed < Len(log)
  /\ sealed' = sealed + 1
  /\ UNCHANGED <<log, held>>

Next ==
  \/ \E b \in Bodies : Hold(b)
  \/ \E r \in Records : Record(r)
  \/ Seal

Spec == Init /\ [][Next]_vars
=============================================================================
