---------------------------- MODULE MCCollector ----------------------------
(***************************************************************************)
(* Instances of Collector for TLC: one event or two that share an          *)
(* attachment.  Version v1 lists and names everything; v2 is another       *)
(* version of the same, or one that names less; bad is usable as nothing.  *)
(***************************************************************************)
EXTENDS Collector, TLC

CONSTANTS v1, v2, bad, time0, time1, time2

MCListed == (v1 :> Events) @@ (v2 :> Events) @@ (bad :> {})

(* v2 of an event no longer names its attachments. *)
MCAttached == (v1 :> Attachments) @@ (v2 :> {}) @@ (bad :> {})

MCUnlinkedAgendas == [v \in {v1, v2, bad} |->
  IF v = v2 THEN {<<"agenda", e>> : e \in Events} ELSE {}]

MCPublished == (v1 :> time1) @@ (v2 :> time2) @@ (bad :> time0)
MCDescribed == [v \in {v1, v2, bad} |-> "note"]

MCFirst == [t \in Targets |-> v1]
MCAllTagged == Targets
=============================================================================
