-------------------------- MODULE MCEvidenceStore --------------------------
(***************************************************************************)
(* Instances of EvidenceStore for TLC: a collector, w1, and the web        *)
(* service, which only reads.  k1 and k2 are captures of two targets with  *)
(* the same bytes (a body file is shared by hash); k3 has bytes of its     *)
(* own.                                                                    *)
(***************************************************************************)
EXTENDS EvidenceStore, TLC

CONSTANTS w1, web, k1, k2, k3, b1, b2

MCBodyOf == (k1 :> b1) @@ (k2 :> b1) @@ (k3 :> b2)

EmptySeed == <<>>
=============================================================================
