----------------------------- MODULE MCPipeline -----------------------------
(* Instances of Pipeline for TLC: the two cities of the script. *)
EXTENDS Pipeline, TLC

CONSTANTS r1, r2

MCCityOrder == <<"seattle", "denver">>
=============================================================================
