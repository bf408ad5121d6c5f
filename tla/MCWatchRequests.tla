-------------------------- MODULE MCWatchRequests --------------------------
(* Instances of WatchRequests for TLC. *)
EXTENDS WatchRequests, TLC

CONSTANTS t1, t2, c1, c2, a1

Symmetric == Permutations(Threads) \cup Permutations(Clients)
=============================================================================
