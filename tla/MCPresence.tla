----------------------------- MODULE MCPresence -----------------------------
(* Presence on a small instance, for TLC: one node that may move between   *)
(* regions and one that always sends its own, and a clock that just        *)
(* outlasts the timeout and the eviction.                                  *)
EXTENDS Presence

CONSTANTS n1, n2, eu

MCAgentRegions == [n \in Nodes |-> IF n = n1 THEN {NoRegion, eu} ELSE {eu}]
=============================================================================
