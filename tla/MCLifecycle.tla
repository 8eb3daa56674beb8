---------------------------- MODULE MCLifecycle ----------------------------
(* Two nodes, two token commands, one stream that may be opened again and  *)
(* again.  No symmetry: the run checks liveness.                           *)
EXTENDS Lifecycle
=============================================================================
