------------------------------ MODULE MCAgent ------------------------------
(* Agent, instantiated by the cfg files. *)
EXTENDS Agent
=============================================================================
