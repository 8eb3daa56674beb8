------------------------------ MODULE MCIngest ------------------------------
(* Ingest on a small instance, for TLC: two agents, two events.  All events *)
(* name the first agent's node, so that the other's are foreign where       *)
(* agents are authenticated; the first also sends invalid ones.             *)
EXTENDS Ingest

CONSTANTS n1, n2

First(s) == s = CHOOSE x \in Streams : TRUE

MCIdentity == [s \in Streams |-> IF First(s) THEN n1 ELSE n2]

MCSent == [s \in Streams |-> {e \in Event : e.node = n1 /\ (e.valid \/ First(s))}]
=============================================================================
