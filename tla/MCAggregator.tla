---------------------------- MODULE MCAggregator ----------------------------
(* Aggregator on a small instance, for TLC: two regions, so that one can    *)
(* hang while the other answers.                                            *)
EXTENDS Aggregator
=============================================================================
