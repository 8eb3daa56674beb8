---------------------------- MODULE MCDispatcher ----------------------------
(* More goroutine identities than slots, so that a slot given out twice or  *)
(* lost shows.                                                              *)
EXTENDS Dispatcher, TLC

WorkerSymmetry == Permutations(Workers)
=============================================================================
