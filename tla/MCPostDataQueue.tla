-------------------------- MODULE MCPostDataQueue --------------------------
(* PostDataQueue for TLC.                                                  *)
EXTENDS PostDataQueue, TLC

Symmetry == Permutations(Job) \cup Permutations(Worker)
=============================================================================
