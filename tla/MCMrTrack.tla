------------------------------ MODULE MCMrTrack ------------------------------
(* The merge-request track on small instances. *)
EXTENDS MrTrack, TLC

Symmetry == Permutations(Workers) \cup Permutations(Producers)
=============================================================================
