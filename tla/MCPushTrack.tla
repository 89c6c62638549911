----------------------------- MODULE MCPushTrack -----------------------------
(* The push track on small instances. *)
EXTENDS PushTrack, TLC

Symmetry == Permutations(Workers) \cup Permutations(Admins)
=============================================================================
