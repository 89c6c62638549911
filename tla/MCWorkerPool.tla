---------------------------- MODULE MCWorkerPool ----------------------------
(* The worker pool on a small instance; loops are interchangeable. *)
EXTENDS WorkerPool, TLC

Symmetry == Permutations(Workers)
=============================================================================
