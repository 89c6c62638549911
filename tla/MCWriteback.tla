----------------------------- MODULE MCWriteback -----------------------------
(* The write-back on small instances. *)
EXTENDS Writeback, TLC

CONSTANTS f1, f2, f3

\* Every finding has a line in the diff.
AllAnchored == {Findings}

\* One finding may be outside the diff, or move out of it.
OneMayMove == {Findings, Findings \ {f1}}

Symmetry == Permutations(Redeliverers)
=============================================================================
