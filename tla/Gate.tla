-------------------------------- MODULE Gate --------------------------------
(***************************************************************************)
(* What the concurrency gate of queue/concurrency.py promises: a counting  *)
(* semaphore whose limit may be changed at any time.  Nobody is admitted   *)
(* at or above the limit; lowering the limit evicts nobody; the limit is   *)
(* never below one.                                                        *)
(***************************************************************************)
EXTENDS Integers, FiniteSets

CONSTANT Workers

VARIABLES holders,  \* the workers that hold a slot
          limit

vars == <<holders, limit>>

Init == /\ holders = {}
        /\ limit \in Nat \ {0}

Admit(w) == /\ w \notin holders
            /\ Cardinality(holders) < limit
            /\ holders' = holders \cup {w}
            /\ UNCHANGED limit

Leave(w) == /\ w \in holders
            /\ holders' = holders \ {w}
            /\ UNCHANGED limit

SetLimit == /\ limit' \in Nat \ {0}
            /\ UNCHANGED holders

\* The process goes away: every slot is given back at once.
Vacate == /\ holders' = {}
          /\ UNCHANGED limit

Next == \/ \E w \in Workers : Admit(w) \/ Leave(w)
        \/ SetLimit
        \/ Vacate

Spec == Init /\ [][Next]_vars
=============================================================================
