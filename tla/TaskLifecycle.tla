---------------------------- MODULE TaskLifecycle ----------------------------
(***************************************************************************)
(* The task state machine that queue/base.py declares for every queue:     *)
(*                                                                         *)
(*   queued -> running -> succeeded | failed,                              *)
(*   and running -> queued when the task has run past the stale threshold. *)
(***************************************************************************)
CONSTANT TaskIds

VARIABLE state

Init == state = [t \in TaskIds |-> "none"]

Legal == { <<"none", "queued">>, <<"queued", "running">>,
           <<"running", "succeeded">>, <<"running", "failed">>,
           <<"running", "queued">> }

\* Several tasks may move in one step: recover_stale takes all overdue ones.
Next == /\ DOMAIN state' = TaskIds
        /\ \A t \in TaskIds :
             state'[t] # state[t] => <<state[t], state'[t]>> \in Legal

Spec == Init /\ [][Next]_state
=============================================================================
