------------------------------ MODULE PushTrack ------------------------------
(***************************************************************************)
(* The push track, _review_push_event, for one push: its (branch, after)   *)
(* pair has at most one audit row.  There is no head lock and no row       *)
(* before a worker opens the event: "the row exists" is how a repeated     *)
(* event is recognised.  Steps are cut as in MrTrack: one per repository   *)
(* call, ensure_task in two.                                               *)
(***************************************************************************)
EXTENDS Integers, FiniteSets

CONSTANTS
  Workers,
  Admins,       \* request handlers of stop and retry
  GateAnswers,  \* what the push settings may say: SUBSET BOOLEAN
  AdapterAnswers, \* whether the registry may have an adapter for the provider
  Stops,        \* TRUE: tasks are stopped by hand, too
  MaxEvents,    \* bound: deliveries of the webhook
  MaxManual,    \* bound: stops and retries
  MaxCrashes

ASSUME PushAssumption ==
  /\ Stops \in BOOLEAN
  /\ GateAnswers \subseteq BOOLEAN /\ GateAnswers # {}
  /\ AdapterAnswers \subseteq BOOLEAN /\ AdapterAnswers # {}
  /\ MaxEvents \in Nat /\ MaxManual \in Nat /\ MaxCrashes \in Nat

VARIABLES
  st,      \* the row's state, "none" when there is no row
  force,   \* the row's force_rerun
  queued,  \* how many tasks for this event wait on the queue
  wpc,     \* worker program counter
  forced,  \* the force a worker read with push_existing_audit
  apc,     \* admin request program counter
  boot,    \* "down", "starting", "up"
  adapter, \* the registry has an adapter for the push's provider
  posted,  \* history: summaries posted to the commit
  asked,   \* history: a manual execution was accepted and not yet reviewed
  unserved,  \* history: the last claimed task found no adapter, and none has been
             \* enqueued since
  deletion,  \* the push deletes its branch (after is all zero); never changes
  events, manual, crashes

rowVars   == <<st, force>>
workVars  == <<wpc, forced>>
eventVars == <<deletion, events, manual, crashes>>
bootVars  == <<boot, adapter>>
histVars  == <<posted, asked>>
vars == <<rowVars, queued, workVars, apc, bootVars, histVars, unserved, eventVars>>

-----------------------------------------------------------------------------
(* Workers *)

Goto(w, pc) == wpc' = [wpc EXCEPT ![w] = pc]

\* Mutant: the idempotence check is dropped; ensure_task alone decides.
LookNowhere(w) ==
  /\ wpc[w] = "look"
  /\ Goto(w, "select")
  /\ forced' = [forced EXCEPT ![w] = force]
  /\ UNCHANGED <<rowVars, queued, apc, bootVars, histVars, unserved, eventVars>>

\* The pool claims a task and process finds the adapter of its provider.
Claim(w) ==
  /\ boot # "down" /\ adapter
  /\ wpc[w] = "idle"
  /\ queued > 0
  /\ queued' = queued - 1
  /\ unserved' = FALSE
  /\ Goto(w, "look")
  /\ UNCHANGED <<rowVars, forced, apc, bootVars, histVars, eventVars>>

\* process finds none: the task is completed, the row stays as it is.
PassOver(w) ==
  /\ boot # "down" /\ ~adapter
  /\ wpc[w] = "idle"
  /\ queued > 0
  /\ queued' = queued - 1
  /\ unserved' = TRUE
  /\ UNCHANGED <<rowVars, workVars, apc, bootVars, histVars, eventVars>>

\* Mutant: force_rerun lets the event through but is not kept for the gate.
LookForgetsForce(w) ==
  /\ wpc[w] = "look"
  /\ Goto(w, IF st # "none" /\ ~force THEN "idle" ELSE "select")
  /\ forced' = [forced EXCEPT ![w] = FALSE]
  /\ UNCHANGED <<rowVars, queued, apc, bootVars, histVars, unserved, eventVars>>

\* push_existing_audit: any row means handled, unless it is marked force_rerun.
Look(w) ==
  /\ wpc[w] = "look"
  /\ Goto(w, IF st # "none" /\ ~force THEN "idle" ELSE "select")
  /\ forced' = [forced EXCEPT ![w] = st # "none" /\ force]
  /\ UNCHANGED <<rowVars, queued, apc, bootVars, histVars, unserved, eventVars>>

Select(w) ==
  /\ wpc[w] = "select"
  /\ Goto(w, CASE st \in {"running", "skipped"} -> "idle"
               [] st = "none" -> "insert"
               [] OTHER -> "mark")
  /\ UNCHANGED <<rowVars, queued, forced, apc, bootVars, histVars, unserved, eventVars>>

\* uq_review_push lets one of two INSERTs through.
Insert(w) ==
  /\ wpc[w] = "insert"
  /\ IF st = "none"
     THEN st' = "queued" /\ force' = FALSE /\ Goto(w, "mark")
     ELSE UNCHANGED rowVars /\ Goto(w, "idle")
  /\ UNCHANGED <<queued, forced, apc, bootVars, histVars, unserved, eventVars>>

MarkRunning(w) ==
  /\ wpc[w] = "mark"
  /\ st' = "running"
  /\ Goto(w, IF forced[w] THEN "clear" ELSE "gate")
  /\ UNCHANGED <<force, queued, forced, apc, bootVars, histVars, unserved, eventVars>>

ClearForce(w) ==
  /\ wpc[w] = "clear"
  /\ force' = FALSE
  /\ Goto(w, "gate")
  /\ UNCHANGED <<st, queued, forced, apc, bootVars, histVars, unserved, eventVars>>

GateOpen(w) ==
  /\ wpc[w] = "gate"
  /\ ~deletion
  /\ forced[w] \/ TRUE \in GateAnswers
  /\ Goto(w, "review")
  /\ asked' = FALSE
  /\ UNCHANGED <<rowVars, queued, forced, apc, bootVars, posted, unserved, eventVars>>

\* Nothing to review after a branch deletion, push_disabled, branch_mismatch.
GateClosed(w) ==
  /\ wpc[w] = "gate"
  /\ deletion \/ (~forced[w] /\ FALSE \in GateAnswers)
  /\ st' = "skipped"
  /\ Goto(w, "idle")
  /\ UNCHANGED <<force, queued, forced, apc, bootVars, histVars, unserved, eventVars>>

\* No file to review, or no changed line: completed without a summary.
NothingToReview(w) ==
  /\ wpc[w] = "review"
  /\ st' = "completed"
  /\ Goto(w, "idle")
  /\ UNCHANGED <<force, queued, forced, apc, bootVars, histVars, unserved, eventVars>>

PostSummary(w) ==
  /\ wpc[w] = "review"
  /\ posted' = posted + 1
  /\ Goto(w, "record")
  /\ UNCHANGED <<rowVars, queued, forced, apc, bootVars, asked, unserved, eventVars>>

\* insert_findings, set_exec_metrics, mark_state completed.
Record(w) ==
  /\ wpc[w] = "record"
  /\ st' = "completed"
  /\ Goto(w, "idle")
  /\ UNCHANGED <<force, queued, forced, apc, bootVars, histVars, unserved, eventVars>>

\* Mutant: an exception leaves the row as it is.
FailSilently(w) ==
  /\ wpc[w] \in {"gate", "review", "record"}
  /\ Goto(w, "idle")
  /\ UNCHANGED <<rowVars, queued, forced, apc, bootVars, histVars, unserved, eventVars>>

\* Diff, review, summary or findings raise.
Fail(w) ==
  /\ wpc[w] \in {"gate", "review", "record"}
  /\ st' = "failed"
  /\ asked' = FALSE
  /\ Goto(w, "idle")
  /\ UNCHANGED <<force, queued, forced, apc, bootVars, posted, unserved, eventVars>>

Work(w) == \/ Claim(w) \/ PassOver(w) \/ Look(w) \/ Select(w) \/ Insert(w)
           \/ MarkRunning(w) \/ ClearForce(w) \/ GateOpen(w) \/ GateClosed(w)
           \/ NothingToReview(w) \/ PostSummary(w) \/ Record(w) \/ Fail(w)

-----------------------------------------------------------------------------
(* Events, admin requests, life cycle *)

\* Enqueued without a look at the registry.
Enqueue == queued' = queued + 1 /\ unserved' = FALSE

\* The webhook only enqueues: scribble_queued_task makes no push row.
Webhook ==
  /\ boot = "up"
  /\ events < MaxEvents
  /\ events' = events + 1
  /\ Enqueue
  /\ UNCHANGED <<rowVars, workVars, apc, bootVars, histVars, deletion, manual, crashes>>

Accept(a, pc) ==
  /\ boot = "up"
  /\ manual < MaxManual
  /\ manual' = manual + 1
  /\ apc[a] = "idle"
  /\ apc' = [apc EXCEPT ![a] = pc]
  /\ UNCHANGED <<rowVars, queued, workVars, bootVars, histVars, unserved, deletion, events, crashes>>

StopRead(a)  == Stops /\ st = "queued" /\ Accept(a, "stop")
RetryRead(a) == st \in {"failed", "skipped"} /\ Accept(a, "retryQueued")

StopWrite(a) ==
  /\ apc[a] = "stop"
  /\ st' = "skipped"
  /\ asked' = FALSE
  /\ apc' = [apc EXCEPT ![a] = "idle"]
  /\ UNCHANGED <<force, queued, workVars, bootVars, posted, unserved, eventVars>>

RetryQueued(a) ==
  /\ apc[a] = "retryQueued"
  /\ st' = "queued"
  /\ asked' = TRUE
  /\ apc' = [apc EXCEPT ![a] = "retryForce"]
  /\ UNCHANGED <<force, queued, workVars, bootVars, posted, unserved, eventVars>>

RetryForce(a) ==
  /\ apc[a] = "retryForce"
  /\ force' = TRUE
  /\ apc' = [apc EXCEPT ![a] = "retryEnqueue"]
  /\ UNCHANGED <<st, queued, workVars, bootVars, histVars, unserved, eventVars>>

RetryEnqueue(a) ==
  /\ apc[a] = "retryEnqueue"
  /\ Enqueue
  /\ apc' = [apc EXCEPT ![a] = "idle"]
  /\ UNCHANGED <<rowVars, workVars, bootVars, histVars, eventVars>>

Administer(a) == StopWrite(a) \/ RetryQueued(a) \/ RetryForce(a) \/ RetryEnqueue(a)

StartPool ==
  /\ boot = "down"
  /\ boot' = "starting"
  /\ UNCHANGED <<rowVars, queued, workVars, apc, adapter, histVars, unserved, eventVars>>

\* pending_for_replay and replay_pending_tasks.
Replay ==
  /\ boot = "starting"
  /\ boot' = "up"
  /\ IF st \in {"queued", "running"}
     THEN st' = "queued" /\ Enqueue
     ELSE UNCHANGED <<st, queued, unserved>>
  /\ UNCHANGED <<force, workVars, apc, adapter, histVars, eventVars>>

\* Saving a provider's configuration rebuilds the whole table of adapters.
RefreshAdapters ==
  /\ boot = "up"
  /\ adapter' \in AdapterAnswers
  /\ UNCHANGED <<rowVars, queued, workVars, apc, boot, histVars, unserved, eventVars>>

Crash ==
  /\ crashes < MaxCrashes
  /\ crashes' = crashes + 1
  /\ boot # "down"
  /\ boot' = "down"
  /\ queued' = 0
  /\ wpc' = [w \in Workers |-> "idle"]
  /\ forced' = [w \in Workers |-> FALSE]
  /\ apc' = [a \in Admins |-> "idle"]
  /\ adapter' \in AdapterAnswers
  /\ UNCHANGED <<rowVars, histVars, unserved, deletion, events, manual>>

-----------------------------------------------------------------------------

Init ==
  /\ st = "none" /\ force = FALSE
  /\ queued = 0
  /\ wpc = [w \in Workers |-> "idle"]
  /\ forced = [w \in Workers |-> FALSE]
  /\ apc = [a \in Admins |-> "idle"]
  /\ boot = "down" /\ adapter \in AdapterAnswers
  /\ posted = 0
  /\ asked = FALSE /\ unserved = FALSE
  /\ deletion \in BOOLEAN
  /\ events = 0 /\ manual = 0 /\ crashes = 0

Next == \/ \E w \in Workers : Work(w)
        \/ \E a \in Admins : StopRead(a) \/ RetryRead(a) \/ Administer(a)
        \/ Webhook \/ RefreshAdapters
        \/ StartPool \/ Replay \/ Crash

Spec == Init /\ [][Next]_vars

Fairness == /\ \A w \in Workers : WF_vars(Work(w))
            /\ \A a \in Admins : WF_vars(Administer(a))
            /\ WF_vars(StartPool \/ Replay)

FairSpec == Spec /\ Fairness

-----------------------------------------------------------------------------
(* Properties *)

Reviewing == {"clear", "gate", "review", "record"}

\* Once the replay has run, a row that says "running" has a worker on it,
\* although nothing but the row keeps two workers apart.
RunningHasReviewer ==
  boot = "up" /\ st = "running" => \E w \in Workers : wpc[w] \in Reviewing

\* One worker at a time: the first delivery posts a summary, also when its
\* review failed, repeated deliveries post none, and every accepted manual
\* execution posts one more at most.
OneSummary == posted <= 1 + manual

\* One worker at a time: a manual execution is reviewed or fails visibly,
\* whatever the settings say and whichever older task of the same push runs
\* between its commits: the intent is neither lost nor spent for nothing.
\* A deleted branch leaves nothing to review; and the retry, which asks for a
\* pool only, may enqueue a task that finds no adapter for its provider: it is
\* completed with a line in the log, and the row goes on saying "queued".
ManualRunHonoured == asked /\ ~deletion ~> ~asked \/ unserved
=============================================================================
