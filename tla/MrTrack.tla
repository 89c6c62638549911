------------------------------- MODULE MrTrack -------------------------------
(***************************************************************************)
(* The merge-request track for one merge request: the review_task rows of  *)
(* its heads, everybody who writes them, and the queue between them.       *)
(*                                                                         *)
(*   producers   webhook (QueueEnqueuer.enqueue + scribble_queued_task),   *)
(*               the poller's per-PR steps, the admin's stop and retry     *)
(*   workers     process -> review_pull_request -> _do_review_pull_request *)
(*   life cycle  startup, lazy start, replay of unfinished rows, crash     *)
(*                                                                         *)
(* Every repository call opens its own session and commits, so each is one *)
(* step; ensure_task is two, its SELECT and its INSERT, because the unique *)
(* index decides between them.  The gate, the idle loops and the ages of   *)
(* the tasks are in WorkerPool; here a worker is a loop that has a slot.   *)
(***************************************************************************)
EXTENDS Integers, Sequences, FiniteSets, SequencesExt

CONSTANTS
  Heads,        \* the head commits the merge request goes through
  Workers,      \* as many as the concurrency limit
  Producers,    \* request handlers and the poller
  None,         \* no worker, no head
  Roles,        \* which of "webhook", "poll", "stop", "retry" occur
  GateAnswers,  \* what the automatic-review settings may say: SUBSET BOOLEAN
  AdapterAnswers, \* whether the registry may have an adapter for the provider
  LazyBoot,     \* TRUE: the service may start before a model is configured
  MaxOps,       \* bound: producer operations
  MaxRequeues,  \* bound: recover_stale of a task still being processed
  MaxCrashes    \* bound: crashes

ASSUME MrAssumption ==
  /\ None \notin Heads /\ None \notin Workers
  /\ Roles \subseteq {"webhook", "poll", "stop", "retry"}
  /\ GateAnswers \subseteq BOOLEAN /\ GateAnswers # {}
  /\ AdapterAnswers \subseteq BOOLEAN /\ AdapterAnswers # {}
  /\ LazyBoot \in BOOLEAN
  /\ MaxOps \in Nat /\ MaxRequeues \in Nat /\ MaxCrashes \in Nat

VARIABLES
  row,      \* review_task by head: st ("none" when absent) and force_rerun
  order,    \* the heads that have a row, by row id
  queue,    \* queued tasks: a head, and the worker still on the same task id
  lock,     \* _head_locks: the worker that holds the head's lock
  wpc,      \* worker program counter
  whead,    \* the head a worker is processing
  ppc,      \* producer program counter
  phead,    \* the head a producer's operation is about
  phold,    \* can_run() said no when the operation started
  phase,    \* "down", "held" (no worker pool), "starting", "replaying", "up"
  serving,  \* HTTP requests are served
  adapter,  \* the registry has an adapter for the merge request's provider
  replay,   \* the set of heads the replay has still to enqueue
  unserved, \* history: the heads whose last claimed task found no adapter, and
            \* that have not been enqueued since
  ops, requeues, crashes

rowVars   == <<row, order>>
workVars  == <<wpc, whead, lock>>
prodVars  == <<ppc, phead, phold>>
bootVars  == <<phase, serving, adapter, replay>>
boundVars == <<ops, requeues, crashes>>
vars == <<rowVars, queue, workVars, prodVars, bootVars, unserved, boundVars>>

States == {"none", "queued", "running", "skipped", "completed", "failed"}

-----------------------------------------------------------------------------
(* The rows *)

Exists(h) == row[h].st # "none"

\* mark_state and the admin's row.state = ...: whatever was there before.
SetState(h, st) == row' = [row EXCEPT ![h].st = st]
SetForce(h, b)  == row' = [row EXCEPT ![h].force = b]

\* Mutant: a new row starts in a state the state machine does not have.
InsertNewRow(h) == /\ row' = [row EXCEPT ![h] = [st |-> "new", force |-> FALSE]]
                   /\ order' = Append(order, h)

InsertRow(h) == /\ row' = [row EXCEPT ![h] = [st |-> "queued", force |-> FALSE]]
                /\ order' = Append(order, h)

Completed == {h \in Heads : row[h].st = "completed"}

\* Mutant: last_ok_review orders by id ascending.
IsFirstOk(h) == /\ h \in Completed
                /\ \A i, j \in DOMAIN order :
                     order[i] = h /\ order[j] \in Completed => j >= i

\* last_ok_review: the completed row with the largest id.
IsLastOk(h) == /\ h \in Completed
               /\ \A i, j \in DOMAIN order :
                    order[i] = h /\ order[j] \in Completed => j <= i

\* Mutant: ensure_task hands out rows that are not to be started.
UntouchableRunning(h) == row[h].st = "running"

\* What ensure_task answers to a row it finds: None for one being reviewed
\* and for one nobody is to start, else the id.
Untouchable(h) == row[h].st \in {"running", "skipped"}

-----------------------------------------------------------------------------
(* Workers *)

Goto(w, pc) == wpc' = [wpc EXCEPT ![w] = pc]

\* The queue without the entry of a task that w ends: whether process returns
\* or raises, complete() or fail() leaves the task id in a final state, and if
\* recover_stale has put it back, claim() drops it.
QueueWithout(w) ==
  IF \E i \in DOMAIN queue : queue[i].holder = w
  THEN RemoveAt(queue, CHOOSE i \in DOMAIN queue : queue[i].holder = w)
  ELSE queue

Done(w) == /\ wpc' = [wpc EXCEPT ![w] = "idle"]
           /\ whead' = [whead EXCEPT ![w] = None]
           /\ queue' = QueueWithout(w)

Release(w) == /\ lock' = [lock EXCEPT ![whead[w]] = None]
              /\ Done(w)

PoolUp == phase \in {"starting", "replaying", "up"}

\* The pool claims a task and process finds the adapter of its provider.
Claim(w) ==
  /\ PoolUp /\ adapter
  /\ wpc[w] = "idle"
  /\ queue # <<>>
  /\ whead' = [whead EXCEPT ![w] = Head(queue).head]
  /\ queue' = Tail(queue)
  /\ unserved' = unserved \ {Head(queue).head}
  /\ Goto(w, "lock")
  /\ UNCHANGED <<rowVars, lock, prodVars, bootVars, boundVars>>

\* process finds none: it logs and returns, the task is completed, and the row
\* stays as it is.  The pool runs on for the sake of the other providers.
PassOver(w) ==
  /\ PoolUp /\ ~adapter
  /\ wpc[w] = "idle"
  /\ queue # <<>>
  /\ queue' = Tail(queue)
  /\ unserved' = unserved \cup {Head(queue).head}
  /\ UNCHANGED <<rowVars, workVars, prodVars, bootVars, boundVars>>

\* Mutant: review_pull_request without the per-head lock.
TakeNoLock(w) ==
  /\ wpc[w] = "lock"
  /\ lock' = [lock EXCEPT ![whead[w]] = w]
  /\ Goto(w, "decide")
  /\ UNCHANGED <<rowVars, queue, whead, prodVars, bootVars, unserved, boundVars>>

\* review_pull_request: async with the head's lock.
TakeLock(w) ==
  /\ wpc[w] = "lock"
  /\ lock[whead[w]] = None
  /\ lock' = [lock EXCEPT ![whead[w]] = w]
  /\ Goto(w, "decide")
  /\ UNCHANGED <<rowVars, queue, whead, prodVars, bootVars, unserved, boundVars>>

\* Mutant: the early return forgets to release a lock taken by hand.
DecideAlreadyLeaksLock(w) ==
  /\ wpc[w] = "decide"
  /\ IsLastOk(whead[w])
  /\ Done(w)
  /\ UNCHANGED <<rowVars, lock, prodVars, bootVars, unserved, boundVars>>

\* last_ok_review and decide_from_ref.
DecideAlready(w) ==
  /\ wpc[w] = "decide"
  /\ IsLastOk(whead[w])
  /\ Release(w)
  /\ UNCHANGED <<rowVars, prodVars, bootVars, unserved, boundVars>>

DecideReview(w) ==
  /\ wpc[w] = "decide"
  /\ ~IsLastOk(whead[w])
  /\ Goto(w, "select")
  /\ UNCHANGED <<rowVars, queue, lock, whead, prodVars, bootVars, unserved, boundVars>>

\* ensure_task, SELECT.
Select(w) ==
  /\ wpc[w] = "select"
  /\ IF Untouchable(whead[w])
     THEN Release(w)
     ELSE /\ Goto(w, IF Exists(whead[w]) THEN "mark" ELSE "insert")
          /\ UNCHANGED <<queue, lock, whead>>
  /\ UNCHANGED <<rowVars, prodVars, bootVars, unserved, boundVars>>

\* ensure_task, INSERT: the unique index refuses a second row of the head.
Insert(w) ==
  /\ wpc[w] = "insert"
  /\ IF Exists(whead[w])
     THEN Release(w) /\ UNCHANGED rowVars
     ELSE /\ InsertRow(whead[w])
          /\ Goto(w, "mark")
          /\ UNCHANGED <<queue, lock, whead>>
  /\ UNCHANGED <<prodVars, bootVars, unserved, boundVars>>

MarkRunning(w) ==
  /\ wpc[w] = "mark"
  /\ SetState(whead[w], "running")
  /\ Goto(w, "gate")
  /\ UNCHANGED <<order, queue, lock, whead, prodVars, bootVars, unserved, boundVars>>

\* The settings are read, then force_rerun_flag.
GateForced(w) ==
  /\ wpc[w] = "gate"
  /\ row[whead[w]].force
  /\ Goto(w, "clear")
  /\ UNCHANGED <<rowVars, queue, lock, whead, prodVars, bootVars, unserved, boundVars>>

ClearForce(w) ==
  /\ wpc[w] = "clear"
  /\ SetForce(whead[w], FALSE)
  /\ Goto(w, "review")
  /\ UNCHANGED <<order, queue, lock, whead, prodVars, bootVars, unserved, boundVars>>

GateOpen(w) ==
  /\ wpc[w] = "gate"
  /\ ~row[whead[w]].force
  /\ TRUE \in GateAnswers
  /\ Goto(w, "review")
  /\ UNCHANGED <<rowVars, queue, lock, whead, prodVars, bootVars, unserved, boundVars>>

\* mr_disabled or branch_mismatch: nothing is reviewed.
GateClosed(w) ==
  /\ wpc[w] = "gate"
  /\ ~row[whead[w]].force
  /\ FALSE \in GateAnswers
  /\ Goto(w, "skip")
  /\ UNCHANGED <<rowVars, queue, lock, whead, prodVars, bootVars, unserved, boundVars>>

MarkSkipped(w) ==
  /\ wpc[w] = "skip"
  /\ SetState(whead[w], "skipped")
  /\ Release(w)
  /\ UNCHANGED <<order, prodVars, bootVars, unserved, boundVars>>

\* Fetch, filter, review, findings, write-back: the row ends completed (also
\* with nothing to review, also when only the write-back failed) ...
ReviewDone(w) ==
  /\ wpc[w] = "review"
  /\ SetState(whead[w], "completed")
  /\ Goto(w, "status")
  /\ UNCHANGED <<order, queue, lock, whead, prodVars, bootVars, unserved, boundVars>>

\* Mutant: the exception is raised on without recording the failure.
ReviewFailsSilently(w) ==
  /\ wpc[w] = "review"
  /\ Release(w)
  /\ UNCHANGED <<rowVars, prodVars, bootVars, unserved, boundVars>>

\* ... or, on an exception, failed, and the exception goes on to the worker.
ReviewFailed(w) ==
  /\ wpc[w] = "review"
  /\ SetState(whead[w], "failed")
  /\ Release(w)
  /\ UNCHANGED <<order, prodVars, bootVars, unserved, boundVars>>

\* post_commit_status and the notification; their errors are swallowed.
CommitStatus(w) ==
  /\ wpc[w] = "status"
  /\ Release(w)
  /\ UNCHANGED <<rowVars, prodVars, bootVars, unserved, boundVars>>

\* recover_stale: the task has been running past the threshold, its id goes
\* back on the queue while the worker is still on it.
RecoverStale(w) ==
  /\ requeues < MaxRequeues
  /\ wpc[w] # "idle"
  /\ \A e \in Range(queue) : e.holder # w
  /\ queue' = Append(queue, [head |-> whead[w], holder |-> w])
  /\ requeues' = requeues + 1
  /\ UNCHANGED <<rowVars, workVars, prodVars, bootVars, unserved, ops, crashes>>

Work(w) == \/ Claim(w) \/ PassOver(w) \/ TakeLock(w)
           \/ DecideAlready(w) \/ DecideReview(w) \/ Select(w) \/ Insert(w)
           \/ MarkRunning(w)
           \/ GateForced(w) \/ ClearForce(w) \/ GateOpen(w)
           \/ GateClosed(w) \/ MarkSkipped(w)
           \/ ReviewDone(w) \/ ReviewFailed(w) \/ CommitStatus(w)

-----------------------------------------------------------------------------
(* Producers *)

\* Enqueued without a look at the registry.
Push(h) == /\ queue' = Append(queue, [head |-> h, holder |-> None])
           /\ unserved' = unserved \ {h}

Begin(p, role, h, pc) ==
  /\ role \in Roles
  /\ ops < MaxOps
  /\ ppc[p] = "idle"
  /\ ppc' = [ppc EXCEPT ![p] = pc]
  /\ phead' = [phead EXCEPT ![p] = h]
  /\ ops' = ops + 1

Step(p, pc) == /\ ppc' = [ppc EXCEPT ![p] = pc]
               /\ UNCHANGED <<phead, phold>>

Return(p) == /\ ppc' = [ppc EXCEPT ![p] = "idle"]
             /\ phead' = [phead EXCEPT ![p] = None]
             /\ phold' = [phold EXCEPT ![p] = FALSE]

\* QueueEnqueuer.enqueue: with a pool the task goes on the queue first, the
\* row is made after; without one only the row is made, to be held.
Webhook(p, h) ==
  /\ serving /\ adapter
  /\ Begin(p, "webhook", h, "scribbleSelect")
  /\ phold' = [phold EXCEPT ![p] = ~PoolUp]
  /\ IF PoolUp THEN Push(h) ELSE UNCHANGED <<queue, unserved>>
  /\ UNCHANGED <<rowVars, workVars, bootVars, requeues, crashes>>

\* Without an adapter the event cannot be read, so no row is made of it.
WebhookUnread(p, h) ==
  /\ serving /\ ~adapter
  /\ "webhook" \in Roles
  /\ ops < MaxOps /\ ops' = ops + 1
  /\ ppc[p] = "idle"
  /\ IF PoolUp THEN Push(h) ELSE UNCHANGED <<queue, unserved>>
  /\ UNCHANGED <<rowVars, workVars, prodVars, bootVars, requeues, crashes>>

ScribbleSelect(p) ==
  LET h == phead[p] IN
  /\ ppc[p] = "scribbleSelect"
  /\ IF ~Exists(h) THEN Step(p, "scribbleInsert")
     ELSE IF phold[p] /\ ~Untouchable(h) THEN Step(p, "hold")
     ELSE Return(p)
  /\ UNCHANGED <<rowVars, queue, workVars, bootVars, unserved, boundVars>>

ScribbleInsert(p) ==
  LET h == phead[p] IN
  /\ ppc[p] = "scribbleInsert"
  /\ IF Exists(h) THEN Return(p) /\ UNCHANGED rowVars
     ELSE /\ InsertRow(h)
          /\ IF phold[p] THEN Step(p, "hold") ELSE Return(p)
  /\ UNCHANGED <<queue, workVars, bootVars, unserved, boundVars>>

\* mark_not_started_if_pending: one UPDATE ... WHERE state IN (...).
Hold(p) ==
  /\ ppc[p] = "hold"
  /\ IF row[phead[p]].st \in {"queued", "running"}
     THEN SetState(phead[p], "skipped") ELSE UNCHANGED row
  /\ Return(p)
  /\ UNCHANGED <<order, queue, workVars, bootVars, unserved, boundVars>>

\* PRPoller: one round at a time (_run_lock), the listed PRs one by one.
Polling == {"pollSelect", "pollInsert", "pollEnqueue"}

PollCheck(p, h) ==
  /\ serving \/ PoolUp
  /\ adapter   \* a project whose platform has none is left out
  /\ \A q \in Producers : ppc[q] \notin Polling
  /\ row[h].st \in {"none", "failed"}   \* poll_skip
  /\ Begin(p, "poll", h, "pollSelect")
  /\ UNCHANGED <<rowVars, queue, workVars, phold, bootVars, unserved, requeues, crashes>>

PollSelect(p) ==
  LET h == phead[p] IN
  /\ ppc[p] = "pollSelect"
  /\ IF ~Exists(h) THEN Step(p, "pollInsert")
     ELSE IF Untouchable(h) THEN Return(p)
     ELSE Step(p, "pollEnqueue")
  /\ UNCHANGED <<rowVars, queue, workVars, bootVars, unserved, boundVars>>

PollInsert(p) ==
  /\ ppc[p] = "pollInsert"
  /\ IF Exists(phead[p]) THEN Return(p) /\ UNCHANGED rowVars
     ELSE InsertRow(phead[p]) /\ Step(p, "pollEnqueue")
  /\ UNCHANGED <<queue, workVars, bootVars, unserved, boundVars>>

PollEnqueue(p) ==
  /\ ppc[p] = "pollEnqueue"
  /\ IF PoolUp THEN Push(phead[p]) /\ Return(p)
     ELSE Step(p, "hold") /\ UNCHANGED <<queue, unserved>>
  /\ UNCHANGED <<rowVars, workVars, bootVars, boundVars>>

\* stop_task: the row is read, permissions are looked up, the row is written.
StopRead(p, h) ==
  /\ serving
  /\ row[h].st = "queued"
  /\ Begin(p, "stop", h, "stopWrite")
  /\ UNCHANGED <<rowVars, queue, workVars, phold, bootVars, unserved, requeues, crashes>>

StopWrite(p) ==
  /\ ppc[p] = "stopWrite"
  /\ SetState(phead[p], "skipped")
  /\ Return(p)
  /\ UNCHANGED <<order, queue, workVars, bootVars, unserved, boundVars>>

\* retry_task: read, _retryable, _ensure_runnable (which may start the pool),
\* then _requeue_row in three commits: queued; force_rerun; the queue.
RetryRead(p, h) ==
  /\ serving
  /\ row[h].st \in {"failed", "skipped"}
  /\ Begin(p, "retry", h, "retryQueued")
  /\ UNCHANGED <<rowVars, queue, workVars, phold, bootVars, unserved, requeues, crashes>>

RetryRefused(p) ==
  /\ ppc[p] = "retryQueued"
  /\ ~PoolUp
  /\ Return(p)
  /\ UNCHANGED <<rowVars, queue, workVars, bootVars, unserved, boundVars>>

RetryQueued(p) ==
  /\ ppc[p] = "retryQueued"
  /\ PoolUp
  /\ SetState(phead[p], "queued")
  /\ Step(p, "retryForce")
  /\ UNCHANGED <<order, queue, workVars, bootVars, unserved, boundVars>>

RetryForce(p) ==
  /\ ppc[p] = "retryForce"
  /\ SetForce(phead[p], TRUE)
  /\ Step(p, "retryEnqueue")
  /\ UNCHANGED <<order, queue, workVars, bootVars, unserved, boundVars>>

\* With a payload this goes through enqueue(), whose scribble finds the row.
RetryEnqueue(p) ==
  /\ ppc[p] = "retryEnqueue"
  /\ Push(phead[p])
  /\ Return(p)
  /\ UNCHANGED <<rowVars, workVars, bootVars, boundVars>>

Produce(p) == \/ ScribbleSelect(p) \/ ScribbleInsert(p) \/ Hold(p)
              \/ PollSelect(p) \/ PollInsert(p) \/ PollEnqueue(p)
              \/ StopWrite(p) \/ RetryRefused(p)
              \/ RetryQueued(p) \/ RetryForce(p) \/ RetryEnqueue(p)

Request(p, h) == \/ Webhook(p, h) \/ WebhookUnread(p, h) \/ PollCheck(p, h)
                 \/ StopRead(p, h) \/ RetryRead(p, h)

-----------------------------------------------------------------------------
(* Life cycle *)

\* ensure_worker_started: the pool runs before the replay looks at the rows.
StartPool ==
  /\ phase = "down" \/ phase = "held"
  /\ phase' = "starting"
  /\ UNCHANGED <<rowVars, queue, workVars, prodVars, serving, adapter, replay, unserved, boundVars>>

\* main: no pool after startup, so unfinished rows become "not started".
StartHeld ==
  /\ LazyBoot
  /\ phase = "down"
  /\ phase' = "held"
  /\ serving' = TRUE
  /\ row' = [h \in Heads |-> IF row[h].st \in {"queued", "running"}
                             THEN [row[h] EXCEPT !.st = "skipped"] ELSE row[h]]
  /\ UNCHANGED <<order, queue, workVars, prodVars, adapter, replay, unserved, boundVars>>

\* Mutant: rows without a payload, the poller's, are not replayed.
ReplayNoRows ==
  /\ phase = "starting"
  /\ phase' = "replaying"
  /\ replay' = {}
  /\ row' = [h \in Heads |-> IF row[h].st = "running" THEN [row[h] EXCEPT !.st = "queued"]
                             ELSE row[h]]
  /\ UNCHANGED <<order, queue, workVars, prodVars, serving, adapter, unserved, boundVars>>

\* pending_for_replay.
ReplayRows ==
  LET Pending(h) == row[h].st \in {"queued", "running"} IN
  /\ phase = "starting"
  /\ phase' = "replaying"
  /\ replay' = {h \in Heads : Pending(h)}
  /\ row' = [h \in Heads |-> IF Pending(h) THEN [row[h] EXCEPT !.st = "queued"]
                             ELSE row[h]]
  /\ UNCHANGED <<order, queue, workVars, prodVars, serving, adapter, unserved, boundVars>>

\* replay_pending_tasks, one row after the other, by row id.
ReplayNext ==
  /\ phase = "replaying"
  /\ \E h \in replay :
       /\ \A i, j \in DOMAIN order :
            order[i] = h /\ order[j] \in replay => i <= j
       /\ Push(h)
       /\ replay' = replay \ {h}
  /\ UNCHANGED <<rowVars, workVars, prodVars, phase, serving, adapter, boundVars>>

ReplayEnd ==
  /\ phase = "replaying"
  /\ replay = {}
  /\ phase' = "up"
  /\ serving' = TRUE
  /\ UNCHANGED <<rowVars, queue, workVars, prodVars, adapter, replay, unserved, boundVars>>

\* refresh_all after the credentials of a platform were saved; the pool is not
\* asked whether it still has something to do.
RefreshAdapters ==
  /\ serving
  /\ adapter' \in AdapterAnswers \ {adapter}
  /\ UNCHANGED <<rowVars, queue, workVars, prodVars, phase, serving, replay, unserved, boundVars>>

\* The process dies, or stops: only the rows survive.  The next one reads the
\* credentials anew.
Crash ==
  /\ crashes < MaxCrashes
  /\ phase # "down"
  /\ crashes' = crashes + 1
  /\ queue' = <<>>
  /\ lock' = [h \in Heads |-> None]
  /\ wpc' = [w \in Workers |-> "idle"]
  /\ whead' = [w \in Workers |-> None]
  /\ ppc' = [p \in Producers |-> "idle"]
  /\ phead' = [p \in Producers |-> None]
  /\ phold' = [p \in Producers |-> FALSE]
  /\ phase' = "down" /\ serving' = FALSE /\ replay' = {}
  /\ adapter' \in AdapterAnswers
  /\ UNCHANGED <<rowVars, unserved, ops, requeues>>

Boot == StartPool \/ StartHeld \/ ReplayRows \/ ReplayNext \/ ReplayEnd

-----------------------------------------------------------------------------

Init ==
  /\ row = [h \in Heads |-> [st |-> "none", force |-> FALSE]]
  /\ order = <<>>
  /\ queue = <<>>
  /\ lock = [h \in Heads |-> None]
  /\ wpc = [w \in Workers |-> "idle"]
  /\ whead = [w \in Workers |-> None]
  /\ ppc = [p \in Producers |-> "idle"]
  /\ phead = [p \in Producers |-> None]
  /\ phold = [p \in Producers |-> FALSE]
  /\ phase = "down"
  /\ serving = FALSE
  /\ adapter \in AdapterAnswers
  /\ replay = {}
  /\ unserved = {}
  /\ ops = 0 /\ requeues = 0 /\ crashes = 0

Next == \/ \E w \in Workers : Work(w) \/ RecoverStale(w)
        \/ \E p \in Producers : Produce(p)
        \/ \E p \in Producers, h \in Heads : Request(p, h)
        \/ Boot \/ RefreshAdapters
        \/ Crash

Spec == Init /\ [][Next]_vars

\* The event loop runs what is runnable; startup goes through; every call of
\* a review is bounded by a timeout, so a review ends.  Requests, stale
\* recoveries and crashes need not happen.
Fairness == /\ \A w \in Workers : WF_vars(Work(w))
            /\ \A p \in Producers : WF_vars(Produce(p))
            /\ WF_vars(StartPool \/ ReplayRows \/ ReplayNext \/ ReplayEnd)

FairSpec == Spec /\ Fairness

-----------------------------------------------------------------------------
(* Properties *)

Holding == {"decide", "select", "insert", "mark", "gate", "clear", "review",
            "skip", "status"}

\* From the first write that claims the row to the last about the review.
Reviewing == {"mark", "gate", "clear", "review", "skip", "status"}

\* Types of the rows, the queue and the processes.
TypeOK ==
  /\ row \in [Heads -> [st : States, force : BOOLEAN]]
  /\ order \in Seq(Heads)
  /\ queue \in Seq([head : Heads, holder : Workers \cup {None}])
  /\ lock \in [Heads -> Workers \cup {None}]
  /\ wpc \in [Workers -> Holding \cup {"idle", "lock"}]
  /\ whead \in [Workers -> Heads \cup {None}]
  /\ ppc \in [Producers -> {"idle", "scribbleSelect", "scribbleInsert", "hold",
                            "stopWrite", "retryQueued", "retryForce",
                            "retryEnqueue"} \cup Polling]
  /\ phead \in [Producers -> Heads \cup {None}]
  /\ phold \in [Producers -> BOOLEAN]
  /\ phase \in {"down", "held", "starting", "replaying", "up"}
  /\ serving \in BOOLEAN
  /\ replay \subseteq Heads
  /\ adapter \in BOOLEAN /\ unserved \subseteq Heads

\* worker.py:543-548: however its events arrive (repeated webhooks, a poll, a
\* retry, a task recovered while it is running), a head is being reviewed by
\* one worker at most.
OneReviewerPerHead ==
  \A w, v \in Workers :
    /\ wpc[w] \in Reviewing /\ wpc[v] \in Reviewing
    /\ whead[w] = whead[v]
    => w = v

\* "running" means what the admin page shows: once the replay has run, there
\* is a worker that is reviewing the row, so no row is left running for ever.
RunningHasReviewer ==
  phase \in {"held", "replaying", "up"} =>
    \A h \in Heads :
      row[h].st = "running" =>
        \E w \in Workers : /\ whead[w] = h
                           /\ wpc[w] \in {"gate", "clear", "skip", "review"}

\* Somebody will still take the row up: it is on the queue, a worker is on
\* its way to it, or a producer or the replay is about to enqueue it.
HasCarrier(h) ==
  \/ \E e \in Range(queue) : e.head = h
  \/ \E w \in Workers : /\ whead[w] = h
                        /\ wpc[w] \in {"lock", "decide", "select", "mark"}
  \/ \E p \in Producers : /\ phead[p] = h
                          /\ ppc[p] \in {"pollEnqueue", "hold", "stopWrite",
                                        "retryForce", "retryEnqueue"}
  \/ h \in replay

\* A queued row is orphaned in one way only: the queue lives in memory, the row
\* in the database, and nothing but a restart looks for rows without a queue
\* entry; so whoever takes an entry off must see to the row, and the only one
\* who does not is process where the provider has lost its adapter
\* (worker.py:1126-1128).
QueuedHasCarrier ==
  phase \in {"held", "replaying", "up"} =>
    \A h \in Heads : row[h].st = "queued" /\ h \notin unserved => HasCarrier(h)

\* h is completed, and no row made after its row is.
NewestCompleted(h) ==
  \E i \in DOMAIN order : /\ order[i] = h /\ h \in Completed
                         /\ \A j \in DOMAIN order : j > i => order[j] \notin Completed

\* The newest of the completed rows is not reviewed again, whichever repeated
\* event, poll, recovered task or replay names its head.
LatestReviewFinal ==
  [][\A h \in Heads : NewestCompleted(h) => row'[h].st # "running"]_vars

\* review_repo.py:291-293: a row that is "not started" is not claimed by a left
\* over queue entry or a repeated event; only a manual execution, which first
\* makes it queued, revives it.
NotStartedStays ==
  [][\A h \in Heads : row[h].st = "skipped" => row'[h].st # "running"]_vars

\* Every queued row ends, over restarts too: it is reviewed, fails, or is
\* recorded as not started; or its task is passed over for want of an adapter,
\* and then nothing but the next enqueuing of the head moves it again.
QueuedEnds ==
  \A h \in Heads :
    row[h].st = "queued" ~> \/ row[h].st \in {"completed", "failed", "skipped"}
                            \/ h \in unserved

\* No worker is kept for good by a head's lock: whoever waits for it gets on.
WorkersReturn == \A w \in Workers : wpc[w] = "lock" ~> wpc[w] = "idle"
=============================================================================
