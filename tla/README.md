# A TLA+ model of codereview-ai

codereview-ai is a service that reviews merge requests and pushes: webhooks,
a poller and administrators put tasks on an in-process queue; a pool of worker
loops on one asyncio event loop takes them, asks an LLM, and writes the result
back to GitHub, GitLab or Gitee. The audit rows (`review_task`) are in a
database and survive a restart; the queue, the locks and the loops do not.
Around that core there are scheduled jobs, a cache of clones, an admin console
with users and rights, notices to open pages and messages to chat channels.

All paths below are under `src/codereview_ai/` of the repository.

## 1. Inventory

| component | state it keeps | operations | what makes it correct |
|---|---|---|---|
| task queue (`queue/asyncio.py`, `queue/base.py`) | list of task ids, state and start time per task, in memory | `enqueue`, `claim`, `complete`, `fail`, `recover_stale` | a queued task is on the list exactly once; only declared transitions |
| worker loop, gate, pool (`queue/worker.py`, `queue/concurrency.py`) | limit, slots in use, event, loops | `acquire`, `release`, `resize`, `_run_one`, `run_worker`, `stop` | never above the limit, no slot leaked, no wakeup lost, every task ends |
| review rows (`storage/review_repo.py`, `storage/models.py`) | `review_task` (state, force_rerun, unique indexes), `review_finding` | `ensure_task`, `mark_state`, `last_ok_review`, `pending_for_replay`, ... one session and one commit per call | rows agree with what is being done |
| merge-request track (`worker.py`: `review_pull_request`) | head locks, in memory | claim, decide, ensure row, gate, review, write back | one reviewer per head; the last reviewed head stays reviewed |
| push track (`worker.py`: `_review_push_event`) | none of its own | as above, without a lock | no repeated summary; manual executions are honoured |
| producers (`api/webhook.py`, `ops/poller.py`, `api/admin/tasks.py`) | `_run_lock` of the poller | webhook, poll round, stop, retry, batch forms, redeliver | no queued row without somebody who will take it up |
| life cycle (`main.py`, `ops/bootstrap.py`) | `app.state.worker_pool` | startup, lazy start, replay, shutdown | what a dead process left unfinished is taken up again |
| write-back (`review/result_writer.py`) | none; sentinel comment on the platform | `write`, `redeliver`, `_post` | nothing lost silently, nothing posted twice |
| findings (`storage/review_repo.py`, `review/increments.py`) | `review_finding` rows and coverage snapshots over reviews | leave out covered files, reconcile, insert, cover, delete | a finding is open after the round that saw it, closed after one that did not |
| one review (`worker.py`, `review/agentic/sandbox.py`, `review/group_review.py`) | sessions per group, the semaphore | agentic track, scoring, diff track | every file is reviewed or named as left out; a review ends |
| agent session (`review/agentic/llmloop.py`) | messages, budgets, a background summary | rounds, tool calls, compression, grace | bounded; tool results stay with their calls; a limit still asks for comments |
| review algorithms (`review/*.py`) | none | grouping, anchors, merging, comparing, accepting | nothing is dropped between two steps; an anchor names the quoted lines |
| clone cache (`review/agentic/syncer.py`, `ops/clone_cache.py`, `storage/clone_cache_repo.py`) | clone and lock file on disk, a row | sync, record, prune, remove, rebuild of the index | one thread inside a clone; a clone can be found and pruned |
| scheduler (`ops/scheduler.py`, `api/admin/schedules.py`) | rows, jobs, change event | seed, reconcile, notify, edit, stop | a change is applied |
| poll control (`api/admin/pull.py`, `ops/poller.py`) | `poll_running`, `poll_last`, `poll_error`, progress | start, round, status | every request is answered; the status settles |
| users, roles, projects (`api/deps.py`, `api/admin/users.py`, `roles.py`, `projects.py`, `storage/seed.py`) | rows | seed, prune, create, update, delete, bind | lists and single pages agree on who may see what; an administrator remains |
| configuration (`ops/bootstrap.py`, `forges/registry.py`, `api/admin/forges.py`, `models.py`) | rows, the registry, the worker | save, refresh, start of the worker | what is saved is in force |
| system notices (`storage/system_notification_repo.py`, `api/admin/notifications.py`) | rows, a queue per open page | create, broadcast, list, stream, acknowledge | a notice reaches every page that listens |
| notifiers (`notifiers/`, `api/admin/notifiers.py`, `notifier_members.py`) | routes, people, bindings | edit, dispatch with attempts | every route is tried; who is named is who was meant |
| pages (`api/admin/reviews.py`, `stats.py`, `workrate.py`) | none | filters, paging, export, counts, reports | the numbers add up |
| LLM gateway, forge adapters, static analysis | none that others read | HTTP calls, subprocesses | environment |
| sign-in, secrets, logging, health, prompts, desktop shell, benchmark, front end | rows, files | request/response, rendering | out of scope |

How they interact: a **webhook** calls `QueueEnqueuer.enqueue`, which puts a
task id on the queue and the payload in `EventStore`, then calls
`scribble_queued_task`, which makes the row. The **poller** makes the row first
and enqueues second. A **retry** writes the row, its `force_rerun` flag and the
queue in three commits. A **stop** only writes the row. A **worker** claims a
task, takes the head's lock, looks up what was reviewed, ensures the row, marks
it running, reads the settings, reviews, and writes the outcome. A **restart**
finds only the rows; the pool is started before the replay reads them.

A **review** starts one agent session per group of files, merges what they
found, and falls back to reviewing the diff; then it compares its findings with
those of earlier rounds, hands them to the write-back and launches the messages
to the chat channels. A **scheduled job** is a caller of a poll round or of a
pruning round. A **save** in the console commits rows, then rebuilds what lives
in memory, then tries to start the worker.

Everything but the threads of the clone cache runs on one event loop, so code
between two awaits is atomic; the hard part is what happens at the awaits:
every repository call is a session of its own, and rows are read in one and
written in another.

## 2. Modules

| module | models | notes |
|---|---|---|
| `Gate` | what the concurrency gate promises | abstract: a counting semaphore whose limit may change |
| `TaskLifecycle` | the state machine `queue/base.py` declares | abstract |
| `WorkerPool` | `queue/asyncio.py`, `queue/worker.py`, `queue/concurrency.py` | refines both |
| `MrTrack` | the merge-request track for one merge request | producers, workers, life cycle |
| `PushTrack` | the push track for one push | deliveries, workers, administrators, life cycle |
| `Findings` | the findings of one merge request over its heads | reviewers, crash, deletion |
| `Writeback` | the delivery of one review to the platform | retries, batches, redelivery, crashes |
| `Schedules` | the table of jobs and the reconcile loop | |
| `PollControl` | poll rounds and the status page | |
| `CloneCache` | one clone, its lock file and its row | threads |
| `AgentSession` | `run_agent_session` | rounds, compression, grace |
| `ReviewRun` | `_review_agent_or_diff` | sessions under a semaphore, both tracks |
| `Services` | composition of the last five | safety and liveness |
| `Access` | users, roles, permissions, projects, members | overlapping requests |
| `Configuration` | credentials, models, concurrency, start of the worker | overlapping saves |
| `SystemNotices` | notices to open pages | |
| `Pushes` | messages to chat channels | |
| `ReviewOps`, `ReviewCases` | the pure algorithms of a review, and their cases | operators and reference definitions |
| `PageOps`, `PageCases` | what the pages compute, and their cases | operators and reference definitions |
| `Console` | composition of the last six | safety |
| `WorkerPool_proofs`, `MrTrack_proofs`, `PushTrack_proofs`, `Findings_proofs`, `Writeback_proofs` | theorems about the module of that name | |
| `Services_proofs` | theorems about `Services`, component by component | |
| `Console_proofs` | theorems about the components of `Console` that keep state | |
| `Reviews_proofs` | theorems about the algorithms of a review, as `Console` has them | |
| `MC...` | symmetry sets and small instances for TLC | |

`Services` and `Console` are compositions by focus. Their components share no
state, and none waits for another while it is inside one of its own steps: a job
that fires is a caller of the poll control, a review sees of a session only how
it ends, a page reads rows and writes none. A behaviour therefore picks one
component (`focus`) and lets the others rest in a first state; the set of
behaviours of each component is the one it has alone, and the product of states
that have nothing to say to each other is not built. Where the components do
meet (queue, rows, locks, platform) they are modelled in one module: the tracks,
the findings, the write-back.

### WorkerPool

`pending`, `state`, `seq` are the fields of `AsyncioQueue`; `limit` and
`inflight` those of `ConcurrencyGate`; `wpc` says where each loop is suspended.
The event of the gate needs no variable: a loop that waits is in `"waiting"`,
and `Event.set` makes every such loop ready (`Woken`). One action per segment
of the loop between two suspension points: `AwaitSlot`, `ClaimTask`,
`ClaimNothing`, `ClaimNothingAndRecover`, `WakeUp`, `Finish`; `Enqueue`,
`Resize`, `Stop` for the outside. Time is abstracted to the set `overdue` of
tasks that have been running for longer than `STALE_RUNNING_SECONDS`; only
`LongTasks` get there (`Age`). The model lets other loops run between two
iterations of one loop, where the code does not suspend: more behaviours, never
fewer.

### MrTrack

`row[h]` is the row of head `h` (its state and `force_rerun`), `order` the order
of the row ids, `queue` the task list with, for each entry, the worker that is
still on the same task id (after `recover_stale`). One action per repository
call, `ensure_task` in two because its SELECT and its INSERT are separated and
the unique index decides between concurrent INSERTs. `mark_state` is one step:
its UPDATE writes whatever it finds. The review itself (fetch, filter, LLM,
findings, write-back) is one step from the rows' point of view, `ReviewDone` or
`ReviewFailed`, because nothing in it writes the row's state before the end.
Life cycle: `StartPool` (the pool is there, `can_run` says yes), `ReplayRows`
(`pending_for_replay`), `ReplayNext`, `ReplayEnd`; or `StartHeld`, when no model
is configured; `Crash` forgets everything but the rows.

`adapter` says whether the registry has an adapter for the merge request's
provider: the pool runs while any provider has one, and saving credentials
(`RefreshAdapters`) may take this one away and bring it back (`AdapterAnswers`).
A task that is claimed without it is completed with a line in the log
(`PassOver`), a webhook cannot be read (`WebhookUnread`), a poll skips the
project; a retry asks only for a pool. The history variable `unserved` has the
heads whose last task was passed over and that have not been enqueued since.

Left out: the attempt counter and the other columns nothing branches on; the
return of `process` for a task without a payload in `EventStore`, which no task
of this service lacks (`enqueue` and `enqueue_pr` store it before any other
coroutine runs, and nothing calls `EventStore.drop`); failures of the database;
`chain_valid`, which decides between an incremental and a full review and so
does not change the row; unset `mr_default_enabled`, which `main` never leaves
unset. The batch endpoints repeat the single-row operations. `GateAnswers` is
what the settings may say, re-read at every review: any answer may come at any
time.

### PushTrack

One (branch, after) pair, its row (`st`, `force`), the number of its tasks on
the queue, workers and administrators. `forced` is the local variable `force`
of `_review_push_event`, read in the first query and used after others have
run. `deletion` is chosen once: a push that deletes its branch has nothing to
review. `adapter`, `PassOver` and `unserved` are as in `MrTrack`, for the one
event.

### Writeback

`inline[f]` counts how often finding `f` is on the platform as an inline
comment; `full` and `short` count the summaries with and without the list of
findings (`build_summary_markdown`, and the persisted `summary_md` a redelivery
posts). `row` and `flag` are the row's state and `writeback_failed`. A writer is
one call of `ResultWriter.write`: the review's, or a background redelivery's.
It looks for the fingerprint (`Look`), leaves out what has an anchor already
(`Drop`), posts batch after batch (`PostBatch`), then the summary. Three things
go wrong with a POST: it is rejected (`Reject`), it is lost, or only its answer
is (`LoseBatch`, `LoseSummary`); after the last two `_post` begins again with
the first batch, because the list it posts was made once. A look-up that fails
or does not reach the comment it is looking for (the adapters read one page)
answers nothing: `LookBlindly`, `DropBlindly`. `AnchorSets` says which findings
may have a line in the diff, chosen again by each writer since a redelivery
fetches the diff again.

Left out: waiting for the rate limit, notifications, failures of the database,
and the adapters' silent returns when a merge request has no head. A review that
is done again after a crash is taken to have the same findings; if the model's
answers differ, the new findings are not posted once the fingerprint is there.

### Findings

`content[h]` is the diff of head `h` (a version per file), `st`, `order` and
`cover` the state, the row id and the coverage snapshot of its `review_task`,
`rows` the `review_finding` table with the task that holds each row. A reviewer
decides incremental or full (`Decide`), claims the row, fetches and leaves out
what earlier coverage makes unnecessary (`Fetch`, `FetchNothing`), reviews
(`Review`: any set of issues in the files that are left), and then makes one
step per repository call: `Reconcile` closes and reopens, `Insert` leaves out
fingerprints that another row carries, `Cover`, `Complete`; `Fail` and `Crash`
may come between any two. `Delete` removes a review with its findings; the ids
of its rows stay as gaps (`NoRow`), so that a row keeps its place.
`kept` (what the round that wrote a coverage had found) and `alone` (nobody
interfered with this round) are history variables for the properties.

### Schedules

`table` is `schedule_job`, `jobs` what the scheduler runs, `fp` the fingerprint
each job was built from, `changed` the event. The reconcile loop is `Start`,
`ReadRows`, `RemoveJobs`, `AddJob` (one job after the other), `Rest`, then
`WakeByChange` or `WakeByTimer`; an exception ends it (`Die`). A request commits
first and sets the event later: `owed` counts the commits whose `Notify` is
still to come. `External` edits a row in the database itself, with parameters no
parser accepts among them; the loop reads again after a while for that.

### PollControl

A manual poll is accepted (`Ask`, which tests `poll_running`), begins as a
background task (`Begin`), and runs `run_once`: `Enter` or `Skip` by the lock,
`List` per project, `One` per pull request, `Leave` or `Break`; then `End`
writes the status. `Fire` is a job that runs the same round without the status
page.

### CloneCache

The lock file has an identity (`Inodes`): `path` is the inode the lock path
names, `fd[p]` the one a thread has open, `holder` who has locked it. `Touch`,
`Stat`, `Open`, `Flock` are the steps by which a thread comes in; where the lock
call fails the code swallows the error, and the thread comes in without the lock
(`FlockFails`; `bare` has these threads). `Look`, `CloneBegins`, `CloneEnds`,
`FetchEnds`, `GitFails`, `Record`, `Materialise` are the steps of a review, and
`ReviewFails` its end after a git that failed: the error goes up and fails the
review (that the sandbox is off or git is missing, which goes on as a diff
review, is `StartDisabled` of `ReviewRun`). `Choose`, `RmTree`, `Occupied`,
`Unlink`, `DeleteRow` are those of a removal. A crash leaves directory, lock path
and row as they are and forgets the locks. `orphan` is a history variable.

### AgentSession

A message is its role, the round that made it, a size and, for a summary, the
rounds it tells of. Each round takes the size at its top, then compresses in
place (`CompressNow`, `Compressed`), starts a background summary
(`CompressBehind`), lands one that is ready (`Land`, `LandFailure`), or goes on;
`Offer` chooses the tools (the grace round offers two), `Turn` is the answer
with its tool calls, `EmptyTurn` one without. The Python slices, which count from
the end and clip silently, are modelled by what they do (`Slice`, `Index`): that
is where short lists of large messages are cut wrongly.

### ReviewRun

`session[g]` is where the session of group `g` is. `BeginSession` needs a slot
of the semaphore; `FailSession` is a session that says FAILED, `BreakSession`
one that raises. `gather` cancels nobody, so the sessions beside a failed one
go on while the review is already on the diff track (`Abort`). `Merge` and
`Score` end the agentic track, `ReviewGroup`, `ReviewFails` and `Conclude` are
the diff track.

### Access

`permissions`, `roles`, `users`, `projects`, `members` are the tables; `boot`
seeds and prunes as the start of the program does, over what `Databases` says it
finds: nothing, or what an earlier version left. A request (`Ask`) authenticates
and reads, and what it commits (`Commit`) follows from what it has read; it is
`stale` when another request committed in between. The predicates
(`UserCan`, `ReviewScope`, `TaskAllowed`, `MenuNames`, ...) are those of
`deps.py` and of the list queries.

### Configuration

`forge`, `model`, `conc` are rows, `env` and `envmodel` the environment's
fallbacks, `registry` the adapters in memory, `worker` the running pool with its
model chain and limit. A save is a sequence of steps: commit, refresh of the
registry one platform at a time, `ensure_worker_started` under `bootlock`. The
start of the program is one more client (`Main`). A save writes the fields that
differ from the row it has loaded, as the ORM does. A client between two
requests is `Idle`; while no worker has been started the pool is `NoPool`.
`late` and `raced` remember that a refresh or a change of the limit overlapped
with another one.

### SystemNotices and Pushes

A notice is checked for duplicates, inserted, broadcast **inside** the
transaction, then committed or rolled back; an id that was rolled back is given
out again. A page is opened, reads the list and subscribes in either order,
receives, breaks and reconnects, acknowledges. `missed` and `whole` say what a
page could not have seen.

A push (a message) takes the routes, then for each route the people to name,
then one to three attempts, each of which may reach the channel and still look
like a failure. The routes and the author of the change are looked up outside
the `try` of a route: if that fails (`LookupFails`), the dispatch is over and the
routes left get nothing. Routes, people and bindings are edited meanwhile.

### ReviewOps, PageOps and their cases

The algorithms without state are operators. `ReviewCases` and `PageCases` are
two-step machines that pick an input and then a question, one case per
behaviour, and state what the answer must satisfy against a definition of its
own: grouping keeps every usable file in a group, whatever the LLM answers, and
in one only and once unless the LLM names it twice in one list (`GroupsCover`);
the buckets of `accept_comments` add up; the anchors of both resolvers
name lines that read as the quoted snippet on the side they claim; counts by
state, by day and by repository agree with the rows and with each other.
`round` of Python is half-to-even on floats; `Round` is half up on tenths, so no
property depends on ties.

## 3. Runs

| run | checks | bounds |
|---|---|---|
| `pool` | types, slots, queue, leases, both refinements, every task ends | 3 loops, 3 tasks (2 may be long), limits 0, 1, 3 |
| `mr_heads` | types; one reviewer per head; the newest completed row is not reviewed again; a row not started stays so | 2 heads, webhooks and polls, 3 operations, 1 recovered task, 1 crash, an adapter that comes and goes |
| `mr_live` | a queued row whose task was not passed over has a carrier, and ends; a running row has a reviewer; lock waiters return | 1 head, polls, stops, retries, 3 operations, 1 recovered task, 1 crash, lazy start, an adapter that comes and goes, fairness |
| `mr_lost` | violated: a queued row has a carrier (webhooks) | 1 head, 1 webhook, the adapter is there |
| `push_safety` | running rows have a reviewer | 2 workers, 2 administrators, 3 deliveries, 3 manual, 2 crashes, an adapter that comes and goes |
| `push_manual` | one summary per delivery or manual execution; manual executions honoured, unless the task was passed over | 1 worker, 2 administrators, 3 deliveries, 3 manual, an adapter that comes and goes, fairness |
| `wb_safety` | types; a completed row that offers no redelivery is delivered; repetitions have causes | 3 findings in batches of 2, 2 redeliveries, 1 retry, 2 failures, 1 rejection, 1 crash |
| `wb_lost` | violated: the same, when one finding may have no line in the diff | 1 rejection, 2 redeliveries |
| `findings` | a finding of a round is open after it and on record before its coverage counts; a finding that is gone is closed; only covered files are touched | 3 heads, 2 reviewers, 2 files, 2 issues, 3 reviews, 1 failure or crash, 1 deletion |
| `services` | types and agreement of parts; requests answered; a clone at work is spoiled only by a breach of its lock; clones registered; session, grace and file accounting; everything ends | see below, fairness |
| `console` | types; guarded writes; scopes agree; saved is in force; messages reach; nothing lost; anchors read; numbers add up | see below |
| `notices_project` | violated: a message about a project is tried on the routes of that project | as `console` |

`services`: 1 row of `schedule_job` with 2 edits and 1 edit in the database; 2
administrators and 1 job with 3 requests and 2 rounds of 2 projects with 0 or 2
pull requests; 2 reviews and 1 removal of a clone, 3 lock files, 3 calls; a
session of 5 rounds with a prompt budget of 20 units and an active zone of 6
messages; reviews of no, one and three groups (`MaxGroups` is 3) with 2 slots; 1
fault each.

`console`: 3 users, 2 projects, 2 requests in flight and 2 in all, from an
empty database and from one of an earlier version; the platforms and the model,
2 saves, 1 fault, 2 starts; 2 notices, 1 page, a list limit of 1; 2 routes, 1
person, 2 editors, 4 edits, 2 attempts; changes of up to 3 files, hunks of up to
3 lines, rounds of up to 3 findings; tables of up to 2 rows, up to 4 durations.

Why these bounds are enough to be interesting: two workers and two producers
are what a race needs; three operations let a stop, a retry and a third party
meet on one row; one recovered task gives two workers the same task id; a crash
with a lazy start goes through every phase of the life cycle. In `pool` a limit
of 1 with 3 loops fills the gate, raising it to 3 wakes several loops, and two
long tasks let `recover_stale` put back more than one. In `wb_safety` three
findings in batches of two make two batches, so a failure may fall before,
between and after them; two failures and one retry reach both the retry and its
exhaustion. In `findings` three heads are the least for a finding that is
reported, closed and reported again, and two reviewers with three reviews let
one of them work on a reference that another has made old. In `services` three
lock files are one for each thread: one waits on an unlinked file while two more
are made; an active zone of 6 with 2 tool calls per turn and 5 rounds puts more
than one round into the part that is compressed, and openings of 1 and 12 units
reach the two thresholds both early and late. In `console` two overlapping
requests are what every lost update here needs, and a second start meets what
the first one left; two ids are the least for one to be used again.

Deadlock is not checked: the counters that bound the runs stop the system.
Symmetry is used only in runs without liveness properties.

### Fairness

`WF` of each worker's next step: the event loop runs every ready coroutine, and
every call a review makes (forge, LLM, tools) has a timeout, so a review ends.
`WF` of each producer's next step once a request has been accepted, for the same
reason. `WF` of the startup sequence. Nothing is assumed of new requests,
configuration changes (an adapter that has gone may never come back), stale
recoveries, or crashes. A lazy start without a model is not assumed to end
either.

In `Services`: `WF` of the coroutine in focus (`Forward`: the reconcile loop,
the session, the review), of what runs beside it (`Beside`: the event that
follows a commit, the background summary, the other sessions), of each caller of
the poll control, and of each thread's next step, since git and LLM calls have
timeouts. `SF` of `Flock`, per thread: the kernel's lock is given to a waiter
sooner or later when it is free again and again; `WF` would not do, because the
waiter is disabled while others hold it; that the lock call fails is not owed.
Edits, polls, jobs that fire, removals and crashes are not owed. `Console`
states no fairness.

### What the violations show

* `mr_lost`: `enqueue` precedes the row. The worker and the webhook handler
  race for the INSERT; if the worker loses, `ensure_task` answers `None`, the
  worker ends the task, and the handler's row is queued with nothing on the
  queue until the next restart, poll or webhook. The poller, which makes the
  row first, does not have the race: `mr_live` checks it.
* `wb_lost`: a redelivery posts `summary_md`, which is saved without the list of
  findings; a finding that has no line in the diff is then nowhere on the
  platform, and the mark that offers a redelivery is taken off.
* `notices_project`: no call of `launch` or `send_markdown` in `worker.py` hands
  on a project, so a route that is kept for one project is never asked.

### More disagreements

These were met while modelling and have no run of their own. The models have the
behaviour; the properties say what holds in spite of it.

Tracks:

* After heads A, B and A again, head A is reviewed again although its row is
  completed, because only the completed row with the largest id counts
  (`storage/review_repo.py` 108-135; the comment at 143-144 promises that a
  completed head is not reviewed again): `LatestReviewFinal` states what holds.
* Between `ensure_task` and `mark_state(running)` (`worker.py` 640) a row may be
  stopped; `mark_state` does not look, and the stopped row is reviewed.
* `make_processor.process` returns where the task's provider has no adapter
  (`worker.py` 1126-1128), the pool completes the task, and the row stays queued.
  It gets there by a retry or a replay, which ask only whether there is a pool,
  or by saving credentials while the task waits. A poll takes the queued row for
  work in progress and a retry refuses it, so only a restart or a repeated
  webhook once the adapter is back, or a stop, moves it; `worker.py` 429-430
  speaks of such rows as what the replay is there to avoid. A manual execution
  of a push ends so without an error on the page.
  `QueuedHasCarrier`, `QueuedEnds` and `ManualRunHonoured` except these rows
  (`unserved`), and say that nothing else leaves a row behind.
* The push track has no lock, and `ensure_task` hands out queued rows: two
  deliveries may be reviewed by two workers (`worker.py` 964-981).
  `OneSummary` is therefore checked with one worker.
* A replayed push finds its own row (`worker.py` 968) and is dropped; the row
  stays queued. That is why the push track has no `QueuedEnds`.
* A manual execution of a branch deletion ends as skipped, not as failed
  (`api/admin/tasks.py` 153-155, `worker.py` 990-998).
* `recover_stale` goes by age alone, so a review of more than five minutes is
  started a second time, against `queue/worker.py` 31-32; `ShortTasksRunAlone`
  states what holds. On the merge-request track the head lock makes the second
  one wait and then end as already reviewed; the push track has no such lock.
* A retry makes the row queued before it sets `force_rerun`
  (`api/admin/tasks.py` 174, 181, 189); an older task for the head may reach the
  gate in between, and skips the row.

Reviews:

* Files a review skipped (for size, for the budget) stay in its coverage, and
  `reconcile_findings` closes older findings in them as fixed, although its
  docstring (`storage/review_repo.py` 404) speaks of files that were reviewed.
  `GoneIsClosed` and `OnlyCoveredClosed` speak of what is covered in this sense.
* `worker.py` 196 says that any exception of the agentic track leads to the diff
  track; only `SandboxDisabled` and FAILED do, other exceptions fail the review
  while the remaining sessions run on.
* A background summary lands on a list that has grown since it was begun, and
  may drop what was added meanwhile: `LossOnlyByLanding` names it as the only
  loss. If the call failed, `.result()` raises out of the session, although the
  docstring of `_compress_to_text` promises an empty string.
* Lists shorter than the opening and the active zone are cut between a tool
  call and its results; hence the length in `CutKeepsPairs`.
* Group scores are merged with `max`, although `review/group_review.py` 6, 33
  and 48 speak of the worst; a scoring call that fails gives 0, and the status
  on the platform is computed from it.
* Files over the size limit of a group are dropped and named in no
  `skipped_files`; on the diff track `skipped_files` is what the LLM says.
* The parser of hunks drops empty raw lines while the anchor resolver of the
  agentic track counts them. The write-back of an anchor on the left side puts
  the number of the old line into the field that elsewhere holds the new one.

Services:

* A clone's lock file is unlinked after the lock is given back; a thread that
  waits on the old file and one that makes a new one are then both inside
  (`review/agentic/syncer.py` 6 promises one). Where the lock call fails, the
  thread comes in without it (116-119). The comment at 118 says that this only
  costs another clone or fetch; in the model the one inside loses the directory
  under its git, which fails, and its review with it. `SpoiledByBreach` states
  that a thread inside loses its directory in these two ways only, and to the
  files of a diff that are written without the lock.
* The files of a diff are written to the clone after the lock is given back
  (`review/agentic/sandbox.py` 204): where the clone was removed meanwhile they
  make a directory that is no clone, and `git clone` of another review refuses it.
* An exception in `reconcile` ends the loop, and later changes are not applied;
  a start that fails leaves its `AsyncIOScheduler` running.
* A poll that meets another one wipes `poll_last` (`api/admin/pull.py` 79), and
  the comment at 84 says it is kept.

Console:

* The last administrator can be taken the role from; a restart does not seed
  one while there is any user. Overlapping writes of permissions can leave edit
  without view. Both are the exceptions in `WritesGuarded`.
* A failed foreign key is reported as a duplicate name when a user is created;
  `update_project` writes empty and unstripped values, and an unstripped
  `repo_id` passes the check for duplicates; on SQLite a new project may get the
  id, and so the reviews, of one that was deleted (`moved` in `ScopesAgree`).
* Overlapping refreshes of the registry may install older credentials; a change
  of the limit while the worker is being assembled is saved and not in force.
  `late` and `raced` mark the two.
* A masked secret that is sent to *create* a notifier is stored as it is.
* When the author of a change cannot be looked up, the routes after the one at
  hand get nothing (`notifiers/dispatch.py` 137-141 is outside the `try`), while
  `dispatch` says that failures are not raised (128); `EachRouteTried` names it.
* A notice is broadcast before its commit: after a rollback open pages show a
  notice without a row, and a later notice that gets its id is hidden there,
  and acknowledged when the first is closed (`phantoms`). A page that reconnects
  does not read the list again.
* A binding may be written for a person who was deleted; who gets that id next
  inherits it (`meant = 0` in `NamesMeant`).
* `prev_round_id` of a review is the newest other completed task, also a later
  one. With two durations the quartiles of a phase lie outside its extremes
  (hence `n >= 3` in `BoxesInOrder`). The filters of the working hours count
  rows without a project under a project whose report leaves them out
  (`OptionsHold`). A file the LLM names twice in one group is reviewed twice
  (`GroupsCover`).

## 4. Proofs

TLAPS proves, for every value of the constants the assumptions allow (numbers of
loops, tasks, heads, workers, files, users, pages, ... and the bounds on
operations, failures and crashes), all safety invariants and action properties
the runs check but one (see the end of this section):

* `WorkerPool_proofs`
  * `TypeCorrect`, then `GateCorrect`: the counter is the number of busy loops,
    and a loop waits only at a full gate. Together with the types this is
    inductive.
    `GateRefinement` maps the busy loops to the holders of `Gate`.
  * `QueueCorrect`: the inductive invariant `QueueInv` has three parts.
    `OnQueueOnce`: ids on the list are distinct and none of them is running;
    `NoneForgotten`: every queued id is on the list; `Leases`: unused ids have
    no state, only long tasks are overdue, a busy loop's short task is running,
    and two busy loops never hold the same short task. It is needed because
    "at most once on the list" alone is not preserved: `recover_stale` appends
    the overdue tasks, and only their being running, hence not on the list,
    keeps the list free of repetitions.
  * `QueuedOnceCorrect`, `ShortTasksCorrect` and `LifecycleRefinement` follow.
    The last one shows why `complete` and `fail` may write without looking: a
    busy loop's short task is still running.
* `MrTrack_proofs`
  * `TypeCorrect` for `TypeInv` (types, and that a worker or producer in the
    middle of an operation has a head), `TypesCorrect` for `TypeOK`.
  * `LockCorrect`: a worker inside the lock is recorded as its holder. This is
    all that `OneReviewerCorrect` needs.
  * `RunningCorrect`: inductive together with the types, because a row becomes
    running only at `MarkRunning`, and a worker leaves only after it has
    written a final state. `ReplayRows` is where rows of a dead process are
    put right; until then the property is not claimed.
  * `LatestReviewStays`, where there are no stops and no retries (a manual
    execution is there to review the newest row again). A worker between its
    decision and `mark_state` is not at the newest completed head
    (`NotNewest`), and no row says completed while it is reviewed (`NotDone`).
    What others do in between cannot make a head the newest: they hold other
    locks or none, and only a row that was not the newest itself leaves the
    set of completed rows. `OrderInv` (an id for each row, once) and `RoleInv`
    (no producer in an operation that is not offered) support both.
  * `NotStartedRowsStay`, without stops and with a model at the start: then no
    producer holds a task back (`PoolServes`), and a worker about to mark a row
    as running is not at a row that was never started (`ClaimsStartable`).
  * `QueuedRowsCarried`, without webhooks (with them it is false, `mr_lost`), for
    any coming and going of the adapter.
    `QueuedIsCarried` is stronger than the property: an entry that
    `recover_stale` made for a task still in work does not count as a carrier,
    because the end of that task takes it off the list.
* `PushTrack_proofs`
  * `TypesCorrect`, and `RunningRowsReviewed` by the argument of
    `RunningCorrect`.
  * `OneSummaryEach`, for one worker and no crash, as in `push_manual` (two
    workers, or a crash between the summary and the row, post it twice).
    `SummaryInv` is an account: what was posted and what may still be posted
    (`Due`: for a row not made yet, for a flag that is set, for each retry that
    has not set it, for the worker at its review) never exceed one and the
    manual executions. `LookHolds` says that what the worker read before its
    awaits still holds when it acts on it.
* `Findings_proofs`
  * `TypesCorrect`, then `IInv`: a reviewer is not taken for alone before its
    own reconcile (`Fresh`); what `insert_findings` leaves out is open, and
    after it all findings of the round are (`Open`); as long as nothing is
    deleted, everything a coverage may speak of has a row (`Recorded`).
    `FindingsAreKept` and `GoneFindingsClosed` follow from it.
  * `OnlyCoveredFilesClosed`, an action property, from the same invariant.
* `Writeback_proofs`
  * `TypeCorrect`.
  * `DeliveredCorrect`, when every finding has a line in the diff (without that
    it is false, `wb_lost`). `DeliveryInv` says that what is not on the platform
    yet is in the hands of every writer that goes on without looking again
    (`NothingSkipped`), that the summary therefore comes last, and that a row is
    completed only with the summary or with the mark. It rests on `StepGrows`:
    nothing is taken off the platform. It holds for platforms with and without
    anchors, and for batches of any size.
  * `RepetitionsCorrect`, for platforms that list anchors. What was posted does
    not suffice as an invariant; what was posted and what some writer is about
    to post are paid for together (`CommentInv`, `SummaryInv`), and `ActiveInv`
    pays for the writers that are active at once.
* `Services_proofs`. A step of `Services` is a step of one component or leaves
  its variables alone (`StepOfParts`), so each has an invariant of its own.
  * `PollsAreAnswered`: once something was asked there is a result, an error, or
    a caller that is still at it (`PollInv`).
  * `DirectorySpoiledByBreach` and `ClonesAreRegistered` from `CloneInv`: a
    thread that waits for a lock has the file open, a thread inside holds the
    lock of its file or is known to be without, and a valid clone has a row, has
    lost it, or is about to be recorded. `WhoChangesDir` says which steps touch
    the directory; two threads of which neither has breached the lock would hold
    it on the same file.
  * `FilesAreAccounted` from `ReviewInv`: a session for each group of the plan;
    one fails only when `gather` has raised; when the track is left without an
    exception all have ended; the skipped ones are named in the result. With it
    goes that no more than `Concurrency` sessions run.
  * `SessionsShareGate`: the same invariant shows that the running sessions are
    the holders of a `Gate` whose limit never changes, with the sessions that a
    failed review leaves behind among them. No run checks `ImplementsGate` of
    `Services`; it is the specification that `GateRefinement` speaks of.
  * `ScheduleInv`: every job is the one its fingerprint asks for.
  * `LimitsBringGrace`: while the model is asked, a limit that has been touched
    has brought the grace round and with it the two closing tools.
  * `CompressionsKeep`: under `SessionShape` (the opening stands, calls and
    results of a round stand together, no message is of a later round) the
    active zone of a list long enough never begins with a tool result
    (`Border`), and a compression tells of every round it takes out. The
    folds (`Used`) and choices (`ActiveStart`) range over finite sets and
    are reasoned about by the least counterexample (`LeastNat`, `GreatestNat`).
  * `ServicesTypes`: the types of all five components.
* `Console_proofs`, with an invariant for each of the four components with state.
  * `ScopesAlwaysAgree` and, for `Access`, `WritesAlwaysGuarded`, from
    `AccessInv`: foreign keys and unique indexes hold; how far the start has
    come; what a request that nobody has overtaken has read is still so
    (`ReadIsCurrent`); no pending write of permissions has an edit without its
    view (`PairsAsked`).
  * `SavedAlwaysInForce` from `ConfInv`: the table of adapters is that of the
    rows, or known to be late, or a refresh is under way whose results so far
    are current (`ConfRegistry`); the lock of the start has its holder inside,
    and no pool is there while it is held (`ConfLock`); a limit is in force or
    on its way (`ConfLimit`); where a worker could run it does, or a client is on
    its way to start it (`ConfServes`). The masks in `WritesAlwaysGuarded` rest
    on the same invariant (`TokenTyped`, `KeyTyped`).
  * `MessagesAlwaysReach` from `NoticesInv` and `PushesInv`. A page that has
    listened all along has heard of the row that is being written before it is
    committed (`PageTold`); a message has the title of its row (`MessageRight`),
    unless a row of that id was rolled back; the ids have no gap, and the one
    writer holds the next (`NoticeIdsInv`); the rows of a title and a minute and
    the callers that may still add one are no more than the callers
    (`OncePerCaller`): the number of rows alone is not inductive. `NewestFrom`
    shows that the newest rows of a list are all from its floor on. For a push:
    who was meant is still there under the id (`Bindings`), and each route that
    is done was tried as often as its outcome says (`Tried`), unless a lookup has
    ended the dispatch.
  * `TypesCorrect`: the types, and the rows that refer to each other.
* `Reviews_proofs`. The state is a case and a question; what matters is what the
  operators compute, for data of any size. `CasesTyped` says what the cases are
  (`CasesInv`), and the other two theorems follow from it and from lemmas about
  the operators. Most operators are folds over sequences. `FoldHistory` gives a
  fold its history, the values it takes after each element; a lemma about a fold
  is an induction along its history, and `Induction` is about a set of numbers,
  which needs no operator as a parameter. `FilterPicks`, `FlattenPlaces` and
  `FilterCount` say once what filtering and concatenating do to the places of
  the elements.
  * `NothingIsLost` has three parts. Every usable file is in one group, once
    where the LLM names it once, through the split by size and by tokens
    (`GroupingCovers`: every step from the answer to the groups keeps a `Cover`).
    The buckets of two rounds add up to the rounds, by the rank of a finding
    among those with its fingerprint (`BucketsAddUp`), and what a rate of
    convergence tells (`RateTells`): 100% means that nothing is left, for fewer
    than 200 findings; from 200 on one finding is less than half a percent and
    is rounded away. Merging keeps one of the findings that are the same, the
    fact check drops only what it was asked to, the arguments of a tool call
    yield as many comments as there are with a text, and the chain of models ends
    in an error only when each of them did.
  * `AnchorsAlwaysRead`: a numbered side of a hunk, with or without its blank
    lines, and a numbered file are readings of a text (`Reading`: numbers rise,
    each line is the one of its number, and what is left out is blank). A run of
    lines found in a reading spans numbers whose lines, without the blank ones,
    are the snippet (`MatchReads`, by `SameNumbers`: two increasing enumerations
    of the same numbers are equal). Both resolvers take the first of three such
    places (`PlaceReads`); what is found among all lines is found among those
    that are not blank (`SolidFinds`), hence the relocation finds what the
    location does.

Every component states what it takes of its constants in an assumption
(`PoolAssumption`, `MrAssumption`, `PushAssumption`, `FindingsAssumption`,
`WritebackAssumption`; `ServicesAssumption` and `ConsoleAssumption` as
conjunctions of a definition of each component), and TLC evaluates all of them
on every run. They say that sets the model counts or takes a maximum of are
finite (issues, ids, callers, routes), that `None` is no value of any kind, that
numbers are numbers, and that the database a start of the program finds keeps
its own foreign keys and unique indexes (`Consistent`). The four theorems with a
hypothesis of their own (`LatestReviewStays`, `NotStartedRowsStay`,
`QueuedRowsCarried`, `OneSummaryEach`), and the two of `Writeback` that speak of
lines and anchors, name it in their statement; each hypothesis is what the
corresponding run sets, and the runs that drop it show or the list of
disagreements says what happens then.

`TypeOK` and `OneReviewerPerHead` of `MrTrack` are checked in `mr_heads`,
`RunningHasReviewer` in `mr_live`. `WaitOnlyWhenFull` of `WorkerPool`, part of
the invariant of `GateCorrect`, has a proof and no run.

Model-checked only:

* liveness (`EveryTaskEnds`, `QueuedEnds`, `WorkersReturn`,
  `ManualRunHonoured`, `EverythingEnds`), which is beyond the prover, as is
  whether an action is enabled;
* `ReportsAddUp`, which says what the operators of `PageOps` compute. They sort,
  sum over sets of any kind and select by conditions that are parameters; the
  lemmas of `Reviews_proofs` are about folds over sequences and do not reach
  them yet (see the plan).

## 5. Not modelled

* Forge adapters and the LLM gateway are HTTP clients and parsers without a state
  of their own. How their calls end (answered, rejected, lost on the way, lost
  on the way back, out of time) is a choice of the environment where it matters:
  `Writeback`, `Findings`, `AgentSession`, `ReviewRun`, `Pushes`.
* Static analysis runs external tools, report and prompt modules render text,
  conversation capture writes a record nobody branches on.
* Sign-in, encryption, logging, health, column migrations: no protocol. That a
  secret can be told from its mask is in `Configuration`.
* Token and cost sums and the top lists of the statistics, the filters of
  `file_scope`, the wire formats of the chat channels.
* The desktop shell and the benchmark start the same application; of the front
  end only what it does with notices is modelled (`SystemNotices`).
* When a job fires is left to the scheduler library, when a lock is granted to
  the kernel (by fairness), what a tool of the agent answers is a size.
* The status `ignored` of a finding, which `storage/models.py` names: nothing in
  the code writes it.
* In `MrTrack` and `PushTrack` the review is one step, in `Findings` the
  write-back, in `ReviewRun` a session: each is the subject of another module.

## 6. Plan

Every component with a protocol of its own is modelled, and the safety
properties of all of them are proved. What is left, in this order:

1. `PageOps`: sums over finite sets of any kind, so that the totals of the
   dashboard, of the report and of the members (parts of `ReportsAddUp`) follow
   from lemmas like those of `Reviews_proofs`; then sorting, for the boxes.
2. `MrTrack`: an abstract specification of a row's life (queued, running, ended,
   by whom), with the track and the push track shown to implement it.
