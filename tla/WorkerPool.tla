----------------------------- MODULE WorkerPool -----------------------------
(***************************************************************************)
(* The in-process task queue (queue/asyncio.py), the worker loop           *)
(* (queue/worker.py) and the resizable gate and the pool of loops around   *)
(* them (queue/concurrency.py).                                            *)
(*                                                                         *)
(* All of it runs on one asyncio event loop: the code between two awaits   *)
(* that really suspend is one step.  A worker loop suspends in three       *)
(* places, the values of wpc below: in Event.wait of the gate ("waiting"), *)
(* in process(task) ("busy") and in asyncio.sleep ("sleeping").  "ready"   *)
(* is the top of the loop; the code goes from the end of one iteration to  *)
(* the next without suspending, the model lets other loops run in between. *)
(*                                                                         *)
(* Time is abstracted to the set of tasks that have been running longer    *)
(* than STALE_RUNNING_SECONDS; only LongTasks ever get there.              *)
(***************************************************************************)
EXTENDS Integers, Sequences, FiniteSets

CONSTANTS Workers,       \* the worker loops of the pool
          MaxTasks,      \* bound: how many tasks are ever enqueued
          LongTasks,     \* the tasks whose processing may exceed the threshold
          InitialLimit,  \* the concurrency the pool is built with
          Requests       \* the values resize() is called with

TaskIds == 1..MaxTasks

ASSUME PoolAssumption == /\ IsFiniteSet(Workers)
                         /\ MaxTasks \in Nat
                         /\ LongTasks \subseteq TaskIds
                         /\ InitialLimit \in Int
                         /\ Requests \subseteq Int

VARIABLES
  pending,   \* asyncio.Queue of task ids
  state,     \* _tasks[t].state; "none" before enqueue creates the entry
  overdue,   \* running tasks whose started_at is past the threshold
  seq,       \* _seq
  limit,     \* ConcurrencyGate._limit
  inflight,  \* ConcurrencyGate._inflight
  wpc,       \* where each worker loop is suspended
  wtask      \* the task a busy loop is processing; 0 otherwise

queueVars == <<pending, state, overdue, seq>>
gateVars  == <<limit, inflight>>
loopVars  == <<wpc, wtask>>
vars == <<queueVars, gateVars, loopVars>>

-----------------------------------------------------------------------------
(* Helpers *)

\* Mutant: the limit is taken as it is given.
ClampNothing(n) == n

Clamp(n) == IF n < 1 THEN 1 ELSE n

Busy     == {w \in Workers : wpc[w] = "busy"}
Waiting  == {w \in Workers : wpc[w] = "waiting"}
Running(t) == {w \in Busy : wtask[w] = t}

\* Event.set(): every loop suspended in wait() is scheduled to look again.
Woken(pc) == [w \in Workers |-> IF pc[w] = "waiting" THEN "ready" ELSE pc[w]]

\* recover_stale walks the dict in insertion order, which is the id order.
InIdOrder(S) == {s \in [1..Cardinality(S) -> S] :
                   /\ {s[i] : i \in DOMAIN s} = S
                   /\ \A i, j \in DOMAIN s : i < j => s[i] < s[j]}

-----------------------------------------------------------------------------
(* The queue *)

Enqueue ==
  /\ seq < MaxTasks
  /\ seq' = seq + 1
  /\ state' = [state EXCEPT ![seq + 1] = "queued"]
  /\ pending' = Append(pending, seq + 1)
  /\ UNCHANGED <<overdue, gateVars, loopVars>>

\* Time passes: a task has been running for longer than the threshold.
Age(t) ==
  /\ state[t] = "running"
  /\ t \notin overdue
  /\ overdue' = overdue \cup {t}
  /\ UNCHANGED <<pending, state, seq, gateVars, loopVars>>

-----------------------------------------------------------------------------
(* The worker loop *)

\* Mutant: the gate admits one worker too many.
CanEnterOffByOne == inflight <= limit

CanEnter == inflight < limit

\* claim() returns a task: the id it pops belongs to a QUEUED one.
Claimable == pending # <<>> /\ state[Head(pending)] = "queued"
Popped == IF pending = <<>> THEN pending ELSE Tail(pending)

\* acquire() finds no free slot: clear the event and wait for it.
AwaitSlot(w) ==
  /\ wpc[w] = "ready"
  /\ ~CanEnter
  /\ wpc' = [wpc EXCEPT ![w] = "waiting"]
  /\ UNCHANGED <<queueVars, gateVars, wtask>>

\* acquire(), then claim() of a queued task: process(task) starts.
ClaimTask(w) ==
  /\ wpc[w] = "ready"
  /\ CanEnter
  /\ Claimable
  /\ inflight' = inflight + 1
  /\ pending' = Tail(pending)
  /\ state' = [state EXCEPT ![Head(pending)] = "running"]
  /\ wpc' = [wpc EXCEPT ![w] = "busy"]
  /\ wtask' = [wtask EXCEPT ![w] = Head(pending)]
  /\ UNCHANGED <<overdue, seq, limit>>

\* acquire(), claim() returns None, release(): the slot is taken and given
\* back in one step, and the loop goes to sleep.
ClaimNothing(w) ==
  /\ wpc[w] = "ready"
  /\ CanEnter
  /\ ~Claimable
  /\ pending' = Popped
  /\ wpc' = [Woken(wpc) EXCEPT ![w] = "sleeping"]
  /\ UNCHANGED <<state, overdue, seq, gateVars, wtask>>

\* Mutant: recover_stale forgets the age test and takes every running task.
RecoverAnyRunning(w) ==
  LET running == {t \in TaskIds : state[t] = "running"}
  IN /\ wpc[w] = "ready"
     /\ CanEnter
     /\ ~Claimable
     /\ \E again \in InIdOrder(running) :
          pending' = Popped \o again
     /\ state' = [t \in TaskIds |-> IF t \in running THEN "queued" ELSE state[t]]
     /\ overdue' = {}
     /\ wpc' = [Woken(wpc) EXCEPT ![w] = "sleeping"]
     /\ UNCHANGED <<seq, gateVars, wtask>>

\* Mutant: recover_stale puts the tasks back but leaves them RUNNING.
RecoverKeepsRunning(w) ==
  /\ wpc[w] = "ready"
  /\ CanEnter
  /\ ~Claimable
  /\ \E again \in InIdOrder(overdue) :
       pending' = Popped \o again
  /\ wpc' = [Woken(wpc) EXCEPT ![w] = "sleeping"]
  /\ UNCHANGED <<state, overdue, seq, gateVars, wtask>>

\* The same, by a loop whose last recover_stale is recover_interval ago.
ClaimNothingAndRecover(w) ==
  /\ wpc[w] = "ready"
  /\ CanEnter
  /\ ~Claimable
  /\ \E again \in InIdOrder(overdue) :
       pending' = Popped \o again
  /\ state' = [t \in TaskIds |-> IF t \in overdue THEN "queued" ELSE state[t]]
  /\ overdue' = {}
  /\ wpc' = [Woken(wpc) EXCEPT ![w] = "sleeping"]
  /\ UNCHANGED <<seq, gateVars, wtask>>

WakeUp(w) ==
  /\ wpc[w] = "sleeping"
  /\ wpc' = [wpc EXCEPT ![w] = "ready"]
  /\ UNCHANGED <<queueVars, gateVars, wtask>>

\* Mutant: a task that fails leaves the gate without releasing its slot.
FinishLeaksSlot(w, outcome) ==
  /\ wpc[w] = "busy"
  /\ state' = [state EXCEPT ![wtask[w]] = outcome]
  /\ overdue' = overdue \ {wtask[w]}
  /\ inflight' = IF outcome = "failed" THEN inflight ELSE inflight - 1
  /\ wpc' = [Woken(wpc) EXCEPT ![w] = "ready"]
  /\ wtask' = [wtask EXCEPT ![w] = 0]
  /\ UNCHANGED <<pending, seq, limit>>

\* process returns or raises: complete() or fail() whatever the task's state
\* is by now, then release().
Finish(w, outcome) ==
  /\ wpc[w] = "busy"
  /\ state' = [state EXCEPT ![wtask[w]] = outcome]
  /\ overdue' = overdue \ {wtask[w]}
  /\ inflight' = inflight - 1
  /\ wpc' = [Woken(wpc) EXCEPT ![w] = "ready"]
  /\ wtask' = [wtask EXCEPT ![w] = 0]
  /\ UNCHANGED <<pending, seq, limit>>

-----------------------------------------------------------------------------
(* The pool *)

Resize(n) ==
  /\ limit' = Clamp(n)
  /\ wpc' = Woken(wpc)
  /\ UNCHANGED <<queueVars, inflight, wtask>>

\* WorkerPool.stop(): every loop is cancelled.  CancelledError is no
\* Exception: neither complete nor fail runs, only the gate is left.
Stop ==
  /\ \E w \in Workers : wpc[w] # "stopped"
  /\ wpc' = [w \in Workers |-> "stopped"]
  /\ wtask' = [w \in Workers |-> 0]
  /\ inflight' = inflight - Cardinality(Busy)
  /\ UNCHANGED <<queueVars, limit>>

-----------------------------------------------------------------------------

Init ==
  /\ pending = <<>>
  /\ state = [t \in TaskIds |-> "none"]
  /\ overdue = {}
  /\ seq = 0
  /\ limit = Clamp(InitialLimit)
  /\ inflight = 0
  /\ wpc = [w \in Workers |-> "ready"]
  /\ wtask = [w \in Workers |-> 0]

Loop(w) == \/ AwaitSlot(w)
           \/ ClaimTask(w)
           \/ ClaimNothing(w)
           \/ ClaimNothingAndRecover(w)
           \/ WakeUp(w)
           \/ \E outcome \in {"succeeded", "failed"} : Finish(w, outcome)

Next == \/ Enqueue
        \/ \E t \in LongTasks : Age(t)
        \/ \E w \in Workers : Loop(w)
        \/ \E n \in Requests : Resize(n)
        \/ Stop

Spec == Init /\ [][Next]_vars

\* The event loop runs every scheduled coroutine, sleeps end, and process
\* ends (every forge and LLM call has a timeout).
Fairness == \A w \in Workers : WF_vars(Loop(w))

FairSpec == Spec /\ Fairness

-----------------------------------------------------------------------------
(* Properties *)

\* Types of the queue's, the gate's and the loops' state.
TypeOK ==
  /\ pending \in Seq(TaskIds)
  /\ state \in [TaskIds -> {"none", "queued", "running", "succeeded", "failed"}]
  /\ overdue \subseteq TaskIds
  /\ seq \in 0..MaxTasks
  /\ limit \in Nat \ {0}
  /\ inflight \in Int
  /\ wpc \in [Workers -> {"ready", "waiting", "busy", "sleeping", "stopped"}]
  /\ wtask \in [Workers -> 0..MaxTasks]

\* The gate's counter is the number of reviews really in progress: no path
\* through the loop (an idle claim, a failure, a cancellation) leaks a slot or
\* gives one back twice, which would lower or raise the concurrency for good.
SlotsAccounted == inflight = Cardinality(Busy)

\* No wakeup is lost: a loop waits at the gate only while the gate is full,
\* through every interleaving of release, resize and clear.
WaitOnlyWhenFull == Waiting # {} => inflight >= limit

\* A queued task is in the queue exactly once, and a task being processed in
\* its lease is in it not at all: none is lost and none is handed out twice.
QueuedOnce ==
  \A t \in TaskIds :
    LET places == {i \in DOMAIN pending : pending[i] = t}
    IN /\ state[t] = "queued" => Cardinality(places) = 1
       /\ state[t] = "running" => places = {}

\* queue/worker.py:31: a task's processing is exclusive among the loops.  This
\* holds of the tasks that end within the stale threshold, whatever the others
\* that are put back do to the list.
ShortTasksRunAlone ==
  \A t \in TaskIds \ LongTasks : Cardinality(Running(t)) <= 1

\* The slots of the pool behave as the resizable semaphore of module Gate.
Slots == INSTANCE Gate WITH holders <- Busy, limit <- limit
ImplementsGate == Slots!Spec

\* queue/base.py:4 and 38: tasks that end within the stale threshold go through
\* the declared state machine, although complete() and fail() test no state; a
\* task that has been recovered while it runs may go from queued to succeeded.
ShortTasks == TaskIds \ LongTasks
Lifecycle == INSTANCE TaskLifecycle
               WITH TaskIds <- ShortTasks, state <- [t \in ShortTasks |-> state[t]]
ImplementsLifecycle == Lifecycle!Spec

Stopped == \E w \in Workers : wpc[w] = "stopped"

\* Unless the pool is stopped, every task put on the queue is processed to an
\* end, however the concurrency limit is changed meanwhile.
EveryTaskEnds ==
  \A t \in TaskIds :
    state[t] = "queued" ~> (state[t] \in {"succeeded", "failed"} \/ Stopped)
=============================================================================
