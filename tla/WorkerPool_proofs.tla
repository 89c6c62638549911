-------------------------- MODULE WorkerPool_proofs --------------------------
(***************************************************************************)
(* What WorkerPool promises for any number of loops, any number of tasks   *)
(* and any concurrency limits.                                             *)
(***************************************************************************)
EXTENDS WorkerPool, FiniteSetTheorems, TLAPS

-----------------------------------------------------------------------------
(* Lemmas about the helpers *)

\* The loops that hold a slot are finitely many, so they can be counted.
LEMMA BusyFinite == IsFiniteSet(Busy) /\ Cardinality(Busy) \in Nat
<1>1. Busy \subseteq Workers
  BY DEF Busy
<1> QED
  BY <1>1, PoolAssumption, FS_Subset, FS_CardinalityType

\* What recover_stale puts back is a list of the tasks it found overdue, each
\* of them once.
LEMMA InIdOrderList ==
  ASSUME NEW S, S \subseteq TaskIds, NEW s \in InIdOrder(S)
  PROVE  /\ s \in Seq(TaskIds)
         /\ \A i \in 1..Len(s) : s[i] \in S
         /\ \A t \in S : \E i \in 1..Len(s) : s[i] = t
         /\ \A i, j \in 1..Len(s) : s[i] = s[j] => i = j
<1>1. IsFiniteSet(TaskIds)
  BY PoolAssumption, FS_Interval DEF TaskIds
<1>2. Cardinality(S) \in Nat
  BY <1>1, FS_Subset, FS_CardinalityType
<1>3. s \in [1..Cardinality(S) -> S]
  BY DEF InIdOrder
<1>4. s \in Seq(S) /\ Len(s) = Cardinality(S) /\ DOMAIN s = 1..Len(s)
  BY <1>2, <1>3
<1>5. \A i, j \in 1..Len(s) : s[i] = s[j] => i = j
  <2> SUFFICES ASSUME NEW i \in 1..Len(s), NEW j \in 1..Len(s), i # j
               PROVE  s[i] # s[j]
    OBVIOUS
  <2>1. i \in Int /\ j \in Int /\ s[i] \in Int /\ s[j] \in Int
    <3>1. s[i] \in TaskIds /\ s[j] \in TaskIds
      BY <1>4
    <3> QED
      BY <3>1, PoolAssumption DEF TaskIds
  <2>2. \A k, l \in DOMAIN s : k < l => s[k] < s[l]
    BY DEF InIdOrder
  <2> QED
    BY <1>4, <2>1, <2>2
<1>6. {s[i] : i \in DOMAIN s} = S
  BY DEF InIdOrder
<1> QED
  BY <1>4, <1>5, <1>6

\* Event.set() changes nothing but the loops that wait.
LEMMA WokenType ==
  ASSUME TypeOK
  PROVE  /\ Woken(wpc) \in [Workers -> {"ready", "busy", "sleeping", "stopped"}]
         /\ \A w \in Workers : Woken(wpc)[w] = "busy" <=> wpc[w] = "busy"
  BY DEF TypeOK, Woken

-----------------------------------------------------------------------------
(* Types *)

\* The state of the queue, the gate and the loops keeps its types.
THEOREM TypeCorrect == Spec => []TypeOK
<1>1. Init => TypeOK
  BY PoolAssumption DEF Init, TypeOK, Clamp, TaskIds
<1>2. TypeOK /\ [Next]_vars => TypeOK'
  <2> SUFFICES ASSUME TypeOK, [Next]_vars
               PROVE  TypeOK'
    OBVIOUS
  <2> USE DEF TypeOK
  <2>1. CASE Enqueue
    BY <2>1, PoolAssumption DEF Enqueue, TaskIds, gateVars, loopVars
  <2>2. CASE \E t \in LongTasks : Age(t)
    BY <2>2, PoolAssumption DEF Age, gateVars, loopVars
  <2>3. ASSUME NEW w \in Workers, Loop(w)
        PROVE  TypeOK'
    <3>1. CASE AwaitSlot(w)
      BY <3>1 DEF AwaitSlot, queueVars, gateVars
    <3>2. CASE ClaimTask(w)
      <4>1. Head(pending) \in TaskIds /\ Tail(pending) \in Seq(TaskIds)
        BY <3>2 DEF ClaimTask, Claimable
      <4>2. Head(pending) \in 0..MaxTasks
        BY <4>1 DEF TaskIds
      <4> QED
        BY <3>2, <4>1, <4>2 DEF ClaimTask
    <3>3. CASE ClaimNothing(w)
      <4>1. Popped \in Seq(TaskIds)
        BY DEF Popped
      <4> QED
        BY <3>3, <4>1, WokenType DEF ClaimNothing, gateVars
    <3>4. CASE ClaimNothingAndRecover(w)
      <4>1. Popped \in Seq(TaskIds)
        BY DEF Popped
      <4>2. PICK again \in InIdOrder(overdue) : pending' = Popped \o again
        BY <3>4 DEF ClaimNothingAndRecover
      <4>3. pending' \in Seq(TaskIds)
        BY <4>1, <4>2, InIdOrderList
      <4> QED
        BY <3>4, <4>3, WokenType DEF ClaimNothingAndRecover, gateVars
    <3>5. CASE WakeUp(w)
      BY <3>5 DEF WakeUp, queueVars, gateVars
    <3>6. ASSUME NEW outcome \in {"succeeded", "failed"}, Finish(w, outcome)
          PROVE  TypeOK'
      <4>1. wpc' \in [Workers -> {"ready", "waiting", "busy", "sleeping", "stopped"}]
        BY <3>6, WokenType DEF Finish
      <4>2. state' \in [TaskIds ->
                          {"none", "queued", "running", "succeeded", "failed"}]
        BY <3>6 DEF Finish
      <4>3. wtask' \in [Workers -> 0..MaxTasks]
        BY <3>6, PoolAssumption DEF Finish
      <4> QED
        BY <3>6, <4>1, <4>2, <4>3 DEF Finish
    <3> QED
      BY <2>3, <3>1, <3>2, <3>3, <3>4, <3>5, <3>6 DEF Loop
  <2>4. CASE \E n \in Requests : Resize(n)
    BY <2>4, WokenType, PoolAssumption DEF Resize, Clamp, queueVars
  <2>5. CASE Stop
    BY <2>5, BusyFinite, PoolAssumption DEF Stop, queueVars
  <2>6. CASE UNCHANGED vars
    BY <2>6 DEF vars, queueVars, gateVars, loopVars
  <2> QED
    BY <2>1, <2>2, <2>3, <2>4, <2>5, <2>6 DEF Next
<1> QED
  BY <1>1, <1>2, PTL DEF Spec

-----------------------------------------------------------------------------
(* The gate *)

\* One loop taking a slot, or giving one back, changes the count by one.
LEMMA BusyCount ==
  ASSUME NEW w \in Workers
  PROVE  /\ w \notin Busy => Cardinality(Busy \cup {w}) = Cardinality(Busy) + 1
         /\ w \in Busy => Cardinality(Busy \ {w}) = Cardinality(Busy) - 1
  BY BusyFinite, FS_AddElement, FS_RemoveElement

GateInv == SlotsAccounted /\ WaitOnlyWhenFull

\* No slot leaks and no wakeup is lost, for any number of loops and through
\* every interleaving of claims, failures, resizes and cancellation.
THEOREM GateCorrect == Spec => [](SlotsAccounted /\ WaitOnlyWhenFull)
<1>1. Init => GateInv
  <2> SUFFICES ASSUME Init
               PROVE  GateInv
    OBVIOUS
  <2>1. Busy = {} /\ Waiting = {}
    BY DEF Init, Busy, Waiting
  <2> QED
    BY <2>1, FS_EmptySet DEF Init, GateInv, SlotsAccounted, WaitOnlyWhenFull
<1>2. TypeOK /\ GateInv /\ [Next]_vars => GateInv'
  <2> SUFFICES ASSUME TypeOK, GateInv, [Next]_vars
               PROVE  GateInv'
    OBVIOUS
  <2> USE DEF GateInv
  <2>a. ASSUME wpc' = wpc, inflight' = inflight, limit' = limit
        PROVE  GateInv'
    BY <2>a DEF SlotsAccounted, WaitOnlyWhenFull, Busy, Waiting
  <2>b. ASSUME NEW w \in Workers, wpc[w] # "busy", inflight' = inflight,
               NEW pc \in {"ready", "sleeping"}, wpc' = [Woken(wpc) EXCEPT ![w] = pc]
        PROVE  GateInv'
    <3>1. Busy' = Busy /\ Waiting' = {}
      BY <2>b, WokenType DEF Busy, Waiting
    <3> QED
      BY <2>b, <3>1 DEF SlotsAccounted, WaitOnlyWhenFull
  <2>1. CASE Enqueue
    BY <2>1, <2>a DEF Enqueue, gateVars, loopVars
  <2>2. CASE \E t \in LongTasks : Age(t)
    BY <2>2, <2>a DEF Age, gateVars, loopVars
  <2>3. ASSUME NEW w \in Workers, Loop(w)
        PROVE  GateInv'
    <3>1. CASE AwaitSlot(w)
      <4>1. Busy' = Busy
        BY <3>1 DEF AwaitSlot, Busy, TypeOK
      <4>2. inflight >= limit
        BY <3>1 DEF AwaitSlot, CanEnter, TypeOK
      <4> QED
        BY <3>1, <4>1, <4>2 DEF AwaitSlot, gateVars, SlotsAccounted, WaitOnlyWhenFull
    <3>2. CASE ClaimTask(w)
      <4>1. w \notin Busy /\ Busy' = Busy \cup {w}
        BY <3>2 DEF ClaimTask, Busy, TypeOK
      <4>2. SlotsAccounted'
        BY <3>2, <4>1, BusyCount DEF ClaimTask, SlotsAccounted
      <4>3. Waiting' \subseteq Waiting
        BY <3>2 DEF ClaimTask, Waiting, TypeOK
      <4>4. inflight' = inflight + 1 /\ limit' = limit
        BY <3>2 DEF ClaimTask
      <4>5. WaitOnlyWhenFull'
        BY <4>3, <4>4 DEF WaitOnlyWhenFull, TypeOK
      <4> QED
        BY <4>2, <4>5
    <3>3. CASE ClaimNothing(w)
      BY <3>3, <2>b DEF ClaimNothing, gateVars
    <3>4. CASE ClaimNothingAndRecover(w)
      BY <3>4, <2>b DEF ClaimNothingAndRecover, gateVars
    <3>5. CASE WakeUp(w)
      <4>1. Busy' = Busy /\ Waiting' \subseteq Waiting
        BY <3>5 DEF WakeUp, Busy, Waiting, TypeOK
      <4> QED
        BY <3>5, <4>1 DEF WakeUp, gateVars, SlotsAccounted, WaitOnlyWhenFull
    <3>6. ASSUME NEW outcome \in {"succeeded", "failed"}, Finish(w, outcome)
          PROVE  GateInv'
      <4>1. w \in Busy /\ Busy' = Busy \ {w} /\ Waiting' = {}
        BY <3>6, WokenType DEF Finish, Busy, Waiting
      <4> QED
        BY <3>6, <4>1, BusyCount DEF Finish, SlotsAccounted, WaitOnlyWhenFull
    <3> QED
      BY <2>3, <3>1, <3>2, <3>3, <3>4, <3>5, <3>6 DEF Loop
  <2>4. CASE \E n \in Requests : Resize(n)
    <3>1. Busy' = Busy /\ Waiting' = {} /\ inflight' = inflight
      BY <2>4, WokenType DEF Resize, Busy, Waiting, queueVars
    <3> QED
      BY <3>1 DEF SlotsAccounted, WaitOnlyWhenFull
  <2>5. CASE Stop
    <3>1. Busy' = {} /\ Waiting' = {} /\ inflight' = inflight - Cardinality(Busy)
      BY <2>5 DEF Stop, Busy, Waiting
    <3>2. inflight' = 0
      BY <3>1, BusyFinite DEF SlotsAccounted
    <3> QED
      BY <3>1, <3>2, FS_EmptySet DEF SlotsAccounted, WaitOnlyWhenFull
  <2>6. CASE UNCHANGED vars
    BY <2>6, <2>a DEF vars, gateVars, loopVars
  <2> QED
    BY <2>1, <2>2, <2>3, <2>4, <2>5, <2>6 DEF Next
<1> QED
  BY <1>1, <1>2, TypeCorrect, PTL DEF Spec, GateInv

\* The gate of queue/concurrency.py, as the loops use it, is the resizable
\* semaphore of module Gate: it admits below the limit only, resizing evicts
\* nobody, cancellation gives everything back.
THEOREM GateRefinement == Spec => ImplementsGate
<1> DEFINE Inv == TypeOK /\ GateInv
<1>1. Init => Slots!Init
  <2> SUFFICES ASSUME Init
               PROVE  Slots!Init
    OBVIOUS
  <2>1. Busy = {}
    BY DEF Init, Busy
  <2>2. limit \in Nat \ {0}
    BY PoolAssumption DEF Init, Clamp
  <2> QED
    BY <2>1, <2>2 DEF Slots!Init
<1>2. Inv /\ [Next]_vars => [Slots!Next]_(Slots!vars)
  <2> SUFFICES ASSUME TypeOK, GateInv, [Next]_vars
               PROVE  Slots!Next \/ (Busy' = Busy /\ limit' = limit)
    BY DEF Slots!vars
  <2>a. ASSUME wpc' = wpc, limit' = limit
        PROVE  Busy' = Busy /\ limit' = limit
    BY <2>a DEF Busy
  <2>1. CASE Enqueue
    BY <2>1, <2>a DEF Enqueue, gateVars, loopVars
  <2>2. CASE \E t \in LongTasks : Age(t)
    BY <2>2, <2>a DEF Age, gateVars, loopVars
  <2>3. ASSUME NEW w \in Workers, Loop(w)
        PROVE  Slots!Next \/ (Busy' = Busy /\ limit' = limit)
    <3>1. CASE AwaitSlot(w)
      BY <3>1 DEF AwaitSlot, Busy, TypeOK, gateVars
    <3>2. CASE ClaimTask(w)
      <4>1. w \notin Busy /\ Busy' = Busy \cup {w} /\ limit' = limit
        BY <3>2 DEF ClaimTask, Busy, TypeOK
      <4>2. Cardinality(Busy) < limit
        BY <3>2 DEF ClaimTask, CanEnter, GateInv, SlotsAccounted
      <4>3. Slots!Cardinality(Busy) = Cardinality(Busy)
        BY DEF Slots!Cardinality, Cardinality
      <4> QED
        BY <4>1, <4>2, <4>3 DEF Slots!Next, Slots!Admit
    <3>3. CASE ClaimNothing(w)
      BY <3>3, WokenType DEF ClaimNothing, Busy, gateVars
    <3>4. CASE ClaimNothingAndRecover(w)
      BY <3>4, WokenType DEF ClaimNothingAndRecover, Busy, gateVars
    <3>5. CASE WakeUp(w)
      BY <3>5 DEF WakeUp, Busy, TypeOK, gateVars
    <3>6. ASSUME NEW outcome \in {"succeeded", "failed"}, Finish(w, outcome)
          PROVE  Slots!Next
      <4>1. w \in Busy /\ Busy' = Busy \ {w} /\ limit' = limit
        BY <3>6, WokenType DEF Finish, Busy
      <4> QED
        BY <4>1 DEF Slots!Next, Slots!Leave
    <3> QED
      BY <2>3, <3>1, <3>2, <3>3, <3>4, <3>5, <3>6 DEF Loop
  <2>4. CASE \E n \in Requests : Resize(n)
    <3>1. Busy' = Busy
      BY <2>4, WokenType DEF Resize, Busy
    <3>2. limit' \in Nat \ {0}
      BY <2>4, PoolAssumption DEF Resize, Clamp
    <3> QED
      BY <3>1, <3>2 DEF Slots!Next, Slots!SetLimit
  <2>5. CASE Stop
    BY <2>5 DEF Stop, Busy, Slots!Next, Slots!Vacate
  <2>6. CASE UNCHANGED vars
    BY <2>6, <2>a DEF vars, gateVars, loopVars
  <2> QED
    BY <2>1, <2>2, <2>3, <2>4, <2>5, <2>6 DEF Next
<1>3. Spec => []Inv
  BY TypeCorrect, GateCorrect, PTL DEF GateInv
<1> QED
  BY <1>1, <1>2, <1>3, PTL DEF Spec, ImplementsGate, Slots!Spec

-----------------------------------------------------------------------------
(* The queue *)

\* No id is on the queue twice, and none that is being processed in its lease.
OnQueueOnce ==
  /\ \A i, j \in 1..Len(pending) : pending[i] = pending[j] => i = j
  /\ \A i \in 1..Len(pending) : state[pending[i]] # "running" /\ pending[i] <= seq

\* A queued task is on the queue.
NoneForgotten ==
  \A t \in TaskIds : state[t] = "queued" => \E i \in 1..Len(pending) : pending[i] = t

\* Ids above seq are not given out yet; only running tasks grow old, and only
\* long ones do; a loop that processes a short task still has the lease on it,
\* alone.
Leases ==
  /\ \A t \in TaskIds : t > seq => state[t] = "none"
  /\ \A t \in overdue : state[t] = "running" /\ t \in LongTasks
  /\ \A w \in Busy : wtask[w] \in TaskIds /\ wtask[w] <= seq
  /\ \A w \in Busy : wtask[w] \notin LongTasks => state[wtask[w]] = "running"
  /\ \A w, v \in Busy : wtask[w] = wtask[v] /\ wtask[w] \notin LongTasks => w = v

QueueInv == OnQueueOnce /\ NoneForgotten /\ Leases

\* What claim() does to the list: the rest keeps its order.
LEMMA PoppedList ==
  ASSUME TypeOK
  PROVE  /\ Popped \in Seq(TaskIds)
         /\ pending # <<>> => /\ Len(Popped) = Len(pending) - 1
                             /\ \A i \in 1..Len(Popped) : Popped[i] = pending[i + 1]
         /\ pending = <<>> => Popped = <<>>
  BY DEF TypeOK, Popped

\* claim() drops nothing but the head, and a head it drops is not queued.
LEMMA PoppedKeeps ==
  ASSUME TypeOK, QueueInv, ~Claimable
  PROVE  /\ \A i, j \in 1..Len(Popped) : Popped[i] = Popped[j] => i = j
         /\ \A i \in 1..Len(Popped) : state[Popped[i]] # "running" /\ Popped[i] <= seq
         /\ \A t \in TaskIds :
              state[t] = "queued" => \E i \in 1..Len(Popped) : Popped[i] = t
<1>1. CASE pending = <<>>
  BY <1>1, PoppedList DEF QueueInv, OnQueueOnce, NoneForgotten
<1>2. CASE pending # <<>>
  <2>1. /\ Len(pending) \in Nat /\ Len(pending) >= 1
        /\ Len(Popped) = Len(pending) - 1
        /\ \A i \in 1..Len(Popped) : i + 1 \in 1..Len(pending) /\ Popped[i] = pending[i + 1]
    BY <1>2, PoppedList DEF TypeOK
  <2>2. \A i, j \in 1..Len(Popped) : Popped[i] = Popped[j] => i = j
    <3> SUFFICES ASSUME NEW i \in 1..Len(Popped), NEW j \in 1..Len(Popped),
                        Popped[i] = Popped[j]
                 PROVE  i = j
      OBVIOUS
    <3>1. i + 1 = j + 1
      BY <2>1 DEF QueueInv, OnQueueOnce
    <3> QED
      BY <3>1, <2>1
  <2>3. \A i \in 1..Len(Popped) : state[Popped[i]] # "running" /\ Popped[i] <= seq
    BY <2>1 DEF QueueInv, OnQueueOnce
  <2>4. ASSUME NEW t \in TaskIds, state[t] = "queued"
        PROVE  \E i \in 1..Len(Popped) : Popped[i] = t
    <3>1. PICK k \in 1..Len(pending) : pending[k] = t
      BY <2>4 DEF QueueInv, NoneForgotten
    <3>2. k # 1
      BY <1>2, <2>4, <3>1 DEF Claimable, TypeOK
    <3>3. k - 1 \in 1..Len(Popped) /\ Popped[k - 1] = pending[k]
      BY <2>1, <3>2
    <3> QED
      BY <3>1, <3>3
  <2> QED
    BY <2>2, <2>3, <2>4
<1> QED
  BY <1>1, <1>2

\* An idle claim without recovery keeps the queue in order.
LEMMA IdleClaim ==
  ASSUME TypeOK, QueueInv, NEW w \in Workers, ClaimNothing(w)
  PROVE  QueueInv'
<1>1. /\ pending' = Popped /\ state' = state /\ seq' = seq
      /\ overdue' = overdue /\ wtask' = wtask /\ ~Claimable
  BY DEF ClaimNothing
<1>2. OnQueueOnce' /\ NoneForgotten'
  BY <1>1, PoppedKeeps DEF OnQueueOnce, NoneForgotten
<1>3. Busy' = Busy
  BY WokenType DEF ClaimNothing, Busy
<1> QED
  BY <1>1, <1>2, <1>3 DEF QueueInv, Leases

\* recover_stale appends exactly the tasks that are on the queue not yet.
LEMMA RecoveringClaim ==
  ASSUME TypeOK, QueueInv, NEW w \in Workers, ClaimNothingAndRecover(w)
  PROVE  QueueInv'
<1>1. /\ state' = [t \in TaskIds |-> IF t \in overdue THEN "queued" ELSE state[t]]
      /\ seq' = seq /\ overdue' = {} /\ wtask' = wtask /\ ~Claimable
  BY DEF ClaimNothingAndRecover
<1>2. PICK again \in InIdOrder(overdue) : pending' = Popped \o again
  BY DEF ClaimNothingAndRecover
<1>3. overdue \subseteq TaskIds
  BY DEF TypeOK
<1>4. /\ again \in Seq(TaskIds)
      /\ \A i \in 1..Len(again) : again[i] \in overdue
      /\ \A t \in overdue : \E i \in 1..Len(again) : again[i] = t
      /\ \A i, j \in 1..Len(again) : again[i] = again[j] => i = j
  BY <1>3, InIdOrderList
<1>5. /\ Len(Popped) \in Nat /\ Len(again) \in Nat
      /\ Len(pending') = Len(Popped) + Len(again)
      /\ \A i \in 1..Len(Popped) : i \in 1..Len(pending') /\ pending'[i] = Popped[i]
      /\ \A i \in 1..Len(again) : /\ i + Len(Popped) \in 1..Len(pending')
                                  /\ pending'[i + Len(Popped)] = again[i]
      /\ \A i \in 1..Len(pending') :
           i \notin 1..Len(Popped) =>
             i - Len(Popped) \in 1..Len(again) /\ pending'[i] = again[i - Len(Popped)]
  BY <1>2, <1>4, PoppedList
<1>6. \A i \in 1..Len(Popped) : Popped[i] \notin overdue
  BY <1>1, PoppedKeeps DEF QueueInv, Leases
<1>7. OnQueueOnce'
  <2>1. ASSUME NEW i \in 1..Len(pending'), NEW j \in 1..Len(pending'),
               pending'[i] = pending'[j]
        PROVE  i = j
    <3>1. CASE i \in 1..Len(Popped) /\ j \in 1..Len(Popped)
      BY <1>1, <1>5, <2>1, <3>1, PoppedKeeps
    <3>2. CASE i \notin 1..Len(Popped) /\ j \notin 1..Len(Popped)
      <4>1. i - Len(Popped) = j - Len(Popped)
        BY <1>4, <1>5, <2>1, <3>2
      <4> QED
        BY <4>1, <1>5
    <3>3. CASE i \in 1..Len(Popped) /\ j \notin 1..Len(Popped)
      BY <1>4, <1>5, <1>6, <2>1, <3>3
    <3>4. CASE i \notin 1..Len(Popped) /\ j \in 1..Len(Popped)
      BY <1>4, <1>5, <1>6, <2>1, <3>4
    <3> QED
      BY <3>1, <3>2, <3>3, <3>4
  <2>2. ASSUME NEW i \in 1..Len(pending')
        PROVE  state'[pending'[i]] # "running" /\ pending'[i] <= seq'
    <3>1. CASE i \in 1..Len(Popped)
      <4>1. pending'[i] \in TaskIds /\ pending'[i] = Popped[i]
        BY <1>5, <3>1, PoppedList
      <4> QED
        BY <1>1, <1>6, <3>1, <4>1, PoppedKeeps
    <3>2. CASE i \notin 1..Len(Popped)
      <4>1. pending'[i] \in overdue
        BY <1>4, <1>5, <3>2
      <4>2. pending'[i] \in TaskIds /\ state[pending'[i]] = "running"
        BY <1>3, <4>1 DEF QueueInv, Leases
      <4>3. ~(pending'[i] > seq)
        BY <4>2 DEF QueueInv, Leases
      <4>4. pending'[i] <= seq
        BY <4>2, <4>3, PoolAssumption DEF TypeOK, TaskIds
      <4> QED
        BY <1>1, <4>1, <4>2, <4>4
    <3> QED
      BY <3>1, <3>2
  <2> QED
    BY <2>1, <2>2 DEF OnQueueOnce
<1>8. NoneForgotten'
  <2> SUFFICES ASSUME NEW t \in TaskIds, state'[t] = "queued"
               PROVE  \E i \in 1..Len(pending') : pending'[i] = t
    BY DEF NoneForgotten
  <2>1. CASE t \in overdue
    <3>1. PICK k \in 1..Len(again) : again[k] = t
      BY <1>4, <2>1
    <3> QED
      BY <1>5, <3>1
  <2>2. CASE t \notin overdue
    <3>1. PICK k \in 1..Len(Popped) : Popped[k] = t
      BY <1>1, <2>2, PoppedKeeps
    <3> QED
      BY <1>5, <3>1
  <2> QED
    BY <2>1, <2>2
<1>9. Leases'
  <2>1. Busy' = Busy
    BY WokenType DEF ClaimNothingAndRecover, Busy
  <2>2. \A t \in TaskIds : t > seq => t \notin overdue
    BY DEF QueueInv, Leases
  <2> QED
    BY <1>1, <2>1, <2>2 DEF QueueInv, Leases
<1> QED
  BY <1>7, <1>8, <1>9 DEF QueueInv

\* enqueue hands out a fresh id and puts it at the end.
LEMMA EnqueueKeepsQueue ==
  ASSUME TypeOK, QueueInv, Enqueue
  PROVE  QueueInv'
<1>1. /\ seq \in Nat /\ seq + 1 \in TaskIds /\ seq' = seq + 1
      /\ state' = [state EXCEPT ![seq + 1] = "queued"]
      /\ overdue' = overdue /\ wtask' = wtask /\ wpc' = wpc
  BY PoolAssumption DEF TypeOK, Enqueue, TaskIds, loopVars
<1>2. /\ Len(pending) \in Nat
      /\ Len(pending') = Len(pending) + 1
      /\ \A i \in 1..Len(pending) : i \in 1..Len(pending') /\ pending'[i] = pending[i]
      /\ Len(pending') \in 1..Len(pending') /\ pending'[Len(pending')] = seq + 1
      /\ \A i \in 1..Len(pending') : i = Len(pending') \/ i \in 1..Len(pending)
      /\ \A i \in 1..Len(pending) : pending[i] \in TaskIds
  BY <1>1 DEF TypeOK, Enqueue
<1>3. \A i \in 1..Len(pending) : pending[i] # seq + 1 /\ pending[i] <= seq + 1
  BY <1>1, <1>2 DEF QueueInv, OnQueueOnce, TaskIds
<1>4. state[seq + 1] = "none"
  BY <1>1 DEF QueueInv, Leases
<1>5. OnQueueOnce'
  <2>1. \A i, j \in 1..Len(pending') : pending'[i] = pending'[j] => i = j
    BY <1>2, <1>3 DEF QueueInv, OnQueueOnce
  <2>2. \A i \in 1..Len(pending') : state'[pending'[i]] # "running" /\ pending'[i] <= seq'
    BY <1>1, <1>2, <1>3 DEF QueueInv, OnQueueOnce, TypeOK
  <2> QED
    BY <2>1, <2>2 DEF OnQueueOnce
<1>6. NoneForgotten'
  <2> SUFFICES ASSUME NEW t \in TaskIds, state'[t] = "queued"
               PROVE  \E i \in 1..Len(pending') : pending'[i] = t
    BY DEF NoneForgotten
  <2>1. CASE t = seq + 1
    BY <1>2, <2>1
  <2>2. CASE t # seq + 1
    BY <1>1, <1>2, <2>2 DEF QueueInv, NoneForgotten, TypeOK
  <2> QED
    BY <2>1, <2>2
<1>7. Leases'
  <2>1. Busy' = Busy
    BY <1>1 DEF Busy
  <2>2. \A t \in TaskIds : t > seq' => state'[t] = "none"
    BY <1>1 DEF QueueInv, Leases, TypeOK, TaskIds
  <2>3. \A t \in overdue' : state'[t] = "running" /\ t \in LongTasks
    BY <1>1, <1>4 DEF QueueInv, Leases, TypeOK
  <2>4. \A w \in Busy' : wtask'[w] \in TaskIds /\ wtask'[w] <= seq'
    BY <1>1, <2>1 DEF QueueInv, Leases, TaskIds
  <2>5. \A w \in Busy' : wtask'[w] \notin LongTasks => state'[wtask'[w]] = "running"
    BY <1>1, <1>4, <2>1 DEF QueueInv, Leases, TypeOK
  <2> QED
    BY <1>1, <2>1, <2>2, <2>3, <2>4, <2>5 DEF QueueInv, Leases
<1> QED
  BY <1>5, <1>6, <1>7 DEF QueueInv

\* A claim moves the head of the list, and it alone, to one loop.
LEMMA ClaimKeepsQueue ==
  ASSUME TypeOK, QueueInv, NEW w \in Workers, ClaimTask(w)
  PROVE  QueueInv'
<1> DEFINE h == Head(pending)
<1>1. /\ pending # <<>> /\ state[h] = "queued" /\ wpc[w] = "ready"
      /\ state' = [state EXCEPT ![h] = "running"]
      /\ wpc' = [wpc EXCEPT ![w] = "busy"] /\ wtask' = [wtask EXCEPT ![w] = h]
      /\ overdue' = overdue /\ seq' = seq
  BY DEF ClaimTask, Claimable
<1>2. /\ Len(pending) \in Nat /\ Len(pending) >= 1 /\ h = pending[1] /\ h \in TaskIds
      /\ 1 \in 1..Len(pending)
      /\ Len(pending') = Len(pending) - 1
      /\ \A i \in 1..Len(pending') : /\ i + 1 \in 1..Len(pending)
                                     /\ i + 1 # 1
                                     /\ pending'[i] = pending[i + 1]
                                     /\ pending'[i] \in TaskIds
  BY <1>1 DEF TypeOK, ClaimTask
<1>3. \A i \in 1..Len(pending') : pending'[i] # h
  BY <1>2 DEF QueueInv, OnQueueOnce
<1>4. h <= seq
  BY <1>2 DEF QueueInv, OnQueueOnce
<1>5. OnQueueOnce'
  <2>1. ASSUME NEW i \in 1..Len(pending'), NEW j \in 1..Len(pending'),
               pending'[i] = pending'[j]
        PROVE  i = j
    <3>1. i + 1 = j + 1
      BY <1>2, <2>1 DEF QueueInv, OnQueueOnce
    <3> QED
      BY <3>1
  <2>2. \A i \in 1..Len(pending') : state'[pending'[i]] # "running" /\ pending'[i] <= seq'
    BY <1>1, <1>2, <1>3 DEF QueueInv, OnQueueOnce, TypeOK
  <2> QED
    BY <2>1, <2>2 DEF OnQueueOnce
<1>6. NoneForgotten'
  <2> SUFFICES ASSUME NEW t \in TaskIds, state'[t] = "queued"
               PROVE  \E i \in 1..Len(pending') : pending'[i] = t
    BY DEF NoneForgotten
  <2>1. t # h /\ state[t] = "queued"
    BY <1>1, <1>2 DEF TypeOK
  <2>2. PICK k \in 1..Len(pending) : pending[k] = t
    BY <2>1 DEF QueueInv, NoneForgotten
  <2>3. k # 1
    BY <1>2, <2>1, <2>2
  <2>4. k - 1 \in 1..Len(pending') /\ pending'[k - 1] = pending[k]
    BY <1>2, <2>3
  <2> QED
    BY <2>2, <2>4
<1>7. Leases'
  <2>1. Busy' = Busy \cup {w} /\ w \notin Busy
    BY <1>1 DEF Busy, TypeOK
  <2>2. /\ \A v \in Busy : v # w /\ wtask'[v] = wtask[v]
        /\ wtask'[w] = h
    BY <1>1, <2>1 DEF Busy, TypeOK
  <2>3. \A t \in TaskIds : t > seq' => state'[t] = "none"
    BY <1>1, <1>2, <1>4 DEF QueueInv, Leases, TypeOK, TaskIds
  <2>4. \A t \in overdue' : state'[t] = "running" /\ t \in LongTasks
    BY <1>1 DEF QueueInv, Leases, TypeOK
  <2>5. \A v \in Busy' : wtask'[v] \in TaskIds /\ wtask'[v] <= seq'
    BY <1>1, <1>2, <1>4, <2>1, <2>2 DEF QueueInv, Leases
  <2>6. \A v \in Busy' : wtask'[v] \notin LongTasks => state'[wtask'[v]] = "running"
    BY <1>1, <1>2, <2>1, <2>2 DEF QueueInv, Leases, TypeOK
  <2>7. \A v \in Busy : wtask[v] \notin LongTasks => wtask[v] # h
    BY <1>1 DEF QueueInv, Leases
  <2>8. \A u, v \in Busy' : wtask'[u] = wtask'[v] /\ wtask'[u] \notin LongTasks => u = v
    BY <2>1, <2>2, <2>7 DEF QueueInv, Leases
  <2> QED
    BY <2>3, <2>4, <2>5, <2>6, <2>8 DEF Leases
<1> QED
  BY <1>5, <1>6, <1>7 DEF QueueInv

\* A loop that ends a task ends no other loop's lease.
LEMMA FinishKeepsQueue ==
  ASSUME TypeOK, QueueInv, NEW w \in Workers,
         NEW outcome \in {"succeeded", "failed"}, Finish(w, outcome)
  PROVE  QueueInv'
<1>1. /\ w \in Busy /\ wtask[w] \in TaskIds /\ wtask[w] <= seq
      /\ state' = [state EXCEPT ![wtask[w]] = outcome]
      /\ overdue' = overdue \ {wtask[w]}
      /\ wtask' = [wtask EXCEPT ![w] = 0]
      /\ pending' = pending /\ seq' = seq
  BY DEF Finish, Busy, QueueInv, Leases
<1>2. Busy' = Busy \ {w}
  BY WokenType DEF Finish, Busy
<1>3. \A v \in Busy' : v \in Busy /\ v # w /\ wtask'[v] = wtask[v]
  BY <1>1, <1>2 DEF TypeOK, Busy
<1>4. /\ \A t \in TaskIds : state'[t] = IF t = wtask[w] THEN outcome ELSE state[t]
      /\ \A i \in 1..Len(pending) : pending[i] \in TaskIds
      /\ outcome # "running" /\ outcome # "queued"
      /\ overdue \subseteq TaskIds
  BY <1>1 DEF TypeOK
<1>5. OnQueueOnce'
  BY <1>1, <1>4 DEF QueueInv, OnQueueOnce
<1>6. NoneForgotten'
  BY <1>1, <1>4 DEF QueueInv, NoneForgotten
<1>7. Leases'
  <2>1. \A t \in TaskIds : t > seq' => state'[t] = "none"
    BY <1>1, <1>4 DEF QueueInv, Leases, TypeOK, TaskIds
  <2>2. \A t \in overdue' : state'[t] = "running" /\ t \in LongTasks
    BY <1>1, <1>4 DEF QueueInv, Leases
  <2>3. \A v \in Busy' : wtask'[v] \in TaskIds /\ wtask'[v] <= seq'
    BY <1>1, <1>3 DEF QueueInv, Leases
  <2>4. \A v \in Busy' : wtask'[v] \notin LongTasks => state'[wtask'[v]] = "running"
    <3> SUFFICES ASSUME NEW v \in Busy', wtask'[v] \notin LongTasks
                 PROVE  state'[wtask'[v]] = "running"
      OBVIOUS
    <3>1. v \in Busy /\ v # w /\ wtask'[v] = wtask[v] /\ wtask[v] \in TaskIds
      BY <1>3 DEF QueueInv, Leases
    <3>2. wtask[v] # wtask[w]
      BY <1>1, <3>1 DEF QueueInv, Leases
    <3> QED
      BY <1>4, <3>1, <3>2 DEF QueueInv, Leases
  <2>5. \A u, v \in Busy' : wtask'[u] = wtask'[v] /\ wtask'[u] \notin LongTasks => u = v
    BY <1>3 DEF QueueInv, Leases
  <2> QED
    BY <2>1, <2>2, <2>3, <2>4, <2>5 DEF Leases
<1> QED
  BY <1>5, <1>6, <1>7 DEF QueueInv

\* Through every interleaving of claims, failures, stale recoveries, resizes
\* and the cancellation of the pool, the list and the states agree.
THEOREM QueueCorrect == Spec => []QueueInv
<1>1. Init => QueueInv
  <2> SUFFICES ASSUME Init
               PROVE  QueueInv
    OBVIOUS
  <2>1. Busy = {} /\ Len(pending) = 0
    BY DEF Init, Busy
  <2> QED
    BY <2>1 DEF Init, QueueInv, OnQueueOnce, NoneForgotten, Leases
<1>2. TypeOK /\ QueueInv /\ [Next]_vars => QueueInv'
  <2> SUFFICES ASSUME TypeOK, QueueInv, [Next]_vars
               PROVE  QueueInv'
    OBVIOUS
  <2>a. ASSUME UNCHANGED queueVars, wtask' = wtask, Busy' = Busy
        PROVE  QueueInv'
    BY <2>a DEF queueVars, QueueInv, OnQueueOnce, NoneForgotten, Leases
  <2>1. CASE Enqueue
    BY <2>1, EnqueueKeepsQueue
  <2>2. ASSUME NEW t \in LongTasks, Age(t)
        PROVE  QueueInv'
    <3>1. Busy' = Busy
      BY <2>2 DEF Age, loopVars, Busy
    <3> QED
      BY <2>2, <3>1 DEF Age, loopVars, QueueInv, OnQueueOnce, NoneForgotten, Leases
  <2>3. ASSUME NEW w \in Workers, Loop(w)
        PROVE  QueueInv'
    <3>1. CASE AwaitSlot(w)
      BY <3>1, <2>a DEF AwaitSlot, Busy, TypeOK
    <3>2. CASE WakeUp(w)
      BY <3>2, <2>a DEF WakeUp, Busy, TypeOK
    <3> QED
      BY <2>3, <3>1, <3>2, ClaimKeepsQueue, IdleClaim, RecoveringClaim,
         FinishKeepsQueue DEF Loop
  <2>4. CASE \E n \in Requests : Resize(n)
    BY <2>4, <2>a, WokenType DEF Resize, Busy
  <2>5. CASE Stop
    <3>1. Busy' = {}
      BY <2>5 DEF Stop, Busy
    <3> QED
      BY <2>5, <3>1 DEF Stop, queueVars, QueueInv, OnQueueOnce, NoneForgotten, Leases
  <2>6. CASE UNCHANGED vars
    BY <2>6, <2>a DEF vars, loopVars, Busy
  <2> QED
    BY <2>1, <2>2, <2>3, <2>4, <2>5, <2>6 DEF Next
<1> QED
  BY <1>1, <1>2, TypeCorrect, PTL DEF Spec

\* A queued task is on the list once, a running one not at all.
THEOREM QueuedOnceCorrect == Spec => []QueuedOnce
<1>1. TypeOK /\ QueueInv => QueuedOnce
  <2> SUFFICES ASSUME TypeOK, QueueInv, NEW t \in TaskIds
               PROVE  LET places == {i \in DOMAIN pending : pending[i] = t}
                      IN /\ state[t] = "queued" => Cardinality(places) = 1
                         /\ state[t] = "running" => places = {}
    BY DEF QueuedOnce
  <2> DEFINE places == {i \in DOMAIN pending : pending[i] = t}
  <2>1. DOMAIN pending = 1..Len(pending)
    BY DEF TypeOK
  <2>2. ASSUME state[t] = "queued"
        PROVE  Cardinality(places) = 1
    <3>1. PICK k \in 1..Len(pending) : pending[k] = t
      BY <2>2 DEF QueueInv, NoneForgotten
    <3>2. places = {k}
      BY <2>1, <3>1 DEF QueueInv, OnQueueOnce
    <3> QED
      BY <3>2, FS_Singleton
  <2>3. state[t] = "running" => places = {}
    BY <2>1 DEF QueueInv, OnQueueOnce
  <2> QED
    BY <2>2, <2>3
<1> QED
  BY <1>1, TypeCorrect, QueueCorrect, PTL

\* A task that stays under the stale threshold is processed by one loop at a
\* time: only recover_stale can hand a task out a second time.
THEOREM ShortTasksCorrect == Spec => []ShortTasksRunAlone
<1>1. TypeOK /\ QueueInv => ShortTasksRunAlone
  <2> SUFFICES ASSUME TypeOK, QueueInv, NEW t \in TaskIds \ LongTasks
               PROVE  Cardinality(Running(t)) <= 1
    BY DEF ShortTasksRunAlone
  <2>1. \A u, v \in Running(t) : u = v
    BY DEF Running, QueueInv, Leases
  <2>2. CASE Running(t) = {}
    BY <2>2, FS_EmptySet
  <2>3. CASE Running(t) # {}
    <3>1. PICK u : Running(t) = {u}
      BY <2>1, <2>3
    <3>2. Cardinality(Running(t)) = 1
      BY <3>1, FS_Singleton
    <3> QED
      BY <3>2
  <2> QED
    BY <2>2, <2>3
<1> QED
  BY <1>1, TypeCorrect, QueueCorrect, PTL

\* Tasks that stay under the stale threshold go through the state machine of
\* queue/base.py: complete() and fail() test nothing, the lease is what makes
\* their writes legal.
THEOREM LifecycleRefinement == Spec => ImplementsLifecycle
<1> DEFINE short == [t \in ShortTasks |-> state[t]]
<1>1. Init => Lifecycle!Init
  BY DEF Init, Lifecycle!Init, ShortTasks
<1>2. TypeOK /\ TypeOK' /\ QueueInv /\ [Next]_vars => [Lifecycle!Next]_short
  <2> SUFFICES ASSUME TypeOK, TypeOK', QueueInv, [Next]_vars,
                      NEW t \in ShortTasks, state'[t] # state[t]
               PROVE  <<state[t], state'[t]>> \in Lifecycle!Legal
    BY DEF Lifecycle!Next, TypeOK, ShortTasks
  <2>1. t \in TaskIds /\ t \notin LongTasks
    BY DEF ShortTasks
  <2>2. CASE Enqueue
    <3>1. seq + 1 \in TaskIds /\ seq + 1 > seq
      BY <2>2, PoolAssumption DEF Enqueue, TypeOK, TaskIds
    <3>2. state[seq + 1] = "none"
      BY <3>1 DEF QueueInv, Leases
    <3>3. t = seq + 1 /\ state'[t] = "queued"
      BY <2>1, <2>2, <3>1 DEF Enqueue, TypeOK
    <3> QED
      BY <3>2, <3>3 DEF Lifecycle!Legal
  <2>3. CASE \E u \in LongTasks : Age(u)
    BY <2>3 DEF Age
  <2>4. ASSUME NEW w \in Workers, Loop(w)
        PROVE  <<state[t], state'[t]>> \in Lifecycle!Legal
    <3>1. CASE AwaitSlot(w) \/ ClaimNothing(w) \/ WakeUp(w)
      BY <3>1 DEF AwaitSlot, ClaimNothing, WakeUp, queueVars
    <3>2. CASE ClaimTask(w)
      <4>1. state[Head(pending)] = "queued" /\ t = Head(pending) /\ state'[t] = "running"
        BY <2>1, <3>2 DEF ClaimTask, Claimable, TypeOK
      <4> QED
        BY <4>1 DEF Lifecycle!Legal
    <3>3. CASE ClaimNothingAndRecover(w)
      <4>1. t \notin overdue
        BY <2>1 DEF QueueInv, Leases
      <4> QED
        BY <2>1, <3>3, <4>1 DEF ClaimNothingAndRecover, TypeOK
    <3>4. ASSUME NEW outcome \in {"succeeded", "failed"}, Finish(w, outcome)
          PROVE  <<state[t], state'[t]>> \in Lifecycle!Legal
      <4>1. w \in Busy /\ t = wtask[w] /\ state'[t] = outcome
        BY <2>1, <3>4 DEF Finish, Busy, TypeOK
      <4>2. state[t] = "running"
        BY <2>1, <4>1 DEF QueueInv, Leases
      <4> QED
        BY <4>1, <4>2, <3>4 DEF Lifecycle!Legal
    <3> QED
      BY <2>4, <3>1, <3>2, <3>3, <3>4 DEF Loop
  <2>5. CASE \E n \in Requests : Resize(n)
    BY <2>5 DEF Resize, queueVars
  <2>6. CASE Stop
    BY <2>6 DEF Stop, queueVars
  <2>7. CASE UNCHANGED vars
    BY <2>7 DEF vars, queueVars
  <2> QED
    BY <2>2, <2>3, <2>4, <2>5, <2>6, <2>7 DEF Next
<1> QED
  BY <1>1, <1>2, TypeCorrect, QueueCorrect, PTL DEF Spec, ImplementsLifecycle, Lifecycle!Spec

=============================================================================
