--------------------------- MODULE MrTrack_proofs ---------------------------
(***************************************************************************)
(* What MrTrack promises for any number of heads, workers, producers,      *)
(* operations and crashes.                                                 *)
(***************************************************************************)
EXTENDS MrTrack, SequenceTheorems, TLAPS

-----------------------------------------------------------------------------
(* Types *)

Entries == [head : Heads, holder : Workers \cup {None}]

\* Dropping a finished task's entry leaves a queue.
LEMMA QueueWithoutType ==
  ASSUME queue \in Seq(Entries), NEW w
  PROVE  QueueWithout(w) \in Seq(Entries)
<1> DEFINE i == CHOOSE i \in DOMAIN queue : queue[i].holder = w
<1>1. CASE \E j \in DOMAIN queue : queue[j].holder = w
  <2>1. i \in 1..Len(queue)
    BY <1>1
  <2>a. i \in Int /\ Len(queue) \in Int /\ \A j \in 1..Len(queue) : queue[j] \in Entries
    BY <2>1
  <2>2. SubSeq(queue, 1, i - 1) \in Seq(Entries)
    <3>1. \A j \in 1..(i - 1) : queue[j] \in Entries
      BY <2>1, <2>a
    <3> QED
      BY <3>1, <2>a, SubSeqProperties
  <2>3. SubSeq(queue, i + 1, Len(queue)) \in Seq(Entries)
    <3>1. \A j \in (i + 1)..Len(queue) : queue[j] \in Entries
      BY <2>1, <2>a
    <3> QED
      BY <3>1, <2>a, SubSeqProperties
  <2>4. RemoveAt(queue, i) \in Seq(Entries)
    BY <2>2, <2>3 DEF RemoveAt
  <2> QED
    BY <1>1, <2>4 DEF QueueWithout
<1>2. CASE ~\E j \in DOMAIN queue : queue[j].holder = w
  BY <1>2 DEF QueueWithout
<1> QED
  BY <1>1, <1>2

\* Every worker between claim and return has a head.
Assigned == \A w \in Workers : wpc[w] # "idle" => whead[w] \in Heads

\* Every producer in the middle of an operation has a head.
ProducerBusy == \A p \in Producers : ppc[p] # "idle" => phead[p] \in Heads

TypeInv == TypeOK /\ Assigned /\ ProducerBusy

\* A row is inserted with the type of a row.
LEMMA InsertRowType ==
  ASSUME TypeOK, NEW h \in Heads, InsertRow(h)
  PROVE  row' \in [Heads -> [st : States, force : BOOLEAN]] /\ order' \in Seq(Heads)
<1>1. [st |-> "queued", force |-> FALSE] \in [st : States, force : BOOLEAN]
  BY DEF States
<1>2. row' = [row EXCEPT ![h] = [st |-> "queued", force |-> FALSE]]
  BY DEF InsertRow
<1>3. row' \in [Heads -> [st : States, force : BOOLEAN]]
  BY <1>1, <1>2 DEF TypeOK
<1>4. order' \in Seq(Heads)
  BY DEF InsertRow, TypeOK
<1> QED
  BY <1>3, <1>4

\* A worker's step keeps the types.
LEMMA WorkType ==
  ASSUME TypeInv, NEW w \in Workers, Work(w)
  PROVE  TypeInv'
<1> USE DEF TypeInv, TypeOK, Assigned, ProducerBusy, Goto, Holding, Entries
<1> USE DEF rowVars, workVars, prodVars, bootVars, boundVars
<1>r. ASSUME wpc[w] # "idle", Release(w)
      PROVE  /\ lock' \in [Heads -> Workers \cup {None}]
             /\ queue' \in Seq(Entries)
             /\ wpc' \in [Workers -> Holding \cup {"idle", "lock"}]
             /\ whead' \in [Workers -> Heads \cup {None}]
             /\ Assigned'
  <2>1. queue' \in Seq(Entries)
    BY <1>r, QueueWithoutType DEF Release, Done
  <2>2. lock' \in [Heads -> Workers \cup {None}]
    BY <1>r DEF Release
  <2>3. /\ wpc' \in [Workers -> Holding \cup {"idle", "lock"}]
        /\ whead' \in [Workers -> Heads \cup {None}]
        /\ Assigned'
    BY <1>r DEF Release, Done
  <2> QED
    BY <2>1, <2>2, <2>3
<1>1. CASE Claim(w)
  <2>1. Head(queue) \in Entries /\ Tail(queue) \in Seq(Entries)
    BY <1>1, HeadTailProperties DEF Claim
  <2>2. Head(queue).head \in Heads
    BY <2>1
  <2> QED
    BY <1>1, <2>1, <2>2 DEF Claim
<1>2. CASE PassOver(w)
  <2>1. Head(queue) \in Entries /\ Tail(queue) \in Seq(Entries)
    BY <1>2, HeadTailProperties DEF PassOver
  <2>2. unserved' \subseteq Heads
    BY <1>2, <2>1 DEF PassOver
  <2> QED
    BY <1>2, <2>1, <2>2 DEF PassOver
<1>3. CASE TakeLock(w)
  BY <1>3 DEF TakeLock
<1>4. CASE DecideAlready(w)
  BY <1>4, <1>r DEF DecideAlready
<1>5. CASE DecideReview(w)
  BY <1>5 DEF DecideReview
<1>6. CASE Select(w)
  <2>1. CASE Untouchable(whead[w])
    BY <1>6, <2>1, <1>r DEF Select
  <2>2. CASE ~Untouchable(whead[w])
    BY <1>6, <2>2 DEF Select
  <2> QED
    BY <2>1, <2>2
<1>7. CASE Insert(w)
  <2>1. CASE Exists(whead[w])
    BY <1>7, <2>1, <1>r DEF Insert
  <2>2. CASE ~Exists(whead[w])
    <3>1. whead[w] \in Heads
      BY <1>7 DEF Insert
    <3>2. InsertRow(whead[w]) /\ Goto(w, "mark") /\ UNCHANGED <<queue, lock, whead>>
      BY <1>7, <2>2 DEF Insert
    <3>3. row' \in [Heads -> [st : States, force : BOOLEAN]] /\ order' \in Seq(Heads)
      BY <3>1, <3>2, InsertRowType
    <3> QED
      BY <1>7, <3>2, <3>3 DEF Insert
  <2> QED
    BY <2>1, <2>2
<1>8. CASE MarkRunning(w)
  BY <1>8 DEF MarkRunning, SetState, States
<1>9. CASE GateForced(w) \/ GateOpen(w) \/ GateClosed(w)
  BY <1>9 DEF GateForced, GateOpen, GateClosed
<1>10. CASE ClearForce(w)
  BY <1>10 DEF ClearForce, SetForce
<1>11. CASE MarkSkipped(w)
  BY <1>11, <1>r DEF MarkSkipped, SetState, States
<1>12. CASE ReviewDone(w)
  BY <1>12 DEF ReviewDone, SetState, States
<1>13. CASE ReviewFailed(w)
  BY <1>13, <1>r DEF ReviewFailed, SetState, States
<1>14. CASE CommitStatus(w)
  BY <1>14, <1>r DEF CommitStatus
<1> QED
  BY <1>2, <1>1, <1>3, <1>4, <1>5, <1>6, <1>7, <1>8, <1>9, <1>10, <1>11, <1>12, <1>13, <1>14 DEF Work

\* Appending an entry leaves a queue.
LEMMA PushType ==
  ASSUME queue \in Seq(Entries), NEW h \in Heads, Push(h)
  PROVE  queue' \in Seq(Entries) /\ unserved' = unserved \ {h}
<1>1. [head |-> h, holder |-> None] \in Entries
  BY DEF Entries
<1> QED
  BY <1>1 DEF Push

\* A producer's step keeps the types.
LEMMA ProduceType ==
  ASSUME TypeInv, NEW p \in Producers, Produce(p)
  PROVE  TypeInv'
<1> USE DEF TypeInv, TypeOK, Assigned, ProducerBusy, Polling
<1> USE DEF rowVars, workVars, prodVars, bootVars, boundVars
<1> DEFINE h == phead[p]
<1>q. queue \in Seq(Entries)
  BY DEF Entries
<1>h. ppc[p] # "idle" => h \in Heads
  OBVIOUS
<1> DEFINE ProdType ==
       /\ ppc' \in [Producers -> {"idle", "scribbleSelect", "scribbleInsert", "hold",
                                  "stopWrite", "retryQueued", "retryForce",
                                  "retryEnqueue"} \cup Polling]
       /\ phead' \in [Producers -> Heads \cup {None}]
       /\ phold' \in [Producers -> BOOLEAN]
       /\ ProducerBusy'
<1>r. Return(p) => ProdType
  BY DEF Return
<1>s. ASSUME ppc[p] # "idle",
             NEW pc \in {"hold", "scribbleInsert", "retryForce", "retryEnqueue"} \cup Polling,
             Step(p, pc)
      PROVE  ProdType
  BY <1>s DEF Step
<1> HIDE DEF ProdType
<1>1. CASE ScribbleSelect(p)
  <2>1. ppc[p] # "idle" /\ ProdType
    <3>1. ppc[p] # "idle"
      BY <1>1 DEF ScribbleSelect
    <3>2. Step(p, "scribbleInsert") \/ Step(p, "hold") \/ Return(p)
      BY <1>1 DEF ScribbleSelect
    <3> QED
      BY <3>1, <3>2, <1>r, <1>s
  <2> QED
    BY <1>1, <2>1 DEF ScribbleSelect, ProdType
<1>2. CASE ScribbleInsert(p)
  <2>1. ppc[p] # "idle"
    BY <1>2 DEF ScribbleInsert
  <2>2. ProdType
    <3>1. Step(p, "hold") \/ Return(p)
      BY <1>2 DEF ScribbleInsert
    <3> QED
      BY <2>1, <3>1, <1>r, <1>s
  <2>3. row' \in [Heads -> [st : States, force : BOOLEAN]] /\ order' \in Seq(Heads)
    <3>1. UNCHANGED rowVars \/ InsertRow(h)
      BY <1>2 DEF ScribbleInsert
    <3> QED
      BY <3>1, <2>1, <1>h, InsertRowType
  <2> QED
    BY <1>2, <2>2, <2>3 DEF ScribbleInsert, ProdType
<1>3. CASE Hold(p)
  <2>1. row' \in [Heads -> [st : States, force : BOOLEAN]]
    <3>1. SetState(h, "skipped") \/ UNCHANGED row
      BY <1>3 DEF Hold
    <3>2. \A st \in States :
            [row EXCEPT ![h].st = st] \in [Heads -> [st : States, force : BOOLEAN]]
      OBVIOUS
    <3> QED
      BY <3>1, <3>2 DEF SetState, States
  <2> QED
    BY <1>3, <1>r, <2>1 DEF Hold, ProdType
<1>4. CASE PollSelect(p)
  <2>1. ppc[p] # "idle"
    BY <1>4 DEF PollSelect
  <2>2. Step(p, "pollInsert") \/ Step(p, "pollEnqueue") \/ Return(p)
    BY <1>4 DEF PollSelect
  <2>3. ProdType
    BY <2>1, <2>2, <1>r, <1>s
  <2> QED
    BY <1>4, <2>3 DEF PollSelect, ProdType
<1>5. CASE PollInsert(p)
  <2>1. ppc[p] # "idle"
    BY <1>5 DEF PollInsert
  <2>2. ProdType
    <3>1. Step(p, "pollEnqueue") \/ Return(p)
      BY <1>5 DEF PollInsert
    <3> QED
      BY <2>1, <3>1, <1>r, <1>s
  <2>3. row' \in [Heads -> [st : States, force : BOOLEAN]] /\ order' \in Seq(Heads)
    <3>1. UNCHANGED rowVars \/ InsertRow(h)
      BY <1>5 DEF PollInsert
    <3> QED
      BY <3>1, <2>1, <1>h, InsertRowType
  <2> QED
    BY <1>5, <2>2, <2>3 DEF PollInsert, ProdType
<1>6. CASE PollEnqueue(p)
  <2>1. ppc[p] # "idle"
    BY <1>6 DEF PollEnqueue
  <2>2. (Push(h) /\ Return(p)) \/ (Step(p, "hold") /\ UNCHANGED <<queue, unserved>>)
    BY <1>6 DEF PollEnqueue
  <2>3. ProdType /\ queue' \in Seq(Entries) /\ unserved' \subseteq Heads
    BY <2>1, <2>2, <1>h, <1>q, <1>r, <1>s, PushType
  <2> QED
    BY <1>6, <2>3 DEF PollEnqueue, ProdType, Entries
<1>7. CASE StopWrite(p)
  <2>1. row' \in [Heads -> [st : States, force : BOOLEAN]]
    BY <1>7 DEF StopWrite, SetState, States
  <2> QED
    BY <1>7, <1>r, <2>1 DEF StopWrite, ProdType
<1>8. CASE RetryQueued(p)
  <2>1. ppc[p] # "idle" /\ row' \in [Heads -> [st : States, force : BOOLEAN]]
    BY <1>8 DEF RetryQueued, SetState, States
  <2>2. ProdType
    BY <1>8, <2>1, <1>s DEF RetryQueued
  <2> QED
    BY <1>8, <2>1, <2>2 DEF RetryQueued, ProdType
<1>9. CASE RetryForce(p)
  <2>1. ppc[p] # "idle" /\ row' \in [Heads -> [st : States, force : BOOLEAN]]
    BY <1>9 DEF RetryForce, SetForce
  <2>2. ProdType
    BY <1>9, <2>1, <1>s DEF RetryForce
  <2> QED
    BY <1>9, <2>1, <2>2 DEF RetryForce, ProdType
<1>10. CASE RetryEnqueue(p)
  <2>1. ppc[p] # "idle"
    BY <1>10 DEF RetryEnqueue
  <2>2. queue' \in Seq(Entries) /\ unserved' \subseteq Heads
    BY <1>10, <2>1, <1>h, <1>q, PushType DEF RetryEnqueue
  <2> QED
    BY <1>10, <1>r, <2>2 DEF RetryEnqueue, ProdType, Entries
<1>11. CASE RetryRefused(p)
  BY <1>11, <1>r DEF RetryRefused, ProdType
<1> QED
  BY <1>1, <1>2, <1>3, <1>4, <1>5, <1>6, <1>7, <1>8, <1>9, <1>10, <1>11 DEF Produce

\* A request that starts an operation keeps the types.
LEMMA RequestType ==
  ASSUME TypeInv, NEW p \in Producers, NEW h \in Heads, Request(p, h)
  PROVE  TypeInv'
<1> USE DEF TypeInv, TypeOK, Assigned, ProducerBusy, Polling, Begin
<1> USE DEF rowVars, workVars, prodVars, bootVars, boundVars
<1>q. queue \in Seq(Entries)
  BY DEF Entries
<1>1. CASE Webhook(p, h)
  <2>1. queue' \in Seq(Entries) /\ unserved' \subseteq Heads
    BY <1>1, <1>q, PushType DEF Webhook
  <2> QED
    BY <1>1, <2>1 DEF Webhook, PoolUp, Entries
<1>2. CASE WebhookUnread(p, h)
  <2>1. queue' \in Seq(Entries) /\ unserved' \subseteq Heads
    BY <1>2, <1>q, PushType DEF WebhookUnread
  <2> QED
    BY <1>2, <2>1 DEF WebhookUnread, Entries
<1>3. CASE PollCheck(p, h)
  BY <1>3 DEF PollCheck
<1>4. CASE StopRead(p, h)
  BY <1>4 DEF StopRead
<1>5. CASE RetryRead(p, h)
  BY <1>5 DEF RetryRead
<1> QED
  BY <1>2, <1>1, <1>3, <1>4, <1>5 DEF Request

\* Start, replay, crash, a change of credentials and a stale recovery keep the
\* types.
LEMMA LifeType ==
  ASSUME TypeInv, Boot \/ RefreshAdapters \/ Crash \/ \E w \in Workers : RecoverStale(w)
  PROVE  TypeInv'
<1> USE DEF TypeInv, TypeOK, Assigned, ProducerBusy
<1> USE DEF rowVars, workVars, prodVars, bootVars, boundVars
<1>q. queue \in Seq(Entries)
  BY DEF Entries
<1>1. CASE StartPool
  BY <1>1 DEF StartPool
<1>2. CASE StartHeld
  <2>1. row' \in [Heads -> [st : States, force : BOOLEAN]]
    BY <1>2 DEF StartHeld, States
  <2> QED
    BY <1>2, <2>1 DEF StartHeld
<1>3. CASE ReplayRows
  <2>1. row' \in [Heads -> [st : States, force : BOOLEAN]] /\ replay' \subseteq Heads
    BY <1>3 DEF ReplayRows, States
  <2> QED
    BY <1>3, <2>1 DEF ReplayRows
<1>4. CASE ReplayNext
  <2>1. queue' \in Seq(Entries) /\ replay' \subseteq Heads /\ unserved' \subseteq Heads
    BY <1>4, <1>q, PushType DEF ReplayNext
  <2> QED
    BY <1>4, <2>1 DEF ReplayNext, Entries
<1>5. CASE ReplayEnd
  BY <1>5 DEF ReplayEnd
<1>6. CASE Crash
  <2>1. UNCHANGED <<row, order>> /\ queue' = <<>> /\ replay' = {}
    BY <1>6 DEF Crash
  <2>2. /\ lock' = [h \in Heads |-> None] /\ phase' = "down" /\ serving' = FALSE
        /\ adapter' \in BOOLEAN /\ unserved' = unserved
    BY <1>6, MrAssumption DEF Crash
  <2>3. /\ wpc' = [w \in Workers |-> "idle"] /\ whead' = [w \in Workers |-> None]
        /\ ppc' = [p \in Producers |-> "idle"] /\ phead' = [p \in Producers |-> None]
        /\ phold' = [p \in Producers |-> FALSE]
    BY <1>6 DEF Crash
  <2>4. /\ lock' \in [Heads -> Workers \cup {None}]
        /\ wpc' \in [Workers -> Holding \cup {"idle", "lock"}]
        /\ whead' \in [Workers -> Heads \cup {None}]
        /\ phead' \in [Producers -> Heads \cup {None}]
        /\ phold' \in [Producers -> BOOLEAN]
    BY <2>2, <2>3
  <2>5. ppc' \in [Producers -> {"idle", "scribbleSelect", "scribbleInsert", "hold",
                               "stopWrite", "retryQueued", "retryForce",
                               "retryEnqueue"} \cup Polling]
    BY <2>3
  <2>6. Assigned' /\ ProducerBusy'
    BY <2>3
  <2>7. queue' \in Seq(Entries)
    BY <2>1
  <2> QED
    BY <2>1, <2>2, <2>4, <2>5, <2>6, <2>7 DEF Entries
<1>7. ASSUME NEW w \in Workers, RecoverStale(w)
      PROVE  TypeInv'
  <2>1. [head |-> whead[w], holder |-> w] \in Entries
    BY <1>7 DEF RecoverStale, Entries
  <2>2. queue' \in Seq(Entries)
    BY <1>7, <1>q, <2>1 DEF RecoverStale
  <2> QED
    BY <1>7, <2>2 DEF RecoverStale, Entries
<1>8. CASE RefreshAdapters
  BY <1>8, MrAssumption DEF RefreshAdapters
<1> QED
  BY <1>1, <1>2, <1>3, <1>4, <1>5, <1>6, <1>7, <1>8 DEF Boot

\* The rows, the queue and the processes keep their types, whatever the
\* producers, the workers and the life cycle do.
THEOREM TypeCorrect == Spec => []TypeInv
<1>1. Init => TypeInv
  <2> SUFFICES ASSUME Init
               PROVE  TypeInv
    OBVIOUS
  <2>1. [st |-> "none", force |-> FALSE] \in [st : States, force : BOOLEAN]
    BY DEF States
  <2>2. row \in [Heads -> [st : States, force : BOOLEAN]]
    BY <2>1 DEF Init
  <2>3. /\ lock \in [Heads -> Workers \cup {None}]
        /\ wpc \in [Workers -> Holding \cup {"idle", "lock"}]
        /\ whead \in [Workers -> Heads \cup {None}]
        /\ phead \in [Producers -> Heads \cup {None}]
        /\ phold \in [Producers -> BOOLEAN]
    BY DEF Init
  <2>4. ppc \in [Producers -> {"idle", "scribbleSelect", "scribbleInsert", "hold",
                              "stopWrite", "retryQueued", "retryForce",
                              "retryEnqueue"} \cup Polling]
    BY DEF Init
  <2>5. Assigned /\ ProducerBusy
    BY DEF Init, Assigned, ProducerBusy
  <2>6. queue \in Seq(Entries) /\ order \in Seq(Heads) /\ adapter \in BOOLEAN
    BY MrAssumption DEF Init
  <2> QED
    BY <2>2, <2>3, <2>4, <2>5, <2>6 DEF Init, TypeInv, TypeOK, Entries
<1>2. TypeInv /\ [Next]_vars => TypeInv'
  <2> SUFFICES ASSUME TypeInv, [Next]_vars
               PROVE  TypeInv'
    OBVIOUS
  <2>1. CASE UNCHANGED vars
    BY <2>1 DEF vars, rowVars, workVars, prodVars, bootVars, boundVars,
                TypeInv, TypeOK, Assigned, ProducerBusy
  <2> QED
    BY <2>1, WorkType, ProduceType, RequestType, LifeType DEF Next
<1> QED
  BY <1>1, <1>2, PTL DEF Spec

\* Types alone, without what the inductive invariant adds to them.
THEOREM TypesCorrect == Spec => []TypeOK
<1>1. TypeInv => TypeOK
  BY DEF TypeInv
<1> QED
  BY <1>1, TypeCorrect, PTL

-----------------------------------------------------------------------------
(* The head lock *)

\* The table _head_locks names the worker that is inside the lock.
LockInv ==
  \A w \in Workers :
    wpc[w] \in Holding => whead[w] \in Heads /\ lock[whead[w]] = w

\* Giving the lock back disturbs nobody: a lock has one holder.
LEMMA ReleaseKeepsLock ==
  ASSUME TypeInv, LockInv, NEW w \in Workers, wpc[w] \in Holding, Release(w)
  PROVE  LockInv'
<1> SUFFICES ASSUME NEW v \in Workers, wpc'[v] \in Holding
             PROVE  whead'[v] \in Heads /\ lock'[whead'[v]] = v
  BY DEF LockInv
<1>1. /\ wpc' = [wpc EXCEPT ![w] = "idle"] /\ whead' = [whead EXCEPT ![w] = None]
      /\ lock' = [lock EXCEPT ![whead[w]] = None]
  BY DEF Release, Done
<1>2. v # w /\ wpc[v] \in Holding /\ whead'[v] = whead[v]
  BY <1>1 DEF TypeInv, TypeOK, Holding
<1>3. whead[v] # whead[w]
  BY <1>2 DEF LockInv
<1> QED
  BY <1>1, <1>2, <1>3 DEF LockInv, TypeInv, TypeOK

\* A step inside the lock leaves the lock alone.
LEMMA GotoKeepsLock ==
  ASSUME TypeInv, LockInv, NEW w \in Workers, wpc[w] \in Holding,
         NEW pc \in Holding, Goto(w, pc), UNCHANGED <<lock, whead>>
  PROVE  LockInv'
  BY DEF TypeInv, TypeOK, LockInv, Goto

\* Every step of a worker enters the lock when nobody is inside, stays inside
\* or leaves it.
LEMMA WorkKeepsLock ==
  ASSUME TypeInv, LockInv, NEW w \in Workers, Work(w)
  PROVE  LockInv'
<1>1. CASE Claim(w)
  <2>1. wpc[w] = "idle" /\ wpc' = [wpc EXCEPT ![w] = "lock"] /\ lock' = lock
    BY <1>1 DEF Claim, Goto
  <2>2. \A v \in Workers : v # w => whead'[v] = whead[v]
    BY <1>1 DEF Claim, TypeInv, TypeOK
  <2> QED
    BY <2>1, <2>2 DEF LockInv, TypeInv, TypeOK, Holding
<1>2. CASE PassOver(w)
  BY <1>2 DEF PassOver, workVars, LockInv
<1>3. CASE TakeLock(w)
  <2> SUFFICES ASSUME NEW v \in Workers, wpc'[v] \in Holding
               PROVE  whead'[v] \in Heads /\ lock'[whead'[v]] = v
    BY DEF LockInv
  <2>1. /\ wpc[w] = "lock" /\ lock[whead[w]] = None
        /\ lock' = [lock EXCEPT ![whead[w]] = w] /\ whead' = whead
        /\ wpc' = [wpc EXCEPT ![w] = "decide"]
    BY <1>3 DEF TakeLock, Goto
  <2>2. whead[w] \in Heads
    BY <2>1 DEF TypeInv, Assigned
  <2>3. CASE v = w
    BY <2>1, <2>2, <2>3 DEF TypeInv, TypeOK
  <2>4. CASE v # w
    <3>1. wpc[v] \in Holding
      BY <2>1, <2>4 DEF TypeInv, TypeOK
    <3>2. whead[v] \in Heads /\ lock[whead[v]] = v /\ v # None
      BY <3>1, MrAssumption DEF LockInv
    <3> QED
      BY <2>1, <3>2 DEF TypeInv, TypeOK
  <2> QED
    BY <2>3, <2>4
<1>4. CASE DecideAlready(w) \/ MarkSkipped(w) \/ ReviewFailed(w) \/ CommitStatus(w)
  BY <1>4, ReleaseKeepsLock DEF DecideAlready, MarkSkipped, ReviewFailed, CommitStatus, Holding
<1>5. CASE DecideReview(w) \/ MarkRunning(w) \/ GateForced(w) \/ ClearForce(w)
           \/ GateOpen(w) \/ GateClosed(w) \/ ReviewDone(w)
  BY <1>5, GotoKeepsLock DEF DecideReview, MarkRunning, GateForced, ClearForce,
                             GateOpen, GateClosed, ReviewDone, Holding
<1>6. CASE Select(w)
  <2>1. /\ wpc[w] \in Holding
        /\ \/ Release(w)
           \/ \E pc \in {"mark", "insert"} : Goto(w, pc) /\ UNCHANGED <<lock, whead>>
    BY <1>6 DEF Select, Holding
  <2> QED
    BY <2>1, ReleaseKeepsLock, GotoKeepsLock DEF Holding
<1>7. CASE Insert(w)
  <2>1. /\ wpc[w] \in Holding
        /\ Release(w) \/ (Goto(w, "mark") /\ UNCHANGED <<lock, whead>>)
    BY <1>7 DEF Insert, Holding
  <2> QED
    BY <2>1, ReleaseKeepsLock, GotoKeepsLock DEF Holding
<1> QED
  BY <1>2, <1>1, <1>3, <1>4, <1>5, <1>6, <1>7 DEF Work

\* Nobody but the workers touches the lock or the workers' state; a crash
\* leaves no worker inside.
LEMMA OthersKeepWork ==
  ASSUME [Next]_vars, ~ \E w \in Workers : Work(w), ~Crash
  PROVE  UNCHANGED workVars
<1>1. ASSUME NEW w \in Workers, RecoverStale(w)
      PROVE  UNCHANGED workVars
  BY <1>1 DEF RecoverStale
<1>2. ASSUME NEW p \in Producers, Produce(p)
      PROVE  UNCHANGED workVars
  BY <1>2 DEF Produce, ScribbleSelect, ScribbleInsert, Hold, PollSelect, PollInsert,
              PollEnqueue, StopWrite, RetryRefused, RetryQueued, RetryForce, RetryEnqueue
<1>3. ASSUME NEW p \in Producers, NEW h \in Heads, Request(p, h)
      PROVE  UNCHANGED workVars
  BY <1>3 DEF Request, Webhook, WebhookUnread, PollCheck, StopRead, RetryRead
<1>4. CASE Boot \/ RefreshAdapters
  BY <1>4 DEF Boot, StartPool, StartHeld, ReplayRows, ReplayNext, ReplayEnd, RefreshAdapters
<1>5. CASE UNCHANGED vars
  BY <1>5 DEF vars
<1> QED
  BY <1>1, <1>2, <1>3, <1>4, <1>5 DEF Next

\* A worker inside the lock of a head is recorded as its holder (head_lock).
THEOREM LockCorrect == Spec => []LockInv
<1>1. Init => LockInv
  BY DEF Init, LockInv, Holding
<1>2. TypeInv /\ LockInv /\ [Next]_vars => LockInv'
  <2> SUFFICES ASSUME TypeInv, LockInv, [Next]_vars
               PROVE  LockInv'
    OBVIOUS
  <2>1. CASE \E w \in Workers : Work(w)
    BY <2>1, WorkKeepsLock
  <2>2. CASE Crash
    BY <2>2 DEF Crash, LockInv, Holding
  <2>3. CASE ~Crash /\ ~ \E w \in Workers : Work(w)
    BY <2>3, OthersKeepWork DEF workVars, LockInv
  <2> QED
    BY <2>1, <2>2, <2>3
<1> QED
  BY <1>1, <1>2, TypeCorrect, PTL DEF Spec

\* However many events, polls, retries, stale recoveries and crashes there are,
\* a head is reviewed by one worker at a time.
THEOREM OneReviewerCorrect == Spec => []OneReviewerPerHead
<1>1. LockInv => OneReviewerPerHead
  BY DEF LockInv, OneReviewerPerHead, Reviewing, Holding
<1> QED
  BY <1>1, LockCorrect, PTL

-----------------------------------------------------------------------------
(* Running rows *)

InReview == {"gate", "clear", "skip", "review"}
Settled  == {"held", "replaying", "up"}

HasReviewer(h) == \E w \in Workers : whead[w] = h /\ wpc[w] \in InReview

\* A step that makes no row running and takes no worker out of its review.
LEMMA ReviewersStay ==
  ASSUME RunningHasReviewer,
         phase' \in Settled => phase \in Settled,
         \A h \in Heads : row'[h].st = "running" => row[h].st = "running",
         \A w \in Workers : wpc[w] \in InReview =>
           wpc'[w] \in InReview /\ whead'[w] = whead[w]
  PROVE  RunningHasReviewer'
  BY DEF RunningHasReviewer, Settled, InReview

\* A worker's step keeps a reviewer for every running row: it makes a row
\* running as it starts on it, and leaves a row only after a final state.
LEMMA WorkKeepsReviewers ==
  ASSUME TypeInv, RunningHasReviewer, NEW w \in Workers, Work(w)
  PROVE  RunningHasReviewer'
<1>t. /\ row \in [Heads -> [st : States, force : BOOLEAN]]
      /\ wpc \in [Workers -> Holding \cup {"idle", "lock"}]
      /\ whead \in [Workers -> Heads \cup {None}]
      /\ wpc[w] # "idle" => whead[w] \in Heads
  BY DEF TypeInv, TypeOK, Assigned
<1>p. phase' = phase
  BY DEF Work, Claim, PassOver, TakeLock, DecideAlready, DecideReview, Select, Insert, MarkRunning,
         GateForced, ClearForce, GateOpen, GateClosed, MarkSkipped, ReviewDone,
         ReviewFailed, CommitStatus, bootVars
<1>r. Release(w) => /\ wpc' = [wpc EXCEPT ![w] = "idle"]
                    /\ whead' = [whead EXCEPT ![w] = None]
  BY DEF Release, Done
<1>a. ASSUME wpc[w] \notin InReview,
             \A h \in Heads : row'[h].st = "running" => row[h].st = "running",
             \A v \in Workers : v # w => wpc'[v] = wpc[v] /\ whead'[v] = whead[v]
      PROVE  RunningHasReviewer'
  BY <1>a, <1>p, ReviewersStay
<1>b. ASSUME wpc[w] \in InReview, NEW st \in States, st # "running",
             SetState(whead[w], st),
             \A v \in Workers : v # w => wpc'[v] = wpc[v] /\ whead'[v] = whead[v]
      PROVE  RunningHasReviewer'
  <2> SUFFICES ASSUME phase \in Settled, NEW h \in Heads, row'[h].st = "running"
               PROVE  HasReviewer(h)'
    BY <1>p DEF RunningHasReviewer, HasReviewer, Settled, InReview
  <2>1. whead[w] \in Heads
    BY <1>b, <1>t DEF InReview
  <2>2. h # whead[w] /\ row[h].st = "running"
    BY <1>b, <1>t, <2>1 DEF SetState
  <2>3. PICK v \in Workers : whead[v] = h /\ wpc[v] \in InReview
    BY <2>2 DEF RunningHasReviewer, Settled, InReview
  <2> QED
    BY <1>b, <2>2, <2>3 DEF HasReviewer
<1>c. ASSUME NEW pc \in InReview, Goto(w, pc), whead' = whead,
             \A h \in Heads : row'[h].st = "running" => row[h].st = "running"
      PROVE  RunningHasReviewer'
  BY <1>c, <1>p, <1>t, ReviewersStay DEF Goto
<1>1. CASE Claim(w) \/ PassOver(w) \/ TakeLock(w) \/ DecideAlready(w) \/ DecideReview(w)
           \/ CommitStatus(w)
  <2>1. wpc[w] \notin InReview /\ row' = row
    BY <1>1 DEF Claim, PassOver, TakeLock, DecideAlready, DecideReview, CommitStatus, rowVars, InReview
  <2>2. \A v \in Workers : v # w => wpc'[v] = wpc[v] /\ whead'[v] = whead[v]
    BY <1>1, <1>r, <1>t DEF Claim, PassOver, TakeLock, DecideAlready, DecideReview, CommitStatus,
                            Goto, workVars
  <2> QED
    BY <1>a, <2>1, <2>2
<1>2. CASE Select(w)
  <2>1. wpc[w] \notin InReview /\ row' = row
    BY <1>2 DEF Select, rowVars, InReview
  <2>2. \A v \in Workers : v # w => wpc'[v] = wpc[v] /\ whead'[v] = whead[v]
    BY <1>2, <1>r, <1>t DEF Select, Goto
  <2> QED
    BY <1>a, <2>1, <2>2
<1>3. CASE Insert(w)
  <2>1. wpc[w] \notin InReview
    BY <1>3 DEF Insert, InReview
  <2>2. \A v \in Workers : v # w => wpc'[v] = wpc[v] /\ whead'[v] = whead[v]
    BY <1>3, <1>r, <1>t DEF Insert, Goto
  <2>3. InsertRow(whead[w]) \/ row' = row
    BY <1>3 DEF Insert, rowVars
  <2>4. \A h \in Heads : row'[h].st = "running" => row[h].st = "running"
    BY <2>3, <1>t DEF InsertRow
  <2> QED
    BY <1>a, <2>1, <2>2, <2>4
<1>4. CASE MarkRunning(w)
  <2> SUFFICES ASSUME phase \in Settled, NEW h \in Heads, row'[h].st = "running"
               PROVE  HasReviewer(h)'
    BY <1>p DEF RunningHasReviewer, HasReviewer, Settled, InReview
  <2>1. whead' = whead /\ wpc' = [wpc EXCEPT ![w] = "gate"]
    BY <1>4 DEF MarkRunning, Goto
  <2>2. CASE h = whead[w]
    BY <1>t, <2>1, <2>2 DEF HasReviewer, InReview
  <2>3. CASE h # whead[w]
    <3>1. row[h].st = "running"
      BY <1>4, <1>t, <2>3 DEF MarkRunning, SetState
    <3>2. PICK v \in Workers : whead[v] = h /\ wpc[v] \in InReview
      BY <3>1 DEF RunningHasReviewer, Settled, InReview
    <3> QED
      BY <1>t, <2>1, <3>2 DEF HasReviewer, InReview
  <2> QED
    BY <2>2, <2>3
<1>5. CASE GateForced(w) \/ GateOpen(w) \/ GateClosed(w)
  BY <1>5, <1>c DEF GateForced, GateOpen, GateClosed, rowVars, InReview
<1>6. CASE ClearForce(w)
  <2>1. \A h \in Heads : row'[h].st = row[h].st
    BY <1>6, <1>t DEF ClearForce, SetForce
  <2> QED
    BY <1>6, <1>c, <2>1 DEF ClearForce, InReview
<1>7. CASE MarkSkipped(w)
  BY <1>7, <1>b, <1>r, <1>t DEF MarkSkipped, InReview, States
<1>8. CASE ReviewFailed(w)
  BY <1>8, <1>b, <1>r, <1>t DEF ReviewFailed, InReview, States
<1>9. CASE ReviewDone(w)
  BY <1>9, <1>b, <1>t DEF ReviewDone, Goto, InReview, States
<1> QED
  BY <1>1, <1>2, <1>3, <1>4, <1>5, <1>6, <1>7, <1>8, <1>9 DEF Work

\* No producer makes a row running.
LEMMA ProducersKeepReviewers ==
  ASSUME TypeInv, RunningHasReviewer, NEW p \in Producers, NEW h \in Heads,
         Produce(p) \/ Request(p, h)
  PROVE  RunningHasReviewer'
<1>1. row \in [Heads -> [st : States, force : BOOLEAN]]
  BY DEF TypeInv, TypeOK
<1>2. UNCHANGED workVars /\ phase' = phase
  BY DEF Produce, ScribbleSelect, ScribbleInsert, Hold, PollSelect, PollInsert,
         PollEnqueue, StopWrite, RetryRefused, RetryQueued, RetryForce, RetryEnqueue,
         Request, Webhook, WebhookUnread, PollCheck, StopRead, RetryRead, bootVars
<1>3. \/ row' = row
      \/ InsertRow(phead[p])
      \/ \E st \in {"queued", "skipped"} : SetState(phead[p], st)
      \/ SetForce(phead[p], TRUE)
  BY DEF Produce, ScribbleSelect, ScribbleInsert, Hold, PollSelect, PollInsert,
         PollEnqueue, StopWrite, RetryRefused, RetryQueued, RetryForce, RetryEnqueue,
         Request, Webhook, WebhookUnread, PollCheck, StopRead, RetryRead, rowVars
<1>4. \A k \in Heads : row'[k].st = "running" => row[k].st = "running"
  BY <1>1, <1>3 DEF InsertRow, SetState, SetForce
<1> QED
  BY <1>2, <1>4, ReviewersStay DEF workVars

\* Replay and a held start leave no row running before anybody relies on it.
LEMMA LifeKeepsReviewers ==
  ASSUME TypeInv, RunningHasReviewer,
         Boot \/ RefreshAdapters \/ Crash \/ \E w \in Workers : RecoverStale(w)
  PROVE  RunningHasReviewer'
<1>1. CASE StartPool \/ Crash
  BY <1>1 DEF StartPool, Crash, RunningHasReviewer
<1>2. CASE StartHeld \/ ReplayRows
  <2>1. \A h \in Heads : row'[h].st # "running"
    BY <1>2 DEF StartHeld, ReplayRows, TypeInv, TypeOK
  <2> QED
    BY <2>1 DEF RunningHasReviewer
<1>3. CASE ReplayNext \/ ReplayEnd \/ RefreshAdapters \/ \E w \in Workers : RecoverStale(w)
  <2>1. UNCHANGED workVars /\ UNCHANGED row /\ (phase' \in Settled => phase \in Settled)
    BY <1>3 DEF ReplayNext, ReplayEnd, RefreshAdapters, RecoverStale, rowVars, bootVars, Settled
  <2> QED
    BY <2>1, ReviewersStay DEF workVars
<1> QED
  BY <1>1, <1>2, <1>3 DEF Boot

\* No row is left "running" for ever: once the replay has run, a running row
\* has a worker on it, over failures, stops, retries, restarts and crashes.
THEOREM RunningCorrect == Spec => []RunningHasReviewer
<1>1. Init => RunningHasReviewer
  BY DEF Init, RunningHasReviewer
<1>2. TypeInv /\ RunningHasReviewer /\ [Next]_vars => RunningHasReviewer'
  <2> SUFFICES ASSUME TypeInv, RunningHasReviewer, [Next]_vars
               PROVE  RunningHasReviewer'
    OBVIOUS
  <2>1. CASE \E w \in Workers : Work(w)
    BY <2>1, WorkKeepsReviewers
  <2>2. CASE \E p \in Producers, h \in Heads : Request(p, h)
    BY <2>2, ProducersKeepReviewers
  <2>3. CASE \E p \in Producers : Produce(p)
    <3>1. PICK p \in Producers : Produce(p)
      BY <2>3
    <3>2. ppc[p] # "idle"
      BY <3>1 DEF Produce, ScribbleSelect, ScribbleInsert, Hold, PollSelect, PollInsert,
                  PollEnqueue, StopWrite, RetryRefused, RetryQueued, RetryForce, RetryEnqueue
    <3>3. phead[p] \in Heads
      BY <3>2 DEF TypeInv, ProducerBusy
    <3> QED
      BY <3>1, <3>3, ProducersKeepReviewers
  <2>4. CASE Boot \/ RefreshAdapters \/ Crash \/ \E w \in Workers : RecoverStale(w)
    BY <2>4, LifeKeepsReviewers
  <2>5. CASE UNCHANGED vars
    BY <2>5 DEF vars, rowVars, workVars, bootVars, RunningHasReviewer
  <2> QED
    BY <2>1, <2>2, <2>3, <2>4, <2>5 DEF Next
<1> QED
  BY <1>1, <1>2, TypeCorrect, PTL DEF Spec

-----------------------------------------------------------------------------
(* Who writes the rows *)

\* Each operation of a producer is one of the roles that occur.
RoleInv ==
  \A p \in Producers :
    /\ ppc[p] \in {"scribbleSelect", "scribbleInsert"} => "webhook" \in Roles
    /\ ppc[p] = "stopWrite" => "stop" \in Roles
    /\ ppc[p] \in {"retryQueued", "retryForce", "retryEnqueue"} => "retry" \in Roles

\* Every step keeps the roles: who is in an operation that is not offered.
LEMMA RoleStep ==
  ASSUME TypeInv, RoleInv, [Next]_vars
  PROVE  RoleInv'
<1> USE DEF rowVars, workVars, prodVars, bootVars, boundVars
<1>t. ppc \in [Producers -> {"idle", "scribbleSelect", "scribbleInsert", "hold",
                            "stopWrite", "retryQueued", "retryForce",
                            "retryEnqueue"} \cup Polling]
  BY DEF TypeInv, TypeOK
<1>1. ASSUME NEW p \in Producers, NEW h \in Heads, Request(p, h)
      PROVE  RoleInv'
  BY <1>1, <1>t DEF Request, Webhook, WebhookUnread, PollCheck, StopRead, RetryRead, Begin, RoleInv
<1>2. ASSUME NEW p \in Producers, Produce(p)
      PROVE  RoleInv'
  <2>1. CASE ScribbleSelect(p) \/ ScribbleInsert(p)
    BY <2>1, <1>t DEF ScribbleSelect, ScribbleInsert, Step, Return, RoleInv
  <2>2. CASE PollSelect(p) \/ PollInsert(p) \/ PollEnqueue(p)
    BY <2>2, <1>t DEF PollSelect, PollInsert, PollEnqueue, Step, Return, RoleInv
  <2>3. CASE Hold(p) \/ StopWrite(p) \/ RetryRefused(p) \/ RetryEnqueue(p)
    BY <2>3, <1>t DEF Hold, StopWrite, RetryRefused, RetryEnqueue, Return, RoleInv
  <2>4. CASE RetryQueued(p) \/ RetryForce(p)
    BY <2>4, <1>t DEF RetryQueued, RetryForce, Step, RoleInv
  <2> QED
    BY <1>2, <2>1, <2>2, <2>3, <2>4 DEF Produce
<1>3. ASSUME NEW w \in Workers, Work(w) \/ RecoverStale(w)
      PROVE  RoleInv'
  BY <1>3 DEF Work, Claim, PassOver, TakeLock, DecideAlready, DecideReview, Select, Insert, MarkRunning,
              GateForced, ClearForce, GateOpen, GateClosed, MarkSkipped, ReviewDone,
              ReviewFailed, CommitStatus, RecoverStale, RoleInv
<1>4. CASE Boot \/ RefreshAdapters \/ UNCHANGED vars
  BY <1>4 DEF Boot, StartPool, StartHeld, ReplayRows, ReplayNext, ReplayEnd, RefreshAdapters, vars,
              RoleInv
<1>5. CASE Crash
  BY <1>5 DEF Crash, RoleInv
<1> QED
  BY <1>1, <1>2, <1>3, <1>4, <1>5 DEF Next

\* The steps that change a row.
LEMMA RowWriters ==
  ASSUME TypeInv, [Next]_vars
  PROVE  \/ row' = row /\ order' = order
         \/ \E h \in Heads : ~Exists(h) /\ InsertRow(h)
         \/ \E w \in Workers :
              /\ whead[w] \in Heads /\ order' = order
              /\ MarkRunning(w) \/ ClearForce(w) \/ MarkSkipped(w) \/ ReviewDone(w) \/ ReviewFailed(w)
         \/ \E p \in Producers :
              /\ phead[p] \in Heads /\ order' = order
              /\ Hold(p) \/ StopWrite(p) \/ RetryQueued(p) \/ RetryForce(p)
         \/ order' = order /\ (StartHeld \/ ReplayRows)
<1> USE DEF rowVars, workVars, prodVars, bootVars, boundVars
<1>1. ASSUME NEW w \in Workers, Work(w)
      PROVE  \/ row' = row /\ order' = order
             \/ ~Exists(whead[w]) /\ InsertRow(whead[w])
             \/ order' = order /\ (MarkRunning(w) \/ ClearForce(w) \/ MarkSkipped(w)
                                   \/ ReviewDone(w) \/ ReviewFailed(w))
  <2>1. CASE Claim(w) \/ PassOver(w) \/ TakeLock(w) \/ DecideAlready(w) \/ DecideReview(w)
             \/ Select(w) \/ GateForced(w) \/ GateOpen(w) \/ GateClosed(w) \/ CommitStatus(w)
    BY <2>1 DEF Claim, PassOver, TakeLock, DecideAlready, DecideReview, Select, GateForced, GateOpen,
                GateClosed, CommitStatus
  <2>2. CASE Insert(w)
    BY <2>2 DEF Insert
  <2>3. CASE MarkRunning(w) \/ ClearForce(w) \/ MarkSkipped(w) \/ ReviewDone(w) \/ ReviewFailed(w)
    BY <2>3 DEF MarkRunning, ClearForce, MarkSkipped, ReviewDone, ReviewFailed
  <2> QED
    BY <1>1, <2>1, <2>2, <2>3 DEF Work
<1>2. ASSUME NEW w \in Workers, Work(w), ~(row' = row /\ order' = order)
      PROVE  whead[w] \in Heads
  <2>1. wpc[w] # "idle"
    BY <1>2 DEF Work, Claim, PassOver, TakeLock, DecideAlready, DecideReview, Select, Insert, MarkRunning,
                GateForced, ClearForce, GateOpen, GateClosed, MarkSkipped, ReviewDone,
                ReviewFailed, CommitStatus
  <2> QED
    BY <2>1 DEF TypeInv, Assigned
<1>3. ASSUME NEW p \in Producers, Produce(p)
      PROVE  /\ phead[p] \in Heads
             /\ \/ row' = row /\ order' = order
                \/ ~Exists(phead[p]) /\ InsertRow(phead[p])
                \/ order' = order /\ (Hold(p) \/ StopWrite(p) \/ RetryQueued(p) \/ RetryForce(p))
  <2>1. ppc[p] # "idle"
    BY <1>3 DEF Produce, ScribbleSelect, ScribbleInsert, Hold, PollSelect, PollInsert,
                PollEnqueue, StopWrite, RetryRefused, RetryQueued, RetryForce, RetryEnqueue
  <2>2. phead[p] \in Heads
    BY <2>1 DEF TypeInv, ProducerBusy
  <2>3. \/ row' = row /\ order' = order
        \/ ~Exists(phead[p]) /\ InsertRow(phead[p])
        \/ order' = order /\ (Hold(p) \/ StopWrite(p) \/ RetryQueued(p) \/ RetryForce(p))
    BY <1>3 DEF Produce, ScribbleSelect, ScribbleInsert, Hold, PollSelect, PollInsert,
                PollEnqueue, StopWrite, RetryRefused, RetryQueued, RetryForce, RetryEnqueue
  <2> QED
    BY <2>2, <2>3
<1>4. ASSUME NEW p \in Producers, NEW h \in Heads, Request(p, h)
      PROVE  row' = row /\ order' = order
  BY <1>4 DEF Request, Webhook, WebhookUnread, PollCheck, StopRead, RetryRead
<1>5. ASSUME Boot \/ RefreshAdapters \/ Crash \/ UNCHANGED vars \/ \E w \in Workers : RecoverStale(w)
      PROVE  order' = order /\ (row' = row \/ StartHeld \/ ReplayRows)
  BY <1>5 DEF Boot, StartPool, StartHeld, ReplayRows, ReplayNext, ReplayEnd, RefreshAdapters, Crash,
              vars, RecoverStale
<1> QED
  BY <1>1, <1>2, <1>3, <1>4, <1>5 DEF Next

\* A step of others leaves a busy worker where it was.
LEMMA OthersLeave ==
  ASSUME TypeInv, [Next]_vars, NEW w \in Workers, ~Work(w), wpc'[w] # "idle"
  PROVE  wpc'[w] = wpc[w] /\ whead'[w] = whead[w]
<1>1. ASSUME NEW v \in Workers \ {w}, Work(v)
      PROVE  wpc'[w] = wpc[w] /\ whead'[w] = whead[w]
  <2>1. CASE PassOver(v)
    BY <2>1 DEF PassOver, workVars
  <2>2. CASE ~PassOver(v)
    BY <1>1, <2>2 DEF Work, Claim, TakeLock, DecideAlready, DecideReview, Select, Insert, MarkRunning,
                      GateForced, ClearForce, GateOpen, GateClosed, MarkSkipped, ReviewDone,
                      ReviewFailed, CommitStatus, Release, Done, Goto, TypeInv, TypeOK
  <2> QED
    BY <2>1, <2>2
<1>2. ~Crash
  BY DEF Crash
<1> QED
  BY <1>1, <1>2, OthersKeepWork DEF workVars

-----------------------------------------------------------------------------
(* The newest completed row *)

\* The rows are listed once each.
OrderInv ==
  /\ \A i \in DOMAIN order : Exists(order[i])
  /\ \A i, j \in DOMAIN order : order[i] = order[j] => i = j

\* Every step keeps the ids of the rows apart.
LEMMA OrderStep ==
  ASSUME TypeInv, OrderInv, [Next]_vars
  PROVE  OrderInv'
<1>t. /\ row \in [Heads -> [st : States, force : BOOLEAN]]
      /\ order \in Seq(Heads)
  BY DEF TypeInv, TypeOK
<1>1. CASE row' = row /\ order' = order
  BY <1>1 DEF OrderInv, Exists
<1>2. ASSUME NEW h \in Heads, ~Exists(h), InsertRow(h)
      PROVE  OrderInv'
  <2>1. /\ Len(order) \in Nat /\ DOMAIN order = 1..Len(order)
        /\ DOMAIN order' = 1..(Len(order) + 1) /\ order'[Len(order) + 1] = h
        /\ \A i \in 1..Len(order) : order'[i] = order[i]
    BY <1>2, <1>t DEF InsertRow
  <2>2. \A i \in 1..Len(order) : order[i] # h
    BY <1>2, <2>1 DEF OrderInv
  <2>3. \A i \in DOMAIN order' : row'[order'[i]].st # "none"
    BY <1>2, <1>t, <2>1 DEF OrderInv, Exists, InsertRow
  <2>4. \A i, j \in DOMAIN order' : order'[i] = order'[j] => i = j
    BY <2>1, <2>2 DEF OrderInv
  <2> QED
    BY <2>3, <2>4 DEF OrderInv, Exists
<1>3. ASSUME order' = order, \A h \in Heads : Exists(h) => Exists(h)'
      PROVE  OrderInv'
  <2>1. \A i \in DOMAIN order : order[i] \in Heads
    BY <1>t
  <2> QED
    BY <1>3, <2>1 DEF OrderInv
<1>4. ASSUME NEW w \in Workers, whead[w] \in Heads, order' = order,
             MarkRunning(w) \/ ClearForce(w) \/ MarkSkipped(w) \/ ReviewDone(w) \/ ReviewFailed(w)
      PROVE  \A h \in Heads : Exists(h) => Exists(h)'
  <2>1. \/ \E state \in {"running", "skipped", "completed", "failed"} : SetState(whead[w], state)
        \/ SetForce(whead[w], FALSE)
    BY <1>4 DEF MarkRunning, ClearForce, MarkSkipped, ReviewDone, ReviewFailed
  <2> QED
    BY <1>4, <1>t, <2>1 DEF SetState, SetForce, Exists
<1>5. ASSUME NEW p \in Producers, phead[p] \in Heads, order' = order,
             Hold(p) \/ StopWrite(p) \/ RetryQueued(p) \/ RetryForce(p)
      PROVE  \A h \in Heads : Exists(h) => Exists(h)'
  BY <1>5, <1>t DEF Hold, StopWrite, RetryQueued, RetryForce, SetState, SetForce, Exists
<1>6. ASSUME StartHeld \/ ReplayRows
      PROVE  \A h \in Heads : Exists(h) => Exists(h)'
  BY <1>6, <1>t DEF StartHeld, ReplayRows, Exists
<1> QED
  BY <1>1, <1>2, <1>3, <1>4, <1>5, <1>6, RowWriters

\* Only a review that ends well completes a row.
LEMMA WhoCompletes ==
  ASSUME TypeInv, [Next]_vars, NEW h \in Heads,
         row[h].st # "completed", row'[h].st = "completed"
  PROVE  \E w \in Workers : whead[w] = h /\ ReviewDone(w)
<1>t. row \in [Heads -> [st : States, force : BOOLEAN]]
  BY DEF TypeInv, TypeOK
<1>1. ASSUME NEW k \in Heads, InsertRow(k)
      PROVE  FALSE
  BY <1>1, <1>t DEF InsertRow
<1>2. ASSUME NEW w \in Workers, whead[w] \in Heads,
             MarkRunning(w) \/ ClearForce(w) \/ MarkSkipped(w) \/ ReviewFailed(w)
      PROVE  FALSE
  BY <1>2, <1>t DEF MarkRunning, ClearForce, MarkSkipped, ReviewFailed, SetState, SetForce
<1>3. ASSUME NEW w \in Workers, whead[w] \in Heads, ReviewDone(w)
      PROVE  whead[w] = h
  BY <1>3, <1>t DEF ReviewDone, SetState
<1>4. ASSUME NEW p \in Producers, phead[p] \in Heads,
             Hold(p) \/ StopWrite(p) \/ RetryQueued(p) \/ RetryForce(p)
      PROVE  FALSE
  BY <1>4, <1>t DEF Hold, StopWrite, RetryQueued, RetryForce, SetState, SetForce
<1>5. ~(StartHeld \/ ReplayRows)
  BY <1>t DEF StartHeld, ReplayRows
<1> QED
  BY <1>1, <1>2, <1>3, <1>4, <1>5, RowWriters

\* While a review is under way its row does not say completed.
NotDone == \A w \in Workers : wpc[w] \in InReview => row[whead[w]].st # "completed"

\* Every step keeps rows that are reviewed from being completed.
LEMMA NotDoneStep ==
  ASSUME TypeInv, LockInv, NotDone, [Next]_vars
  PROVE  NotDone'
<1> SUFFICES ASSUME NEW w \in Workers, wpc'[w] \in InReview, row'[whead'[w]].st = "completed"
             PROVE  FALSE
  BY DEF NotDone
<1>t. /\ row \in [Heads -> [st : States, force : BOOLEAN]]
      /\ wpc \in [Workers -> Holding \cup {"idle", "lock"}]
      /\ whead \in [Workers -> Heads \cup {None}]
      /\ wpc[w] # "idle" => whead[w] \in Heads
  BY DEF TypeInv, TypeOK, Assigned
<1>1. CASE Work(w)
  <2>1. CASE MarkRunning(w)
    BY <1>t, <2>1 DEF MarkRunning, SetState
  <2>2. CASE GateForced(w) \/ GateOpen(w) \/ GateClosed(w)
    BY <1>t, <2>2 DEF GateForced, GateOpen, GateClosed, rowVars, NotDone, InReview
  <2>3. CASE ClearForce(w)
    BY <1>t, <2>3 DEF ClearForce, SetForce, NotDone, InReview
  <2>4. CASE DecideAlready(w) \/ MarkSkipped(w) \/ ReviewFailed(w) \/ CommitStatus(w)
    BY <1>t, <2>4 DEF DecideAlready, MarkSkipped, ReviewFailed, CommitStatus, Release, Done, InReview
  <2>5. CASE Claim(w) \/ PassOver(w) \/ TakeLock(w) \/ DecideReview(w) \/ ReviewDone(w)
    BY <1>t, <2>5 DEF Claim, PassOver, workVars, TakeLock, DecideReview, ReviewDone, Goto, InReview
  <2>6. CASE Select(w) \/ Insert(w)
    BY <1>t, <2>6 DEF Select, Insert, Goto, Release, Done, InReview
  <2> QED
    BY <1>1, <2>1, <2>2, <2>3, <2>4, <2>5, <2>6 DEF Work
<1>2. CASE ~Work(w)
  <2>1. wpc[w] \in InReview /\ whead'[w] = whead[w] /\ whead[w] \in Heads
    BY <1>2, <1>t, OthersLeave DEF InReview
  <2>2. row[whead[w]].st # "completed"
    BY <2>1 DEF NotDone
  <2>3. PICK v \in Workers : whead[v] = whead[w] /\ ReviewDone(v)
    BY <2>1, <2>2, WhoCompletes
  <2>4. v = w
    BY <2>1, <2>3 DEF ReviewDone, LockInv, Holding, InReview
  <2> QED
    BY <1>2, <2>3, <2>4 DEF Work
<1> QED
  BY <1>1, <1>2

\* Without stops and retries only the start of another review takes a row out
\* of "completed".
LEMMA WhoReopens ==
  ASSUME TypeInv, RoleInv, NotDone, [Next]_vars, "stop" \notin Roles, "retry" \notin Roles,
         NEW h \in Heads, row[h].st = "completed", row'[h].st # "completed"
  PROVE  \E w \in Workers : whead[w] = h /\ MarkRunning(w)
<1>t. row \in [Heads -> [st : States, force : BOOLEAN]]
  BY DEF TypeInv, TypeOK
<1>1. ASSUME NEW k \in Heads, ~Exists(k), InsertRow(k)
      PROVE  FALSE
  BY <1>1, <1>t DEF InsertRow, Exists
<1>2. ASSUME NEW w \in Workers, whead[w] \in Heads,
             ClearForce(w) \/ MarkSkipped(w) \/ ReviewDone(w) \/ ReviewFailed(w)
      PROVE  FALSE
  BY <1>2, <1>t DEF ClearForce, MarkSkipped, ReviewDone, ReviewFailed, SetState, SetForce,
                    NotDone, InReview
<1>3. ASSUME NEW w \in Workers, whead[w] \in Heads, MarkRunning(w)
      PROVE  whead[w] = h
  BY <1>3, <1>t DEF MarkRunning, SetState
<1>4. ASSUME NEW p \in Producers, phead[p] \in Heads,
             Hold(p) \/ StopWrite(p) \/ RetryQueued(p) \/ RetryForce(p)
      PROVE  FALSE
  BY <1>4, <1>t DEF Hold, StopWrite, RetryQueued, RetryForce, SetState, RoleInv
<1>5. ~(StartHeld \/ ReplayRows)
  BY <1>t DEF StartHeld, ReplayRows
<1> QED
  BY <1>1, <1>2, <1>3, <1>4, <1>5, RowWriters

\* On the way to a review the head is not that of the newest completed row.
NotNewest ==
  \A w \in Workers : wpc[w] \in {"select", "insert", "mark"} => ~NewestCompleted(whead[w])

\* What is not the newest completed row does not become it by what others do:
\* the rows after it that are completed stay, but for one that is itself not
\* the newest.
LEMMA NewestLater ==
  ASSUME TypeInv, RoleInv, OrderInv, NotDone, NotNewest, [Next]_vars,
         "stop" \notin Roles, "retry" \notin Roles,
         NEW h \in Heads, ~NewestCompleted(h), NewestCompleted(h)'
  PROVE  row[h].st # "completed"
<1> SUFFICES ASSUME row[h].st = "completed"
             PROVE  FALSE
  OBVIOUS
<1>t. /\ row \in [Heads -> [st : States, force : BOOLEAN]]
      /\ order \in Seq(Heads)
  BY DEF TypeInv, TypeOK
<1>1. PICK i \in DOMAIN order' : /\ order'[i] = h
                                 /\ \A j \in DOMAIN order' : j > i => order'[j] \notin Completed'
  BY DEF NewestCompleted
<1>2. /\ DOMAIN order \subseteq DOMAIN order' /\ \A j \in DOMAIN order : order'[j] = order[j]
      /\ i \in DOMAIN order
  <2>1. CASE order' = order
    BY <2>1
  <2>2. ASSUME NEW k \in Heads, ~Exists(k), InsertRow(k)
        PROVE  /\ DOMAIN order \subseteq DOMAIN order' /\ \A j \in DOMAIN order : order'[j] = order[j]
               /\ i \in DOMAIN order
    <3>1. h # k
      BY <2>2 DEF Exists
    <3> QED
      BY <1>1, <1>t, <2>2, <3>1 DEF InsertRow
  <2> QED
    BY <2>1, <2>2, RowWriters
<1>3. PICK j \in DOMAIN order : j > i /\ order[j] \in Completed
  BY <1>1, <1>2 DEF NewestCompleted, Completed
<1>4. order[j] \in Heads /\ row[order[j]].st = "completed" /\ row'[order[j]].st # "completed"
  BY <1>1, <1>2, <1>3, <1>t DEF Completed
<1>5. PICK w \in Workers : whead[w] = order[j] /\ MarkRunning(w)
  BY <1>4, WhoReopens
<1>6. ~NewestCompleted(order[j])
  BY <1>5 DEF NotNewest, MarkRunning
<1>7. PICK m \in DOMAIN order : m > j /\ order[m] \in Completed
  BY <1>3, <1>6 DEF NewestCompleted
<1>8. i \in Nat /\ j \in Nat /\ m \in Nat
  BY <1>2, <1>t
<1>9. order[m] # order[j] /\ m > i
  BY <1>3, <1>7, <1>8 DEF OrderInv
<1>10. row'[order[m]].st = "completed"
  BY <1>5, <1>7, <1>9, <1>t DEF MarkRunning, SetState, Completed
<1>11. order[m] \in Completed'
  BY <1>7, <1>10 DEF Completed
<1> QED
  BY <1>1, <1>2, <1>7, <1>9, <1>11

\* Every step keeps a worker between decision and mark_state from the newest head.
LEMMA NotNewestStep ==
  ASSUME TypeInv, LockInv, RoleInv, OrderInv, NotDone, NotNewest, [Next]_vars,
         "stop" \notin Roles, "retry" \notin Roles
  PROVE  NotNewest'
<1> SUFFICES ASSUME NEW w \in Workers, wpc'[w] \in {"select", "insert", "mark"},
                    NEW h, h = whead'[w], NewestCompleted(h)'
             PROVE  FALSE
  BY DEF NotNewest, NewestCompleted, Completed
<1>t. /\ row \in [Heads -> [st : States, force : BOOLEAN]]
      /\ order \in Seq(Heads)
      /\ wpc \in [Workers -> Holding \cup {"idle", "lock"}]
      /\ whead \in [Workers -> Heads \cup {None}]
      /\ wpc[w] # "idle" => whead[w] \in Heads
  BY DEF TypeInv, TypeOK, Assigned
<1>1. CASE Work(w)
  <2>1. CASE DecideReview(w)
    <3>1. whead[w] = h /\ row' = row /\ order' = order /\ h \in Heads
      BY <1>t, <2>1 DEF DecideReview, rowVars
    <3>2. NewestCompleted(h)
      BY <3>1 DEF NewestCompleted, Completed
    <3>3. PICK i \in DOMAIN order : /\ order[i] = h /\ h \in Completed
                                    /\ \A j \in DOMAIN order : j > i => order[j] \notin Completed
      BY <3>2 DEF NewestCompleted
    <3>4. \A k \in DOMAIN order : order[k] = h => k = i
      BY <3>3 DEF OrderInv
    <3>5. \A j \in DOMAIN order : order[j] \in Completed => j <= i
      BY <1>t, <3>3
    <3>6. IsLastOk(h)
      BY <3>3, <3>4, <3>5 DEF IsLastOk
    <3> QED
      BY <2>1, <3>6 DEF DecideReview
  <2>2. CASE Select(w)
    <3>1. wpc[w] = "select" /\ whead[w] = h /\ row' = row /\ order' = order
      BY <1>t, <2>2 DEF Select, Release, Done, rowVars
    <3>2. NewestCompleted(h)
      BY <3>1 DEF NewestCompleted, Completed
    <3> QED
      BY <3>1, <3>2 DEF NotNewest
  <2>3. CASE Insert(w)
    <3>1. InsertRow(h) /\ h \in Heads
      BY <1>t, <2>3 DEF Insert, Release, Done
    <3>2. row'[h].st = "queued"
      BY <1>t, <3>1 DEF InsertRow
    <3> QED
      BY <3>1, <3>2 DEF NewestCompleted, Completed
  <2>4. CASE Claim(w) \/ PassOver(w) \/ TakeLock(w) \/ MarkRunning(w) \/ GateForced(w) \/ ClearForce(w)
             \/ GateOpen(w) \/ GateClosed(w) \/ ReviewDone(w)
    BY <1>t, <2>4 DEF Claim, PassOver, workVars, TakeLock, MarkRunning, GateForced, ClearForce, GateOpen, GateClosed,
                      ReviewDone, Goto
  <2>5. CASE DecideAlready(w) \/ MarkSkipped(w) \/ ReviewFailed(w) \/ CommitStatus(w)
    BY <1>t, <2>5 DEF DecideAlready, MarkSkipped, ReviewFailed, CommitStatus, Release, Done
  <2> QED
    BY <1>1, <2>1, <2>2, <2>3, <2>4, <2>5 DEF Work
<1>2. CASE ~Work(w)
  <2>1. wpc[w] \in {"select", "insert", "mark"} /\ whead[w] = h /\ h \in Heads
    BY <1>2, <1>t, OthersLeave
  <2>2. ~NewestCompleted(h) /\ NewestCompleted(h)'
    BY <2>1 DEF NotNewest
  <2>3. row[h].st # "completed" /\ row'[h].st = "completed"
    BY <2>1, <2>2, NewestLater DEF NewestCompleted, Completed
  <2>4. PICK v \in Workers : whead[v] = h /\ ReviewDone(v)
    BY <2>1, <2>3, WhoCompletes
  <2>5. v = w
    BY <2>1, <2>4 DEF ReviewDone, LockInv, Holding
  <2> QED
    BY <1>2, <2>4, <2>5 DEF Work
<1> QED
  BY <1>1, <1>2

\* Who completed a row last has the last word: without a manual execution or
\* stop, the newest of the completed rows is not reviewed again, however often
\* its head is named (last_ok_review decides under the lock of the head).
THEOREM LatestReviewStays ==
  ASSUME "stop" \notin Roles, "retry" \notin Roles
  PROVE  Spec => LatestReviewFinal
<1> DEFINE I == TypeInv /\ LockInv /\ RoleInv /\ OrderInv /\ NotDone /\ NotNewest
<1>1. Init => RoleInv /\ OrderInv /\ NotDone /\ NotNewest
  BY DEF Init, RoleInv, OrderInv, NotDone, NotNewest, InReview
<1>2. I /\ [Next]_vars => (RoleInv /\ OrderInv /\ NotDone /\ NotNewest)'
  BY RoleStep, OrderStep, NotDoneStep, NotNewestStep
<1>3. I /\ [Next]_vars => \A h \in Heads : NewestCompleted(h) => row'[h].st # "running"
  <2> SUFFICES ASSUME I, [Next]_vars, NEW h \in Heads, NewestCompleted(h), row'[h].st = "running"
               PROVE  FALSE
    OBVIOUS
  <2>1. row[h].st = "completed"
    BY DEF NewestCompleted, Completed
  <2>2. PICK w \in Workers : whead[w] = h /\ MarkRunning(w)
    BY <2>1, WhoReopens
  <2> QED
    BY <2>2 DEF NotNewest, MarkRunning
<1>4. Spec => [](TypeInv /\ LockInv)
  BY TypeCorrect, LockCorrect, PTL
<1> QED
  BY <1>1, <1>2, <1>3, <1>4, PTL DEF Spec, LatestReviewFinal

-----------------------------------------------------------------------------
(* Rows that are not started *)

\* Without a held start the producers run beside a pool, and hold nothing.
PoolServes ==
  /\ phase # "held"
  /\ serving => phase = "up"
  /\ phase = "down" => \A p \in Producers : ppc[p] = "idle"
  /\ \A p \in Producers : ppc[p] # "hold" /\ ~phold[p]

\* No step makes a producer hold a task back.
LEMMA PoolServesStep ==
  ASSUME TypeInv, PoolServes, [Next]_vars, LazyBoot = FALSE
  PROVE  PoolServes'
<1> USE DEF rowVars, workVars, prodVars, bootVars, boundVars
<1>t. /\ ppc \in [Producers -> {"idle", "scribbleSelect", "scribbleInsert", "hold",
                              "stopWrite", "retryQueued", "retryForce",
                              "retryEnqueue"} \cup Polling]
      /\ phold \in [Producers -> BOOLEAN]
      /\ phase \in {"down", "held", "starting", "replaying", "up"}
  BY DEF TypeInv, TypeOK
<1>1. ASSUME NEW p \in Producers, NEW h \in Heads, Request(p, h)
      PROVE  PoolServes'
  <2>1. CASE Webhook(p, h) \/ WebhookUnread(p, h)
    BY <1>t, <2>1 DEF Webhook, WebhookUnread, Begin, PoolUp, PoolServes
  <2>2. CASE PollCheck(p, h)
    BY <1>t, <2>2 DEF PollCheck, Begin, PoolUp, PoolServes
  <2>3. CASE StopRead(p, h) \/ RetryRead(p, h)
    BY <1>t, <2>3 DEF StopRead, RetryRead, Begin, PoolServes
  <2> QED
    BY <1>1, <2>1, <2>2, <2>3 DEF Request
<1>2. ASSUME NEW p \in Producers, Produce(p)
      PROVE  PoolServes'
  <2>1. CASE ScribbleSelect(p)
    BY <1>t, <2>1 DEF ScribbleSelect, Step, Return, PoolServes
  <2>2. CASE ScribbleInsert(p)
    BY <1>t, <2>2 DEF ScribbleInsert, Step, Return, PoolServes
  <2>3. CASE Hold(p) \/ StopWrite(p) \/ RetryRefused(p) \/ RetryEnqueue(p)
    BY <1>t, <2>3 DEF Hold, StopWrite, RetryRefused, RetryEnqueue, Return, PoolServes
  <2>4. CASE PollSelect(p) \/ PollInsert(p)
    BY <1>t, <2>4 DEF PollSelect, PollInsert, Step, Return, PoolServes
  <2>5. CASE PollEnqueue(p)
    BY <1>t, <2>5 DEF PollEnqueue, Return, PoolServes, PoolUp
  <2>6. CASE RetryQueued(p) \/ RetryForce(p)
    <3>1. /\ UNCHANGED <<phead, phold, bootVars>> /\ ppc[p] # "idle"
          /\ \E pc \in {"retryForce", "retryEnqueue"} : ppc' = [ppc EXCEPT ![p] = pc]
      BY <2>6 DEF RetryQueued, RetryForce, Step
    <3> QED
      BY <1>t, <3>1 DEF PoolServes
  <2> QED
    BY <1>2, <2>1, <2>2, <2>3, <2>4, <2>5, <2>6 DEF Produce
<1>3. ASSUME NEW w \in Workers, Work(w) \/ RecoverStale(w)
      PROVE  PoolServes'
  <2>1. UNCHANGED <<prodVars, bootVars>>
    BY <1>3 DEF Work, Claim, PassOver, TakeLock, DecideAlready, DecideReview, Select, Insert, MarkRunning,
                GateForced, ClearForce, GateOpen, GateClosed, MarkSkipped, ReviewDone,
                ReviewFailed, CommitStatus, RecoverStale
  <2> QED
    BY <2>1 DEF PoolServes
<1>4. CASE Boot \/ RefreshAdapters \/ UNCHANGED vars
  BY <1>4 DEF Boot, StartPool, StartHeld, ReplayRows, ReplayNext, ReplayEnd, RefreshAdapters, vars,
              PoolServes
<1>5. CASE Crash
  BY <1>5 DEF Crash, PoolServes
<1> QED
  BY <1>1, <1>2, <1>3, <1>4, <1>5 DEF Next

\* About to be marked running, a row is not one that is not to be started.
ClaimsStartable == \A w \in Workers : wpc[w] = "mark" => row[whead[w]].st # "skipped"

\* Every step keeps a worker that marks a row from one that was never started.
LEMMA ClaimsStartableStep ==
  ASSUME TypeInv, LockInv, RoleInv, PoolServes, ClaimsStartable, [Next]_vars, "stop" \notin Roles,
         LazyBoot = FALSE
  PROVE  ClaimsStartable'
<1> SUFFICES ASSUME NEW w \in Workers, wpc'[w] = "mark", row'[whead'[w]].st = "skipped"
             PROVE  FALSE
  BY DEF ClaimsStartable
<1>t. /\ row \in [Heads -> [st : States, force : BOOLEAN]]
      /\ wpc \in [Workers -> Holding \cup {"idle", "lock"}]
      /\ whead \in [Workers -> Heads \cup {None}]
      /\ wpc[w] # "idle" => whead[w] \in Heads
  BY DEF TypeInv, TypeOK, Assigned
<1>1. CASE Work(w)
  <2>1. CASE Select(w)
    BY <1>t, <2>1 DEF Select, Untouchable, Release, Done, rowVars
  <2>2. CASE Insert(w)
    BY <1>t, <2>2 DEF Insert, InsertRow, Release, Done
  <2>3. CASE Claim(w) \/ PassOver(w) \/ TakeLock(w) \/ DecideReview(w) \/ MarkRunning(w) \/ GateForced(w)
             \/ ClearForce(w) \/ GateOpen(w) \/ GateClosed(w) \/ ReviewDone(w)
    BY <1>t, <2>3 DEF Claim, PassOver, workVars, TakeLock, DecideReview, MarkRunning, GateForced, ClearForce, GateOpen,
                      GateClosed, ReviewDone, Goto
  <2>4. CASE DecideAlready(w) \/ MarkSkipped(w) \/ ReviewFailed(w) \/ CommitStatus(w)
    BY <1>t, <2>4 DEF DecideAlready, MarkSkipped, ReviewFailed, CommitStatus, Release, Done
  <2> QED
    BY <1>1, <2>1, <2>2, <2>3, <2>4 DEF Work
<1>2. CASE ~Work(w)
  <2>1. wpc[w] = "mark" /\ whead'[w] = whead[w] /\ whead[w] \in Heads
    BY <1>2, <1>t, OthersLeave
  <2>2. row[whead[w]].st # "skipped"
    BY <2>1 DEF ClaimsStartable
  <2>3. ~ \E k \in Heads : InsertRow(k)
    BY <1>t, <2>1, <2>2 DEF InsertRow
  <2>4. ASSUME NEW v \in Workers, whead[v] \in Heads,
               MarkRunning(v) \/ ClearForce(v) \/ MarkSkipped(v) \/ ReviewDone(v) \/ ReviewFailed(v)
        PROVE  FALSE
    <3>1. MarkSkipped(v) /\ whead[v] = whead[w]
      BY <1>t, <2>1, <2>2, <2>4 DEF MarkRunning, ClearForce, MarkSkipped, ReviewDone, ReviewFailed,
                                    SetState, SetForce
    <3> QED
      BY <2>1, <3>1 DEF MarkSkipped, LockInv, Holding
  <2>5. ASSUME NEW p \in Producers, phead[p] \in Heads,
               Hold(p) \/ StopWrite(p) \/ RetryQueued(p) \/ RetryForce(p)
        PROVE  FALSE
    BY <1>t, <2>1, <2>2, <2>5 DEF Hold, StopWrite, RetryQueued, RetryForce, SetState, SetForce,
                                  RoleInv, PoolServes
  <2>6. ~(StartHeld \/ ReplayRows)
    BY <1>t, <2>1, <2>2 DEF StartHeld, ReplayRows
  <2> QED
    BY <2>1, <2>2, <2>3, <2>4, <2>5, <2>6, RowWriters
<1> QED
  BY <1>1, <1>2

\* review_repo.py:291-293: without stops, and with a model configured before
\* the service starts, a row that is "not started" is not claimed by a left
\* over queue entry or a repeated event, also while others are executed by
\* hand.  (A stop or a hold may land between ensure_task and the mark.)
THEOREM NotStartedRowsStay ==
  ASSUME "stop" \notin Roles, LazyBoot = FALSE
  PROVE  Spec => NotStartedStays
<1> DEFINE I == TypeInv /\ LockInv /\ RoleInv /\ PoolServes /\ ClaimsStartable
<1>1. Init => RoleInv /\ PoolServes /\ ClaimsStartable
  BY DEF Init, RoleInv, PoolServes, ClaimsStartable
<1>2. I /\ [Next]_vars => (RoleInv /\ PoolServes /\ ClaimsStartable)'
  BY RoleStep, PoolServesStep, ClaimsStartableStep
<1>3. I /\ [Next]_vars => \A h \in Heads : row[h].st = "skipped" => row'[h].st # "running"
  <2> SUFFICES ASSUME I, [Next]_vars, NEW h \in Heads, row[h].st = "skipped", row'[h].st = "running"
               PROVE  FALSE
    OBVIOUS
  <2>t. row \in [Heads -> [st : States, force : BOOLEAN]]
    BY DEF TypeInv, TypeOK
  <2>1. ~ \E k \in Heads : InsertRow(k)
    BY <2>t DEF InsertRow
  <2>2. ASSUME NEW w \in Workers, whead[w] \in Heads,
               MarkRunning(w) \/ ClearForce(w) \/ MarkSkipped(w) \/ ReviewDone(w) \/ ReviewFailed(w)
        PROVE  FALSE
    <3>1. MarkRunning(w) /\ whead[w] = h
      BY <2>t, <2>2 DEF MarkRunning, ClearForce, MarkSkipped, ReviewDone, ReviewFailed, SetState,
                        SetForce
    <3> QED
      BY <3>1 DEF MarkRunning, ClaimsStartable
  <2>3. ASSUME NEW p \in Producers, phead[p] \in Heads,
               Hold(p) \/ StopWrite(p) \/ RetryQueued(p) \/ RetryForce(p)
        PROVE  FALSE
    BY <2>t, <2>3 DEF Hold, StopWrite, RetryQueued, RetryForce, SetState, SetForce
  <2>4. ~(StartHeld \/ ReplayRows)
    BY <2>t DEF StartHeld, ReplayRows
  <2> QED
    BY <2>1, <2>2, <2>3, <2>4, RowWriters
<1>4. Spec => [](TypeInv /\ LockInv)
  BY TypeCorrect, LockCorrect, PTL
<1> QED
  BY <1>1, <1>2, <1>3, <1>4, PTL DEF Spec, NotStartedStays

-----------------------------------------------------------------------------
(* Queued rows *)

\* An entry that the end of a task does not take off the queue.
Waits(h) == \E i \in DOMAIN queue : queue[i].head = h /\ queue[i].holder = None

Fetching   == {"lock", "decide", "select", "mark"}
Delivering == {"pollEnqueue", "hold", "stopWrite", "retryForce", "retryEnqueue"}

\* HasCarrier, without the entries that recover_stale made for a task that is
\* still being processed: they go when it ends.
Carried(h) == \/ Waits(h)
              \/ \E w \in Workers : whead[w] = h /\ wpc[w] \in Fetching
              \/ \E p \in Producers : phead[p] = h /\ ppc[p] \in Delivering
              \/ h \in replay

QueuedIsCarried ==
  phase \in Settled => \A h \in Heads : row[h].st = "queued" /\ h \notin unserved => Carried(h)

\* The end of a task drops its own entry, no other.
LEMMA QueueWithoutKeeps ==
  ASSUME queue \in Seq(Entries), NEW w \in Workers, NEW h, Waits(h), queue' = QueueWithout(w)
  PROVE  Waits(h)'
<1> DEFINE i == CHOOSE i \in DOMAIN queue : queue[i].holder = w
<1>1. CASE \E j \in DOMAIN queue : queue[j].holder = w
  <2>1. i \in 1..Len(queue) /\ queue[i].holder = w
    BY <1>1
  <2> HIDE DEF i
  <2>2. PICK k \in 1..Len(queue) : queue[k].head = h /\ queue[k].holder = None
    BY DEF Waits
  <2>3. k # i /\ i \in Nat /\ k \in Nat /\ Len(queue) \in Nat
    BY <2>1, <2>2, MrAssumption
  <2>4. queue' = SubSeq(queue, 1, i - 1) \o SubSeq(queue, i + 1, Len(queue))
    BY <1>1 DEF QueueWithout, RemoveAt, i
  <2>5. /\ SubSeq(queue, 1, i - 1) \in Seq(Entries) /\ Len(SubSeq(queue, 1, i - 1)) = i - 1
        /\ \A j \in 1..(i - 1) : SubSeq(queue, 1, i - 1)[j] = queue[j]
    BY <2>1, <2>3, SubSeqProperties
  <2>6. /\ SubSeq(queue, i + 1, Len(queue)) \in Seq(Entries)
        /\ Len(SubSeq(queue, i + 1, Len(queue))) = Len(queue) - i
        /\ \A j \in 1..(Len(queue) - i) : SubSeq(queue, i + 1, Len(queue))[j] = queue[i + j]
    BY <2>1, <2>3, SubSeqProperties
  <2> DEFINE before == SubSeq(queue, 1, i - 1)
             after == SubSeq(queue, i + 1, Len(queue))
  <2> HIDE DEF before, after
  <2>7. /\ Len(queue') = Len(queue) - 1
        /\ \A j \in 1..(i - 1) : queue'[j] = queue[j]
        /\ \A j \in i..(Len(queue) - 1) : queue'[j] = queue[j + 1]
    <3>1. /\ before \in Seq(Entries) /\ Len(before) = i - 1
          /\ \A j \in 1..(i - 1) : before[j] = queue[j]
          /\ after \in Seq(Entries) /\ Len(after) = Len(queue) - i
          /\ \A j \in 1..(Len(queue) - i) : after[j] = queue[i + j]
          /\ queue' = before \o after
      BY <2>4, <2>5, <2>6 DEF before, after
    <3>a. /\ Len(before \o after) = Len(before) + Len(after)
          /\ \A j \in 1..(Len(before) + Len(after)) :
               (before \o after)[j] = IF j <= Len(before) THEN before[j] ELSE after[j - Len(before)]
      BY <3>1, ConcatProperties
    <3>b. Len(before) + Len(after) = Len(queue) - 1
      BY <2>1, <2>3, <3>1
    <3>2. /\ Len(queue') = Len(queue) - 1
          /\ \A j \in 1..Len(queue') : queue'[j] = IF j <= i - 1 THEN before[j] ELSE after[j - (i - 1)]
      BY <3>1, <3>a, <3>b
    <3>3. \A j \in i..(Len(queue) - 1) : j - (i - 1) \in 1..(Len(queue) - i) /\ i + (j - (i - 1)) = j + 1
      BY <2>1, <2>3
    <3>4. ASSUME NEW j \in i..(Len(queue) - 1)
          PROVE  queue'[j] = queue[j + 1]
      <4>1. queue'[j] = after[j - (i - 1)]
        BY <2>1, <2>3, <3>2
      <4>2. after[j - (i - 1)] = queue[i + (j - (i - 1))]
        BY <3>1, <3>3
      <4> QED
        BY <3>3, <4>1, <4>2
    <3>5. \A j \in 1..(i - 1) : queue'[j] = queue[j]
      BY <2>1, <2>3, <3>1, <3>2
    <3> QED
      BY <3>2, <3>4, <3>5
  <2>8. queue' \in Seq(Entries)
    BY QueueWithoutType
  <2>9. CASE k < i
    BY <2>1, <2>2, <2>3, <2>7, <2>8, <2>9 DEF Waits
  <2>10. CASE k > i
    <3>1. k - 1 \in i..(Len(queue) - 1) /\ (k - 1) + 1 = k
      BY <2>1, <2>2, <2>3, <2>10
    <3>2. queue'[k - 1] = queue[k] /\ k - 1 \in DOMAIN queue'
      BY <2>1, <2>3, <2>7, <2>8, <3>1
    <3> QED
      BY <2>2, <3>2 DEF Waits
  <2> QED
    BY <2>3, <2>9, <2>10
<1>2. CASE ~\E j \in DOMAIN queue : queue[j].holder = w
  BY <1>2 DEF QueueWithout, Waits
<1> QED
  BY <1>1, <1>2

\* A step that leaves each carrier of h in place, or hands it on.
LEMMA CarrierStays ==
  ASSUME NEW h, Carried(h),
         Waits(h) => Carried(h)',
         \A w \in Workers : whead[w] = h /\ wpc[w] \in Fetching => Carried(h)',
         \A p \in Producers : phead[p] = h /\ ppc[p] \in Delivering => Carried(h)',
         h \in replay => Carried(h)'
  PROVE  Carried(h)'
  BY DEF Carried

\* Putting a task on the queue carries its head, and leaves the others.
LEMMA PushCarries ==
  ASSUME queue \in Seq(Entries), NEW h \in Heads, Push(h)
  PROVE  /\ Waits(h)' /\ \A k : Waits(k) => Waits(k)'
         /\ \A k \in unserved : k \notin unserved' => Waits(k)'
<1> DEFINE e == [head |-> h, holder |-> None]
<1>1. e \in Entries /\ e.head = h /\ e.holder = None
  BY DEF Entries
<1>2. /\ queue' \in Seq(Entries) /\ Len(queue) \in Nat
      /\ DOMAIN queue = 1..Len(queue) /\ DOMAIN queue' = 1..(Len(queue) + 1)
      /\ queue'[Len(queue) + 1] = e /\ \A i \in 1..Len(queue) : queue'[i] = queue[i]
  BY <1>1 DEF Push
<1> HIDE DEF e
<1>3. Len(queue) + 1 \in DOMAIN queue'
  BY <1>2
<1> QED
  BY <1>1, <1>2, <1>3 DEF Waits, Push

\* A step of a worker leaves every queued row a carrier.
LEMMA WorkCarries ==
  ASSUME TypeInv, QueuedIsCarried, NEW w \in Workers, Work(w)
  PROVE  QueuedIsCarried'
<1> USE DEF rowVars, workVars, prodVars, bootVars
<1>t. /\ row \in [Heads -> [st : States, force : BOOLEAN]]
      /\ queue \in Seq(Entries)
      /\ wpc \in [Workers -> Holding \cup {"idle", "lock"}]
      /\ whead \in [Workers -> Heads \cup {None}]
      /\ wpc[w] # "idle" => whead[w] \in Heads
  BY DEF TypeInv, TypeOK, Assigned, Entries
<1>p. UNCHANGED <<prodVars, bootVars>>
  BY DEF Work, Claim, PassOver, TakeLock, DecideAlready, DecideReview, Select, Insert, MarkRunning,
         GateForced, ClearForce, GateOpen, GateClosed, MarkSkipped, ReviewDone, ReviewFailed,
         CommitStatus
<1>o. \A v \in Workers : v # w => wpc'[v] = wpc[v] /\ whead'[v] = whead[v]
  BY <1>t DEF Work, Claim, PassOver, TakeLock, DecideAlready, DecideReview, Select, Insert, MarkRunning,
              GateForced, ClearForce, GateOpen, GateClosed, MarkSkipped, ReviewDone,
              ReviewFailed, CommitStatus, Release, Done, Goto
<1>c. ASSUME Claim(w), NEW h \in Heads, h \in unserved, h \notin unserved'
      PROVE  Carried(h)'
  <2>1. h = Head(queue).head /\ whead' = [whead EXCEPT ![w] = h] /\ wpc' = [wpc EXCEPT ![w] = "lock"]
    BY <1>c DEF Claim, Goto
  <2>2. whead'[w] = h /\ wpc'[w] = "lock"
    BY <1>t, <2>1
  <2> QED
    BY <2>2 DEF Carried, Fetching
<1>u. \A h \in unserved : h \in unserved' \/ Claim(w)
  BY DEF Work, Claim, PassOver, TakeLock, DecideAlready, DecideReview, Select, Insert, MarkRunning,
         GateForced, ClearForce, GateOpen, GateClosed, MarkSkipped, ReviewDone, ReviewFailed,
         CommitStatus
<1> SUFFICES ASSUME phase \in Settled, NEW h \in Heads, row'[h].st = "queued",
                    h \notin unserved, h \notin unserved'
             PROVE  Carried(h)'
  BY <1>c, <1>p, <1>u DEF QueuedIsCarried
<1>q. row[h].st = "queued" => Carried(h)
  BY DEF QueuedIsCarried
\* The carriers of h but for the queue and w.
<1>s. ASSUME Carried(h), Waits(h) => Waits(h)' \/ Carried(h)',
             whead[w] = h /\ wpc[w] \in Fetching => Carried(h)'
      PROVE  Carried(h)'
  <2>1. Waits(h) => Carried(h)'
    BY <1>s DEF Carried
  <2>2. ASSUME NEW v \in Workers, whead[v] = h, wpc[v] \in Fetching
        PROVE  Carried(h)'
    BY <1>o, <1>s, <2>2 DEF Carried
  <2>3. \A p \in Producers : phead[p] = h /\ ppc[p] \in Delivering => Carried(h)'
    BY <1>p DEF Carried
  <2>4. h \in replay => Carried(h)'
    BY <1>p DEF Carried
  <2> QED
    BY <1>s, <2>1, <2>2, <2>3, <2>4, CarrierStays
\* The end of a task whose row is not queued, or that no longer carries it.
<1>r. ASSUME Carried(h), Release(w), whead[w] = h => wpc[w] \notin Fetching
      PROVE  Carried(h)'
  <2>1. Waits(h) => Waits(h)'
    BY <1>t, <1>r, QueueWithoutKeeps DEF Release, Done
  <2> QED
    BY <1>r, <1>s, <2>1
<1>1. CASE Claim(w)
  <2>1. Carried(h)
    BY <1>1, <1>q DEF Claim
  <2>2. ASSUME NEW i \in DOMAIN queue, queue[i].head = h, queue[i].holder = None
        PROVE  Carried(h)'
    <3>1. queue # <<>> /\ queue' = Tail(queue) /\ wpc' = [wpc EXCEPT ![w] = "lock"]
          /\ whead' = [whead EXCEPT ![w] = Head(queue).head]
      BY <1>1 DEF Claim, Goto
    <3>2. CASE i = 1
      <4>1. whead'[w] = h /\ wpc'[w] = "lock"
        BY <1>t, <2>2, <3>1, <3>2
      <4> QED
        BY <4>1 DEF Carried, Fetching
    <3>3. CASE i # 1
      <4>1. i - 1 \in DOMAIN queue' /\ queue'[i - 1] = queue[i]
        BY <1>t, <3>1, <3>3
      <4> QED
        BY <2>2, <4>1 DEF Carried, Waits
    <3> QED
      BY <3>2, <3>3
  <2>3. wpc[w] = "idle"
    BY <1>1 DEF Claim
  <2> QED
    BY <1>s, <2>1, <2>2, <2>3 DEF Waits, Fetching
\* The head that is passed over is not h.
<1>2. CASE PassOver(w)
  <2>1. /\ queue # <<>> /\ queue' = Tail(queue) /\ Head(queue).head # h
        /\ row' = row /\ wpc[w] = "idle"
    BY <1>2 DEF PassOver
  <2>2. ASSUME NEW i \in DOMAIN queue, queue[i].head = h, queue[i].holder = None
        PROVE  Carried(h)'
    <3>1. i # 1
      BY <1>t, <2>1, <2>2
    <3>2. i - 1 \in DOMAIN queue' /\ queue'[i - 1] = queue[i]
      BY <1>t, <2>1, <3>1
    <3> QED
      BY <2>2, <3>2 DEF Carried, Waits
  <2> QED
    BY <1>q, <1>s, <2>1, <2>2 DEF Waits, Fetching
<1>3. CASE TakeLock(w) \/ DecideReview(w)
  <2>1. /\ row' = row /\ queue' = queue /\ whead' = whead
        /\ \E pc \in {"decide", "select"} : wpc' = [wpc EXCEPT ![w] = pc]
    BY <1>3 DEF TakeLock, DecideReview, Goto
  <2>2. wpc'[w] \in Fetching /\ whead'[w] = whead[w]
    BY <1>t, <2>1 DEF Fetching
  <2>3. Waits(h) => Waits(h)'
    BY <2>1 DEF Waits
  <2> QED
    BY <1>q, <1>s, <2>1, <2>2, <2>3 DEF Carried
<1>4. CASE DecideAlready(w)
  BY <1>4, <1>q, <1>r DEF DecideAlready, IsLastOk, Completed
<1>5. CASE Select(w)
  <2>1. row' = row /\ wpc[w] = "select"
    BY <1>5 DEF Select
  <2>2. CASE Untouchable(whead[w])
    BY <1>5, <1>q, <1>r, <2>1, <2>2 DEF Select, Untouchable
  <2>3. CASE ~Untouchable(whead[w])
    <3>1. queue' = queue /\ whead' = whead
          /\ wpc' = [wpc EXCEPT ![w] = IF Exists(whead[w]) THEN "mark" ELSE "insert"]
      BY <1>5, <2>3 DEF Select, Goto
    <3>2. Waits(h) => Waits(h)'
      BY <3>1 DEF Waits
    <3>3. whead[w] = h => wpc'[w] = "mark" /\ whead'[w] = h
      BY <1>t, <2>1, <3>1 DEF Exists
    <3> QED
      BY <1>q, <1>s, <2>1, <3>2, <3>3 DEF Carried, Fetching
  <2> QED
    BY <2>2, <2>3
<1>6. CASE Insert(w)
  <2>1. wpc[w] = "insert"
    BY <1>6 DEF Insert
  <2>2. CASE Exists(whead[w])
    <3>1. row' = row /\ Release(w)
      BY <1>6, <2>2 DEF Insert
    <3> QED
      BY <1>q, <1>r, <2>1, <3>1 DEF Fetching
  <2>3. CASE ~Exists(whead[w])
    <3>1. InsertRow(whead[w]) /\ wpc' = [wpc EXCEPT ![w] = "mark"] /\ queue' = queue /\ whead' = whead
      BY <1>6, <2>3 DEF Insert, Goto
    <3>2. CASE h = whead[w]
      BY <1>t, <3>1, <3>2 DEF Carried, Fetching
    <3>3. CASE h # whead[w]
      <4>1. row[h].st = "queued"
        BY <1>t, <3>1, <3>3 DEF InsertRow
      <4>2. Waits(h) => Waits(h)'
        BY <3>1 DEF Waits
      <4> QED
        BY <1>q, <1>s, <3>3, <4>1, <4>2
    <3> QED
      BY <3>2, <3>3
  <2> QED
    BY <2>2, <2>3
\* From here on the row is not queued, or w does not carry it any more.
<1>7. CASE MarkRunning(w)
  <2>1. h # whead[w] /\ row[h].st = "queued" /\ queue' = queue
    BY <1>7, <1>t DEF MarkRunning, SetState
  <2>2. Waits(h) => Waits(h)'
    BY <2>1 DEF Waits
  <2> QED
    BY <1>q, <1>s, <2>1, <2>2
<1>8. CASE GateForced(w) \/ ClearForce(w) \/ GateOpen(w) \/ GateClosed(w)
  <2>1. row[h].st = "queued"
    <3>1. CASE ClearForce(w)
      BY <1>t, <3>1 DEF ClearForce, SetForce
    <3>2. CASE row' = row
      BY <3>2
    <3> QED
      BY <1>8, <3>1, <3>2 DEF GateForced, GateOpen, GateClosed
  <2>2. queue' = queue /\ wpc[w] \notin Fetching
    BY <1>8 DEF GateForced, ClearForce, GateOpen, GateClosed, Fetching
  <2>3. Waits(h) => Waits(h)'
    BY <2>2 DEF Waits
  <2> QED
    BY <1>q, <1>s, <2>1, <2>2, <2>3
<1>9. CASE ReviewDone(w)
  <2>1. row[h].st = "queued" /\ queue' = queue /\ wpc[w] \notin Fetching
    BY <1>9, <1>t DEF ReviewDone, SetState, Fetching
  <2>2. Waits(h) => Waits(h)'
    BY <2>1 DEF Waits
  <2> QED
    BY <1>q, <1>s, <2>1, <2>2
<1>10. CASE MarkSkipped(w) \/ ReviewFailed(w) \/ CommitStatus(w)
  <2>1. row[h].st = "queued" /\ Release(w) /\ wpc[w] \notin Fetching
    BY <1>10, <1>t DEF MarkSkipped, ReviewFailed, CommitStatus, SetState, Fetching
  <2> QED
    BY <1>q, <1>r, <2>1
<1> QED
  BY <1>2, <1>1, <1>3, <1>4, <1>5, <1>6, <1>7, <1>8, <1>9, <1>10 DEF Work

\* A producer that makes a row queued goes on to enqueue it, or to take it
\* back; only the webhook's handler, which enqueues first, does not.
LEMMA ProducerCarries ==
  ASSUME TypeInv, RoleInv, QueuedIsCarried, "webhook" \notin Roles,
         NEW p \in Producers, Produce(p)
  PROVE  QueuedIsCarried'
<1> USE DEF rowVars, workVars, prodVars, bootVars
<1>t. /\ row \in [Heads -> [st : States, force : BOOLEAN]]
      /\ queue \in Seq(Entries)
      /\ ppc \in [Producers -> {"idle", "scribbleSelect", "scribbleInsert", "hold",
                              "stopWrite", "retryQueued", "retryForce",
                              "retryEnqueue"} \cup Polling]
      /\ phead \in [Producers -> Heads \cup {None}]
      /\ ppc[p] # "idle" => phead[p] \in Heads
  BY DEF TypeInv, TypeOK, ProducerBusy, Entries
<1>w. UNCHANGED <<workVars, bootVars>>
  BY DEF Produce, ScribbleSelect, ScribbleInsert, Hold, PollSelect, PollInsert, PollEnqueue,
         StopWrite, RetryRefused, RetryQueued, RetryForce, RetryEnqueue
<1>o. \A q \in Producers : q # p => ppc'[q] = ppc[q] /\ phead'[q] = phead[q]
  BY <1>t DEF Produce, ScribbleSelect, ScribbleInsert, Hold, PollSelect, PollInsert, PollEnqueue,
              StopWrite, RetryRefused, RetryQueued, RetryForce, RetryEnqueue, Step, Return
<1>u. ASSUME NEW h \in unserved, h \notin unserved'
      PROVE  Carried(h)'
  <2>1. phead[p] \in Heads /\ Push(phead[p])
    BY <1>t, <1>u DEF Produce, ScribbleSelect, ScribbleInsert, Hold, PollSelect, PollInsert,
                      PollEnqueue, StopWrite, RetryRefused, RetryQueued, RetryForce, RetryEnqueue
  <2> QED
    BY <1>t, <1>u, <2>1, PushCarries DEF Carried
<1> SUFFICES ASSUME phase \in Settled, NEW h \in Heads, row'[h].st = "queued", h \notin unserved
             PROVE  Carried(h)'
  BY <1>u, <1>w DEF QueuedIsCarried
<1>q. row[h].st = "queued" => Carried(h)
  BY DEF QueuedIsCarried
<1>s. ASSUME Carried(h), Waits(h) => Waits(h)',
             phead[p] = h /\ ppc[p] \in Delivering => Carried(h)'
      PROVE  Carried(h)'
  <2>1. Waits(h) => Carried(h)'
    BY <1>s DEF Carried
  <2>2. \A v \in Workers : whead[v] = h /\ wpc[v] \in Fetching => Carried(h)'
    BY <1>w DEF Carried
  <2>3. ASSUME NEW r \in Producers, phead[r] = h, ppc[r] \in Delivering
        PROVE  Carried(h)'
    BY <1>o, <1>s, <2>3 DEF Carried
  <2>4. h \in replay => Carried(h)'
    BY <1>w DEF Carried
  <2> QED
    BY <1>s, <2>1, <2>2, <2>3, <2>4, CarrierStays
<1>1. ~(ScribbleSelect(p) \/ ScribbleInsert(p))
  BY DEF ScribbleSelect, ScribbleInsert, RoleInv
<1>2. CASE Hold(p)
  <2>1. queue' = queue /\ row[h].st = "queued" /\ h # phead[p]
    BY <1>2, <1>t DEF Hold, SetState
  <2> QED
    BY <1>q, <1>s, <2>1 DEF Waits
<1>3. CASE PollSelect(p) \/ RetryRefused(p)
  <2>1. queue' = queue /\ row[h].st = "queued" /\ ppc[p] \notin Delivering
    BY <1>3 DEF PollSelect, RetryRefused, Delivering
  <2> QED
    BY <1>q, <1>s, <2>1 DEF Waits
<1>4. CASE PollInsert(p)
  <2>1. queue' = queue /\ ppc[p] \notin Delivering
    BY <1>4 DEF PollInsert, Delivering
  <2>2. CASE row[h].st = "queued"
    BY <1>q, <1>s, <2>1, <2>2 DEF Waits
  <2>3. CASE row[h].st # "queued"
    <3>1. InsertRow(phead[p]) /\ Step(p, "pollEnqueue")
      BY <1>4, <2>3 DEF PollInsert
    <3>2. h = phead[p] /\ ppc'[p] = "pollEnqueue" /\ phead'[p] = h
      BY <1>t, <2>3, <3>1 DEF InsertRow, Step
    <3> QED
      BY <3>2 DEF Carried, Delivering
  <2> QED
    BY <2>2, <2>3
<1>5. CASE PollEnqueue(p)
  <2>1. row[h].st = "queued" /\ phead[p] \in Heads
    BY <1>5, <1>t DEF PollEnqueue
  <2>2. CASE PoolUp
    <3>1. Push(phead[p])
      BY <1>5, <2>2 DEF PollEnqueue
    <3> QED
      BY <1>q, <1>s, <1>t, <2>1, <3>1, PushCarries DEF Carried
  <2>3. CASE ~PoolUp
    <3>1. queue' = queue /\ ppc'[p] = "hold" /\ phead'[p] = phead[p]
      BY <1>5, <1>t, <2>3 DEF PollEnqueue, Step
    <3>2. phead[p] = h => Carried(h)'
      BY <3>1 DEF Carried, Delivering
    <3> QED
      BY <1>q, <1>s, <2>1, <3>1, <3>2 DEF Waits
  <2> QED
    BY <2>2, <2>3
<1>6. CASE StopWrite(p)
  <2>1. queue' = queue /\ row[h].st = "queued" /\ h # phead[p]
    BY <1>6, <1>t DEF StopWrite, SetState
  <2> QED
    BY <1>q, <1>s, <2>1 DEF Waits
<1>7. CASE RetryQueued(p)
  <2>1. queue' = queue /\ ppc'[p] = "retryForce" /\ phead'[p] = phead[p]
    BY <1>7, <1>t DEF RetryQueued, Step
  <2>2. CASE h = phead[p]
    BY <2>1, <2>2 DEF Carried, Delivering
  <2>3. CASE h # phead[p]
    <3>1. row[h].st = "queued"
      BY <1>7, <1>t, <2>3 DEF RetryQueued, SetState
    <3> QED
      BY <1>q, <1>s, <2>1, <2>3, <3>1 DEF Waits
  <2> QED
    BY <2>2, <2>3
<1>8. CASE RetryForce(p)
  <2>1. queue' = queue /\ ppc'[p] = "retryEnqueue" /\ phead'[p] = phead[p]
    BY <1>8, <1>t DEF RetryForce, Step
  <2>2. row[h].st = "queued"
    BY <1>8, <1>t DEF RetryForce, SetForce
  <2>3. phead[p] = h => Carried(h)'
    BY <2>1 DEF Carried, Delivering
  <2> QED
    BY <1>q, <1>s, <2>1, <2>2, <2>3 DEF Waits
<1>9. CASE RetryEnqueue(p)
  <2>1. row[h].st = "queued" /\ phead[p] \in Heads /\ Push(phead[p])
    BY <1>9, <1>t DEF RetryEnqueue
  <2> QED
    BY <1>q, <1>s, <1>t, <2>1, PushCarries DEF Carried
<1> QED
  BY <1>1, <1>2, <1>3, <1>4, <1>5, <1>6, <1>7, <1>8, <1>9 DEF Produce

\* Requests, life cycle and the recovery of stale tasks.
LEMMA LifeCarries ==
  ASSUME TypeInv, QueuedIsCarried, "webhook" \notin Roles,
         \/ Boot \/ RefreshAdapters \/ Crash \/ \E w \in Workers : RecoverStale(w)
         \/ \E p \in Producers, h \in Heads : Request(p, h)
         \/ UNCHANGED vars
  PROVE  QueuedIsCarried'
<1> USE DEF rowVars, workVars, prodVars, bootVars, boundVars
<1>t. /\ row \in [Heads -> [st : States, force : BOOLEAN]]
      /\ queue \in Seq(Entries)
      /\ ppc \in [Producers -> {"idle", "scribbleSelect", "scribbleInsert", "hold",
                              "stopWrite", "retryQueued", "retryForce",
                              "retryEnqueue"} \cup Polling]
      /\ phead \in [Producers -> Heads \cup {None}]
  BY DEF TypeInv, TypeOK, Entries
<1>1. ASSUME NEW p \in Producers, NEW k \in Heads, Request(p, k)
      PROVE  QueuedIsCarried'
  <2>1. /\ row' = row /\ UNCHANGED <<workVars, bootVars, queue, unserved>> /\ ppc[p] = "idle"
        /\ \A q \in Producers : q # p => ppc'[q] = ppc[q] /\ phead'[q] = phead[q]
    BY <1>1, <1>t DEF Request, Webhook, WebhookUnread, PollCheck, StopRead, RetryRead, Begin
  <2>2. \A h : Carried(h) => Carried(h)'
    BY <2>1 DEF Carried, Waits, Delivering
  <2> QED
    BY <2>1, <2>2 DEF QueuedIsCarried
<1>2. ASSUME NEW w \in Workers, RecoverStale(w)
      PROVE  QueuedIsCarried'
  <2>1. UNCHANGED <<row, workVars, prodVars, bootVars, unserved>>
    BY <1>2 DEF RecoverStale
  <2>2. \A h : Waits(h) => Waits(h)'
    <3>1. [head |-> whead[w], holder |-> w] \in Entries
      BY <1>2 DEF RecoverStale, Entries, TypeInv, Assigned
    <3> QED
      BY <1>2, <1>t, <3>1 DEF RecoverStale, Waits
  <2>3. \A h : Carried(h) => Carried(h)'
    BY <2>1, <2>2 DEF Carried
  <2> QED
    BY <2>1, <2>3 DEF QueuedIsCarried
<1>3. CASE StartPool \/ Crash
  BY <1>3 DEF StartPool, Crash, QueuedIsCarried, Settled
<1>4. CASE StartHeld
  <2>1. \A h \in Heads : row'[h].st # "queued"
    BY <1>4, <1>t DEF StartHeld
  <2> QED
    BY <2>1 DEF QueuedIsCarried
<1>5. CASE ReplayRows
  <2>1. \A h \in Heads : row'[h].st = "queued" => h \in replay'
    BY <1>5, <1>t DEF ReplayRows
  <2> QED
    BY <2>1 DEF QueuedIsCarried, Carried
<1>6. CASE ReplayNext
  <2>1. PICK k \in replay : Push(k) /\ replay' = replay \ {k}
    BY <1>6 DEF ReplayNext
  <2>2. k \in Heads
    BY <2>1 DEF TypeInv, TypeOK
  <2>3. UNCHANGED <<row, workVars, prodVars, phase>>
    BY <1>6 DEF ReplayNext
  <2>4. /\ Waits(k)' /\ \A h : Waits(h) => Waits(h)'
        /\ \A h \in unserved : h \notin unserved' => Waits(h)'
    BY <1>t, <2>1, <2>2, PushCarries
  <2>5. \A h : Carried(h) => Carried(h)'
    BY <2>1, <2>3, <2>4 DEF Carried
  <2> QED
    BY <2>3, <2>4, <2>5 DEF QueuedIsCarried, Carried, Settled
<1>7. CASE ReplayEnd \/ RefreshAdapters \/ UNCHANGED vars
  <2>1. /\ UNCHANGED <<row, queue, workVars, prodVars, replay, unserved>>
        /\ phase' \in Settled => phase \in Settled
    BY <1>7 DEF ReplayEnd, RefreshAdapters, vars, Settled
  <2> QED
    BY <2>1 DEF QueuedIsCarried, Carried, Waits
<1> QED
  BY <1>1, <1>2, <1>3, <1>4, <1>5, <1>6, <1>7 DEF Boot

\* The queue lives in memory, the rows in the database: a queued row is not
\* orphaned by polls, stops, retries, failures, stale recoveries, restarts and
\* crashes, and by changes of credentials only where a worker claimed its task
\* and found no adapter (worker.py:1126-1128).  The webhook is left out because
\* it enqueues before it makes the row, and there the property fails.
THEOREM QueuedRowsCarried ==
  ASSUME "webhook" \notin Roles
  PROVE  Spec => []QueuedHasCarrier
<1> DEFINE I == TypeInv /\ RoleInv /\ QueuedIsCarried
<1>1. Init => RoleInv /\ QueuedIsCarried
  BY DEF Init, RoleInv, QueuedIsCarried
<1>2. I /\ [Next]_vars => (RoleInv /\ QueuedIsCarried)'
  <2> SUFFICES ASSUME I, [Next]_vars
               PROVE  (RoleInv /\ QueuedIsCarried)'
    OBVIOUS
  <2>1. QueuedIsCarried'
    BY WorkCarries, ProducerCarries, LifeCarries DEF Next
  <2> QED
    BY <2>1, RoleStep
<1>3. I => QueuedHasCarrier
  <2> SUFFICES ASSUME I, phase \in Settled, NEW h \in Heads, row[h].st = "queued",
                      h \notin unserved
               PROVE  HasCarrier(h)
    BY DEF QueuedHasCarrier, Settled
  <2>1. Carried(h)
    BY DEF QueuedIsCarried
  <2>2. Waits(h) => \E e \in Range(queue) : e.head = h
    BY DEF Waits, Range
  <2> QED
    BY <2>1, <2>2 DEF Carried, HasCarrier, Fetching, Delivering
<1>4. Spec => []TypeInv
  BY TypeCorrect
<1> QED
  BY <1>1, <1>2, <1>3, <1>4, PTL DEF Spec
=============================================================================
