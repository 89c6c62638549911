-------------------------- MODULE PushTrack_proofs --------------------------
(***************************************************************************)
(* What PushTrack promises for any number of workers, requests, deliveries *)
(* and crashes; and, for one worker and no crash, that a summary is posted *)
(* once for the push and once more for each manual execution.              *)
(***************************************************************************)
EXTENDS PushTrack, FiniteSetTheorems, TLAPS

-----------------------------------------------------------------------------
(* Types *)

TypeInv ==
  /\ st \in {"none", "queued", "running", "skipped", "completed", "failed"}
  /\ force \in BOOLEAN
  /\ queued \in Nat
  /\ wpc \in [Workers -> {"idle", "look", "select", "insert", "mark", "clear", "gate",
                          "review", "record"}]
  /\ forced \in [Workers -> BOOLEAN]
  /\ apc \in [Admins -> {"idle", "stop", "retryQueued", "retryForce", "retryEnqueue"}]
  /\ boot \in {"down", "starting", "up"} /\ adapter \in BOOLEAN /\ unserved \in BOOLEAN
  /\ posted \in Nat
  /\ asked \in BOOLEAN /\ deletion \in BOOLEAN
  /\ events \in Nat /\ manual \in Nat /\ crashes \in Nat

\* Every step keeps the types.
LEMMA TypeStep ==
  ASSUME TypeInv, [Next]_vars
  PROVE  TypeInv'
<1> USE DEF rowVars, workVars, eventVars, bootVars, histVars, Enqueue, Goto
<1>1. ASSUME NEW w \in Workers, Claim(w) \/ PassOver(w) \/ Look(w) \/ Select(w) \/ Insert(w)
      PROVE  TypeInv'
  <2>1. CASE Claim(w) \/ PassOver(w)
    <3>1. unserved' \in BOOLEAN /\ adapter' \in BOOLEAN /\ asked' \in BOOLEAN /\ deletion' \in BOOLEAN
      BY <2>1 DEF Claim, PassOver, TypeInv
    <3>2. force' \in BOOLEAN /\ forced' \in [Workers -> BOOLEAN]
      BY <2>1 DEF Claim, PassOver, TypeInv
    <3>3. CASE Claim(w)
      BY <3>1, <3>2, <3>3 DEF Claim, TypeInv
    <3>4. CASE PassOver(w)
      BY <3>1, <3>2, <3>4 DEF PassOver, TypeInv
    <3> QED
      BY <2>1, <3>3, <3>4
  <2>2. CASE Look(w)
    BY <2>2 DEF Look, TypeInv
  <2>3. CASE Select(w)
    BY <2>3 DEF Select, TypeInv
  <2>4. CASE Insert(w)
    BY <2>4 DEF Insert, TypeInv
  <2> QED
    BY <1>1, <2>1, <2>2, <2>3, <2>4
<1>2. ASSUME NEW w \in Workers, MarkRunning(w) \/ ClearForce(w) \/ GateOpen(w) \/ GateClosed(w)
      PROVE  TypeInv'
  <2>1. CASE MarkRunning(w)
    BY <2>1 DEF MarkRunning, TypeInv
  <2>2. CASE ClearForce(w)
    BY <2>2 DEF ClearForce, TypeInv
  <2>3. CASE GateOpen(w)
    BY <2>3 DEF GateOpen, TypeInv
  <2>4. CASE GateClosed(w)
    BY <2>4 DEF GateClosed, TypeInv
  <2> QED
    BY <1>2, <2>1, <2>2, <2>3, <2>4
<1>3. ASSUME NEW w \in Workers, NothingToReview(w) \/ PostSummary(w) \/ Record(w) \/ Fail(w)
      PROVE  TypeInv'
  <2>1. CASE NothingToReview(w)
    BY <2>1 DEF NothingToReview, TypeInv
  <2>2. CASE PostSummary(w)
    BY <2>2 DEF PostSummary, TypeInv
  <2>3. CASE Record(w)
    BY <2>3 DEF Record, TypeInv
  <2>4. CASE Fail(w)
    BY <2>4 DEF Fail, TypeInv
  <2> QED
    BY <1>3, <2>1, <2>2, <2>3, <2>4
<1>4. ASSUME NEW a \in Admins, StopRead(a) \/ RetryRead(a)
      PROVE  TypeInv'
  BY <1>4 DEF StopRead, RetryRead, Accept, TypeInv
<1>5. ASSUME NEW a \in Admins, Administer(a)
      PROVE  TypeInv'
  <2>1. CASE StopWrite(a)
    BY <2>1 DEF StopWrite, TypeInv
  <2>2. CASE RetryQueued(a)
    BY <2>2 DEF RetryQueued, TypeInv
  <2>3. CASE RetryForce(a)
    BY <2>3 DEF RetryForce, TypeInv
  <2>4. CASE RetryEnqueue(a)
    <3>1. unserved' \in BOOLEAN /\ adapter' \in BOOLEAN /\ asked' \in BOOLEAN /\ deletion' \in BOOLEAN
      BY <2>4 DEF RetryEnqueue, TypeInv
    <3>2. force' \in BOOLEAN /\ forced' \in [Workers -> BOOLEAN]
      BY <2>4 DEF RetryEnqueue, TypeInv
    <3> QED
      BY <2>4, <3>1, <3>2 DEF RetryEnqueue, TypeInv
  <2> QED
    BY <1>5, <2>1, <2>2, <2>3, <2>4 DEF Administer
<1>6. CASE Webhook \/ RefreshAdapters \/ StartPool \/ Replay \/ Crash
  <2>1. CASE Webhook \/ RefreshAdapters
    <3>1. unserved' \in BOOLEAN /\ adapter' \in BOOLEAN /\ asked' \in BOOLEAN /\ deletion' \in BOOLEAN
      BY <2>1, PushAssumption DEF Webhook, RefreshAdapters, TypeInv
    <3>2. force' \in BOOLEAN /\ forced' \in [Workers -> BOOLEAN]
      BY <2>1 DEF Webhook, RefreshAdapters, TypeInv
    <3> QED
      BY <2>1, <3>1, <3>2 DEF Webhook, RefreshAdapters, TypeInv
  <2>2. CASE StartPool
    BY <2>2 DEF StartPool, TypeInv
  <2>3. CASE Replay
    <3>1. unserved' \in BOOLEAN /\ adapter' \in BOOLEAN /\ asked' \in BOOLEAN /\ deletion' \in BOOLEAN
      BY <2>3 DEF Replay, TypeInv
    <3>2. force' \in BOOLEAN /\ forced' \in [Workers -> BOOLEAN]
      BY <2>3 DEF Replay, TypeInv
    <3> QED
      BY <2>3, <3>1, <3>2 DEF Replay, TypeInv
  <2>4. CASE Crash
    BY <2>4, PushAssumption DEF Crash, TypeInv
  <2> QED
    BY <1>6, <2>1, <2>2, <2>3, <2>4
<1>7. CASE UNCHANGED vars
  BY <1>7 DEF vars, TypeInv
<1> QED
  BY <1>1, <1>2, <1>3, <1>4, <1>5, <1>6, <1>7 DEF Next, Work

\* The types hold at the start.
LEMMA TypeInit ==
  ASSUME Init
  PROVE  TypeInv
<1>1. /\ forced \in [Workers -> BOOLEAN] /\ force \in BOOLEAN /\ asked \in BOOLEAN
      /\ deletion \in BOOLEAN /\ adapter \in BOOLEAN /\ unserved \in BOOLEAN
  BY PushAssumption DEF Init
<1> QED
  BY <1>1 DEF Init, TypeInv

\* The row, the workers and the requests keep their types.
THEOREM TypesCorrect == Spec => []TypeInv
  BY TypeInit, TypeStep, PTL DEF Spec

-----------------------------------------------------------------------------
(* A running row has a worker on it *)

\* Every step keeps a reviewer for each running row.
LEMMA RunningStep ==
  ASSUME TypeInv, RunningHasReviewer, [Next]_vars
  PROVE  RunningHasReviewer'
<1> USE DEF rowVars, workVars, eventVars, bootVars, histVars, Enqueue, Goto, Reviewing
<1> SUFFICES ASSUME boot' = "up", st' = "running"
             PROVE  \E w \in Workers : wpc'[w] \in Reviewing
  BY DEF RunningHasReviewer
<1>1. ASSUME NEW w \in Workers, Claim(w) \/ PassOver(w) \/ Look(w) \/ Select(w)
      PROVE  \E v \in Workers : wpc'[v] \in Reviewing
  <2>1. PICK v \in Workers : wpc[v] \in Reviewing
    BY <1>1 DEF Claim, PassOver, Look, Select, RunningHasReviewer
  <2> QED
    BY <1>1, <2>1 DEF Claim, PassOver, Look, Select, TypeInv
<1>2. ASSUME NEW w \in Workers, Insert(w)
      PROVE  \E v \in Workers : wpc'[v] \in Reviewing
  <2>1. PICK v \in Workers : wpc[v] \in Reviewing
    BY <1>2 DEF Insert, RunningHasReviewer
  <2> QED
    BY <1>2, <2>1 DEF Insert, TypeInv
<1>3. ASSUME NEW w \in Workers, MarkRunning(w)
      PROVE  \E v \in Workers : wpc'[v] \in Reviewing
  BY <1>3 DEF MarkRunning, TypeInv
<1>4. ASSUME NEW w \in Workers, ClearForce(w) \/ GateOpen(w) \/ PostSummary(w)
      PROVE  \E v \in Workers : wpc'[v] \in Reviewing
  BY <1>4 DEF ClearForce, GateOpen, PostSummary, TypeInv
<1>5. ASSUME NEW w \in Workers, GateClosed(w) \/ NothingToReview(w) \/ Record(w) \/ Fail(w)
      PROVE  FALSE
  BY <1>5 DEF GateClosed, NothingToReview, Record, Fail
<1>6. ASSUME NEW a \in Admins, StopRead(a) \/ RetryRead(a) \/ Administer(a)
      PROVE  \E v \in Workers : wpc'[v] \in Reviewing
  BY <1>6 DEF StopRead, RetryRead, Accept, Administer, StopWrite, RetryQueued, RetryForce,
              RetryEnqueue, RunningHasReviewer
<1>7. CASE Webhook \/ RefreshAdapters \/ StartPool \/ Replay \/ Crash
  BY <1>7 DEF Webhook, RefreshAdapters, StartPool, Replay, Crash, RunningHasReviewer
<1>8. CASE UNCHANGED vars
  BY <1>8 DEF vars, RunningHasReviewer
<1> QED
  BY <1>1, <1>2, <1>3, <1>4, <1>5, <1>6, <1>7, <1>8 DEF Next, Work

\* Once the replay has run, a row that says "running" has a worker on it: each
\* way out of a review writes another state first, and the replay takes over
\* what a crash left behind.
THEOREM RunningRowsReviewed == Spec => []RunningHasReviewer
<1>1. Init => TypeInv /\ RunningHasReviewer
  BY TypeInit DEF Init, RunningHasReviewer
<1>2. TypeInv /\ RunningHasReviewer /\ [Next]_vars => (TypeInv /\ RunningHasReviewer)'
  BY TypeStep, RunningStep
<1> QED
  BY <1>1, <1>2, PTL DEF Spec
-----------------------------------------------------------------------------
(* One summary for the push, one for each manual execution *)

One(b) == IF b THEN 1 ELSE 0

\* The retries that were accepted and have not marked the row yet.
Asking == {a \in Admins : apc[a] \in {"retryQueued", "retryForce"}}

\* The worker may post a summary on its own account, not on the row's mark.
OnItsWay(w) == wpc[w] \in {"gate", "review"} \/ (wpc[w] = "mark" /\ ~forced[w])

\* The summaries that may still be posted: for the first delivery, for a mark
\* force_rerun, for each retry under way, and by the worker at its review.
Due == One(st = "none") + One(force) + Cardinality(Asking) + One(\E w \in Workers : OnItsWay(w))

\* What the worker read with push_existing_audit still holds: nobody else
\* makes the row or takes the mark away.
LookHolds ==
  \A w \in Workers :
    /\ wpc[w] \in {"select", "insert", "mark", "clear"} /\ forced[w] => force /\ st # "none"
    /\ wpc[w] \in {"select", "insert"} /\ ~forced[w] => st = "none"
    /\ wpc[w] = "clear" => forced[w]

AskedOfARow == \A a \in Admins : apc[a] \in {"stop", "retryQueued"} => st # "none"

SummaryInv ==
  /\ LookHolds /\ AskedOfARow
  /\ IsFiniteSet(Asking)
  /\ posted + Due <= 1 + manual

\* What a worker's step does to the summaries due: it takes no retry up.
LEMMA DueOfWorker ==
  ASSUME \A v, u \in Workers : v = u, NEW w \in Workers, apc' = apc
  PROVE  /\ Due = One(st = "none") + One(force) + Cardinality(Asking) + One(OnItsWay(w))
         /\ Due' = One(st' = "none") + One(force') + Cardinality(Asking) + One(OnItsWay(w)')
<1>1. (\E v \in Workers : OnItsWay(v)) <=> OnItsWay(w)
  OBVIOUS
<1>2. (\E v \in Workers : OnItsWay(v))' <=> OnItsWay(w)'
  OBVIOUS
<1>3. Asking' = Asking
  BY DEF Asking
<1> QED
  BY <1>1, <1>2, <1>3 DEF Due, One

\* A step of a worker keeps the account of the summaries.
LEMMA WorkerStep ==
  ASSUME TypeInv, SummaryInv, \A v, u \in Workers : v = u, NEW w \in Workers, Work(w)
  PROVE  SummaryInv'
<1> USE DEF rowVars, workVars, eventVars, bootVars, histVars, Enqueue, Goto
<1> DEFINE n == Cardinality(Asking)
<1>1. n \in Nat /\ posted \in Nat /\ manual \in Nat
  BY FS_CardinalityType DEF SummaryInv, TypeInv
<1>2. apc' = apc /\ manual' = manual
  BY DEF Work, Claim, PassOver, Look, Select, Insert, MarkRunning, ClearForce, GateOpen, GateClosed,
         NothingToReview, PostSummary, Record, Fail
<1>3. Asking' = Asking /\ IsFiniteSet(Asking)'
  BY <1>2 DEF Asking, SummaryInv
<1>4. /\ Due = One(st = "none") + One(force) + n + One(OnItsWay(w))
      /\ Due' = One(st' = "none") + One(force') + n + One(OnItsWay(w)')
  BY <1>2, DueOfWorker
<1>5. /\ wpc[w] \in {"select", "insert", "mark", "clear"} /\ forced[w] => force /\ st # "none"
      /\ wpc[w] \in {"select", "insert"} /\ ~forced[w] => st = "none"
      /\ wpc[w] = "clear" => forced[w]
  BY DEF SummaryInv, LookHolds
<1>6. posted + One(st = "none") + One(force) + n + One(OnItsWay(w)) <= 1 + manual
  BY <1>1, <1>4 DEF SummaryInv, One
<1>7. SUFFICES /\ wpc'[w] \in {"select", "insert", "mark", "clear"} /\ forced'[w] => force' /\ st' # "none"
               /\ wpc'[w] \in {"select", "insert"} /\ ~forced'[w] => st' = "none"
               /\ wpc'[w] = "clear" => forced'[w]
               /\ st # "none" => st' # "none"
               /\ posted' + One(st' = "none") + One(force') + n + One(OnItsWay(w)') <= 1 + manual
  <2>1. LookHolds'
    BY <1>7 DEF LookHolds
  <2>2. AskedOfARow'
    BY <1>2, <1>7 DEF AskedOfARow, SummaryInv
  <2>3. posted' = posted \/ posted' = posted + 1
    BY DEF Work, Claim, PassOver, Look, Select, Insert, MarkRunning, ClearForce, GateOpen, GateClosed,
           NothingToReview, PostSummary, Record, Fail
  <2>4. posted' \in Nat
    BY <1>1, <2>3
  <2>5. posted' + Due' <= 1 + manual'
    BY <1>1, <1>2, <1>4, <1>7, <2>4 DEF One
  <2> QED
    BY <1>3, <2>1, <2>2, <2>5 DEF SummaryInv
<1> HIDE DEF n
<1>8. CASE Claim(w) \/ PassOver(w)
  BY <1>1, <1>5, <1>6, <1>8 DEF Claim, PassOver, OnItsWay, One, TypeInv
<1>9. CASE Look(w)
  BY <1>1, <1>5, <1>6, <1>9 DEF Look, OnItsWay, One, TypeInv
<1>10. CASE Select(w)
  BY <1>1, <1>5, <1>6, <1>10 DEF Select, OnItsWay, One, TypeInv
<1>11. CASE Insert(w)
  BY <1>1, <1>5, <1>6, <1>11 DEF Insert, OnItsWay, One, TypeInv
<1>12. CASE MarkRunning(w)
  BY <1>1, <1>5, <1>6, <1>12 DEF MarkRunning, OnItsWay, One, TypeInv
<1>13. CASE ClearForce(w)
  BY <1>1, <1>5, <1>6, <1>13 DEF ClearForce, OnItsWay, One, TypeInv
<1>14. CASE GateOpen(w)
  BY <1>1, <1>5, <1>6, <1>14 DEF GateOpen, OnItsWay, One, TypeInv
<1>15. CASE GateClosed(w)
  BY <1>1, <1>5, <1>6, <1>15 DEF GateClosed, OnItsWay, One, TypeInv
<1>16. CASE NothingToReview(w)
  BY <1>1, <1>5, <1>6, <1>16 DEF NothingToReview, OnItsWay, One, TypeInv
<1>17. CASE PostSummary(w)
  BY <1>1, <1>5, <1>6, <1>17 DEF PostSummary, OnItsWay, One, TypeInv
<1>18. CASE Record(w)
  BY <1>1, <1>5, <1>6, <1>18 DEF Record, OnItsWay, One, TypeInv
<1>19. CASE Fail(w)
  BY <1>1, <1>5, <1>6, <1>19 DEF Fail, OnItsWay, One, TypeInv
<1> QED
  BY <1>8, <1>9, <1>10, <1>11, <1>12, <1>13, <1>14, <1>15, <1>16, <1>17, <1>18, <1>19 DEF Work

\* The steps of the administrators: a retry is due from the moment it is
\* accepted, for which it counts among the manual executions.
LEMMA AdminStep ==
  ASSUME TypeInv, SummaryInv, NEW a \in Admins, StopRead(a) \/ RetryRead(a) \/ Administer(a)
  PROVE  SummaryInv'
<1> USE DEF rowVars, workVars, eventVars, bootVars, histVars, Enqueue
<1> DEFINE n == Cardinality(Asking)
           own == \E w \in Workers : OnItsWay(w)
<1>1. n \in Nat /\ posted \in Nat /\ manual \in Nat
  BY FS_CardinalityType DEF SummaryInv, TypeInv
<1>2. UNCHANGED workVars /\ posted' = posted
  BY DEF StopRead, RetryRead, Accept, Administer, StopWrite, RetryQueued, RetryForce, RetryEnqueue
<1>3. own' <=> own
  BY <1>2 DEF OnItsWay
<1>4. posted + (One(st = "none") + One(force) + n + One(own)) <= 1 + manual
  BY DEF SummaryInv, Due
<1>5. /\ st # "none" => st' # "none"
      /\ force => force'
      /\ st = "none" => st' = "none"
      /\ AskedOfARow'
  <2>1. CASE StopRead(a) \/ RetryRead(a)
    BY <2>1 DEF StopRead, RetryRead, Accept, SummaryInv, AskedOfARow, TypeInv
  <2>2. CASE StopWrite(a) \/ RetryQueued(a)
    BY <2>2 DEF StopWrite, RetryQueued, SummaryInv, AskedOfARow, TypeInv
  <2>3. CASE RetryForce(a) \/ RetryEnqueue(a)
    BY <2>3 DEF RetryForce, RetryEnqueue, SummaryInv, AskedOfARow, TypeInv
  <2> QED
    BY <2>1, <2>2, <2>3 DEF Administer
<1>6. LookHolds'
  BY <1>2, <1>5 DEF SummaryInv, LookHolds
<1>7. SUFFICES /\ IsFiniteSet(Asking)'
               /\ posted + (One(st' = "none") + One(force') + Cardinality(Asking') + One(own)) <= 1 + manual'
  BY <1>2, <1>3, <1>5, <1>6, <1>7 DEF SummaryInv, Due, One
<1> HIDE DEF n, own
<1>8. CASE RetryRead(a)
  <2>1. Asking' = Asking \cup {a} /\ a \notin Asking /\ st' = st /\ force' = force /\ manual' = manual + 1
    BY <1>8 DEF RetryRead, Accept, Asking, TypeInv
  <2>2. IsFiniteSet(Asking') /\ Cardinality(Asking') = n + 1
    BY <2>1, FS_AddElement DEF SummaryInv, n
  <2> QED
    BY <1>1, <1>4, <2>1, <2>2 DEF One
<1>9. CASE RetryForce(a)
  <2>1. Asking' = Asking \ {a} /\ a \in Asking /\ st' = st /\ force' = TRUE /\ manual' = manual
    BY <1>9 DEF RetryForce, Asking, TypeInv
  <2>2. IsFiniteSet(Asking') /\ Cardinality(Asking') = n - 1
    BY <2>1, FS_RemoveElement DEF SummaryInv, n
  <2> QED
    BY <1>1, <1>4, <2>1, <2>2 DEF One
<1>10. CASE StopRead(a) \/ StopWrite(a) \/ RetryQueued(a) \/ RetryEnqueue(a)
  <2>1. Asking' = Asking /\ force' = force /\ manual' \in {manual, manual + 1}
    BY <1>10 DEF StopRead, Accept, StopWrite, RetryQueued, RetryEnqueue, Asking, TypeInv
  <2>2. IsFiniteSet(Asking') /\ Cardinality(Asking') = n
    BY <2>1 DEF SummaryInv, n
  <2>3. One(st' = "none") = One(st = "none") /\ One(force') = One(force)
    BY <1>5, <2>1 DEF One
  <2>4. One(st = "none") \in Nat /\ One(force) \in Nat /\ One(own) \in Nat
    BY DEF One
  <2> QED
    BY <1>1, <1>4, <2>1, <2>2, <2>3, <2>4
<1> QED
  BY <1>8, <1>9, <1>10 DEF Administer

\* Every step keeps the account of the summaries.
LEMMA SummaryStep ==
  ASSUME TypeInv, SummaryInv, MaxCrashes = 0, \A v, u \in Workers : v = u, [Next]_vars
  PROVE  SummaryInv'
<1> USE DEF rowVars, workVars, eventVars, bootVars, histVars, Enqueue
<1>1. CASE Webhook \/ RefreshAdapters \/ StartPool \/ Replay \/ UNCHANGED vars
  <2>1. /\ UNCHANGED workVars /\ apc' = apc /\ posted' = posted /\ manual' = manual /\ force' = force
        /\ st' = "none" <=> st = "none"
    BY <1>1 DEF Webhook, RefreshAdapters, StartPool, Replay, vars
  <2>2. Asking' = Asking /\ ((\E w \in Workers : OnItsWay(w))' <=> \E w \in Workers : OnItsWay(w))
    BY <2>1 DEF Asking, OnItsWay
  <2>3. Due' = Due
    BY <2>1, <2>2 DEF Due, One
  <2> QED
    BY <2>1, <2>2, <2>3 DEF SummaryInv, LookHolds, AskedOfARow
<1>2. ~Crash
  BY DEF Crash, TypeInv
<1> QED
  BY <1>1, <1>2, WorkerStep, AdminStep DEF Next

\* With one worker, and as long as the process does not die between a summary
\* and the row that says completed, the push gets one summary and each manual
\* execution at most one more, however often the event is delivered: "the row
\* exists" recognises a repetition, and force_rerun is used up by one review.
THEOREM OneSummaryEach ==
  ASSUME MaxCrashes = 0, \A w, v \in Workers : w = v
  PROVE  Spec => []OneSummary
<1>1. Init => TypeInv /\ SummaryInv
  <2> SUFFICES ASSUME Init PROVE SummaryInv
    BY TypeInit
  <2>1. Asking = {} /\ ~\E w \in Workers : OnItsWay(w)
    BY DEF Init, Asking, OnItsWay
  <2>2. IsFiniteSet(Asking) /\ Cardinality(Asking) = 0
    BY <2>1, FS_EmptySet
  <2>3. posted + Due <= 1 + manual
    BY <2>1, <2>2 DEF Init, Due, One
  <2> QED
    BY <2>2, <2>3 DEF Init, SummaryInv, LookHolds, AskedOfARow
<1>2. TypeInv /\ SummaryInv /\ [Next]_vars => (TypeInv /\ SummaryInv)'
  BY TypeStep, SummaryStep
<1>3. TypeInv /\ SummaryInv => OneSummary
  BY FS_CardinalityType DEF SummaryInv, OneSummary, Due, One, TypeInv
<1> QED
  BY <1>1, <1>2, <1>3, PTL DEF Spec
=============================================================================
