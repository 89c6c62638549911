--------------------------- MODULE Writeback_proofs ---------------------------
(***************************************************************************)
(* What Writeback promises for any number of findings, redeliveries,       *)
(* retries, failures and crashes, and for batches of any size.             *)
(***************************************************************************)
EXTENDS Writeback, FiniteSetTheorems, TLAPS

-----------------------------------------------------------------------------
(* Types *)

\* A batch is a part of what is left to post.
LEMMA BatchesArePart ==
  ASSUME NEW S, NEW B \in Batches(S)
  PROVE  B \subseteq S
BY DEF Batches, kSubset

\* Deciding what to post keeps the types of the writer's variables.
LEMMA PendType ==
  ASSUME TypeOK, WritebackAssumption, NEW w \in Writers, NEW S \in SUBSET Findings,
         Pend(w, S)
  PROVE  /\ pending' \in [Writers -> SUBSET Findings]
         /\ rest' \in [Writers -> SUBSET Findings]
         /\ attempt' \in [Writers -> 0..Retries]
         /\ wpc' = [wpc EXCEPT ![w] = IF S = {} THEN "summary" ELSE "inline"]
BY DEF TypeOK, WritebackAssumption, Pend, Goto

\* So does starting a POST again, which counts one more failed attempt.
LEMMA RestartType ==
  ASSUME TypeOK, WritebackAssumption, NEW w \in Writers, Restart(w)
  PROVE  /\ rest' \in [Writers -> SUBSET Findings]
         /\ attempt' \in [Writers -> 0..Retries]
         /\ wpc' = wpc \/ wpc' = [wpc EXCEPT ![w] = "failed"]
<1>1. CASE TryAgain(w)
  <2>1. attempt[w] \in 0..Retries /\ attempt[w] + 1 \in 0..Retries
    BY <1>1 DEF TypeOK, WritebackAssumption, TryAgain
  <2> QED
    BY <1>1, <2>1 DEF TypeOK, Restart
<1>2. CASE ~TryAgain(w)
  BY <1>2 DEF TypeOK, Restart, Goto
<1> QED
  BY <1>1, <1>2

\* Posting a batch counts each of its comments once more.
LEMMA PostedType ==
  ASSUME TypeOK, NEW B, Posted(B)
  PROVE  inline' \in [Findings -> Nat]
BY DEF TypeOK, Posted

\* One call of a writer keeps the types.
LEMMA WriteType ==
  ASSUME TypeOK, WritebackAssumption, NEW w \in Writers, Write(w)
  PROVE  TypeOK'
<1> USE DEF rowVars, postVars, counters, platform
<1>1. CASE Look(w)
  BY <1>1 DEF TypeOK, Look, Goto
<1>2. CASE LookBlindly(w)
  BY <1>2 DEF TypeOK, LookBlindly, Goto, Fault, WritebackAssumption
<1>3. CASE Drop(w)
  <2>1. PICK S \in SUBSET Findings : Pend(w, S)
    BY <1>3 DEF Drop, WritebackAssumption
  <2> QED
    BY <1>3, <2>1, PendType DEF TypeOK, Drop
<1>4. CASE DropBlindly(w)
  <2>1. PICK S \in SUBSET Findings : Pend(w, S)
    BY <1>4 DEF DropBlindly, WritebackAssumption
  <2> QED
    BY <1>4, <2>1, PendType DEF TypeOK, DropBlindly, Fault, WritebackAssumption
<1>5. CASE PostBatch(w)
  <2>1. PICK B \in Batches(rest[w]) :
          /\ Posted(B)
          /\ rest' = [rest EXCEPT ![w] = @ \ B]
          /\ \/ wpc' = [wpc EXCEPT ![w] = "summary"] /\ attempt' = [attempt EXCEPT ![w] = 0]
             \/ UNCHANGED <<wpc, attempt>>
    BY <1>5 DEF PostBatch, Goto
  <2>2. inline' \in [Findings -> Nat]
    BY <2>1, PostedType
  <2>3. /\ rest' \in [Writers -> SUBSET Findings]
        /\ attempt' \in [Writers -> 0..Retries]
    BY <2>1 DEF TypeOK, WritebackAssumption
  <2> QED
    BY <1>5, <2>1, <2>2, <2>3 DEF TypeOK, PostBatch
<1>6. CASE LoseBatch(w)
  <2>1. inline' \in [Findings -> Nat]
    BY <1>6, PostedType DEF TypeOK, LoseBatch
  <2>2. Restart(w)
    BY <1>6 DEF LoseBatch
  <2> QED
    BY <1>6, <2>1, <2>2, RestartType DEF TypeOK, LoseBatch, Fault, WritebackAssumption
<1>7. CASE PostSummary(w)
  BY <1>7 DEF TypeOK, PostSummary, AddSummary, Goto
<1>8. CASE LoseSummary(w)
  <2>1. Restart(w) /\ full' \in Nat /\ short' \in Nat
    BY <1>8 DEF TypeOK, LoseSummary, AddSummary
  <2> QED
    BY <1>8, <2>1, RestartType DEF TypeOK, LoseSummary, Fault, WritebackAssumption
<1>9. CASE Reject(w)
  BY <1>9 DEF TypeOK, Reject, Goto, WritebackAssumption
<1> QED
  BY <1>1, <1>2, <1>3, <1>4, <1>5, <1>6, <1>7, <1>8, <1>9 DEF Write

\* Every step keeps the types.
LEMMA TypeStep ==
  ASSUME TypeOK, WritebackAssumption, [Next]_vars
  PROVE  TypeOK'
<1> USE DEF rowVars, postVars, counters, platform
<1>1. CASE \E w \in Writers : Write(w)
  BY <1>1, WriteType
<1>2. CASE Complete
  BY <1>2 DEF TypeOK, Complete, Goto, Writers
<1>3. CASE MarkFailed
  BY <1>3 DEF TypeOK, MarkFailed, Goto, Writers
<1>4. CASE ReviewAgain
  BY <1>4 DEF TypeOK, ReviewAgain, Goto, Writers
<1>5. ASSUME NEW w \in Redeliverers, Redeliver(w)
      PROVE  TypeOK'
  <2>1. requests' \in 0..MaxRequests /\ overlaps' \in Nat
    BY <1>5 DEF TypeOK, Redeliver, WritebackAssumption
  <2>2. wpc' = [wpc EXCEPT ![w] = "fetch"]
    BY <1>5 DEF Redeliver, Goto
  <2> QED
    BY <1>5, <2>1, <2>2 DEF TypeOK, Redeliver
<1>6. ASSUME NEW w \in Redeliverers, Fetch(w)
      PROVE  TypeOK'
  BY <1>6 DEF TypeOK, Fetch, Goto
<1>7. ASSUME NEW w \in Redeliverers, Redelivered(w)
      PROVE  TypeOK'
  BY <1>7 DEF TypeOK, Redelivered, Goto
<1>8. ASSUME NEW w \in Redeliverers, RedeliveryFailed(w)
      PROVE  TypeOK'
  BY <1>8 DEF TypeOK, RedeliveryFailed, Goto
<1>9. CASE Crash
  BY <1>9 DEF TypeOK, Crash, WritebackAssumption
<1>10. CASE UNCHANGED vars
  BY <1>10 DEF TypeOK, vars
<1> QED
  BY <1>1, <1>2, <1>3, <1>4, <1>5, <1>6, <1>7, <1>8, <1>9, <1>10 DEF Next

\* The types hold at the start.
LEMMA TypeInit ==
  ASSUME WritebackAssumption, Init
  PROVE  TypeOK
<1>1. attempt \in [Writers -> 0..Retries]
  BY DEF Init, WritebackAssumption
<1>2. wpc \in [Writers -> {"idle", "look"}]
  BY DEF Init
<1>3. pending \in [Writers -> SUBSET Findings] /\ rest \in [Writers -> SUBSET Findings]
  BY DEF Init
<1>4. /\ faults \in 0..MaxFaults /\ rejects \in 0..MaxRejects
      /\ requests \in 0..MaxRequests /\ crashes \in 0..MaxCrashes /\ overlaps \in Nat
  BY DEF Init, WritebackAssumption
<1> QED
  BY <1>1, <1>2, <1>3, <1>4 DEF Init, TypeOK

\* The platform, the row and the writers keep their types.
THEOREM TypeCorrect == Spec => []TypeOK
<1>1. Init => TypeOK
  BY TypeInit, WritebackAssumption
<1>2. TypeOK /\ [Next]_vars => TypeOK'
  BY TypeStep, WritebackAssumption
<1> QED
  BY <1>1, <1>2, PTL DEF Spec

-----------------------------------------------------------------------------
(* Nothing is lost silently *)

AllPosted == \A f \in Findings : inline[f] > 0

\* What is not on the platform yet is in the hands of every writer that will
\* go on to the summary without looking again.
NothingSkipped(w) ==
  /\ wpc[w] = "inline" => /\ rest[w] \subseteq pending[w]
                          /\ \A f \in Findings : inline[f] > 0 \/ f \in rest[w]
  /\ wpc[w] = "summary" => AllPosted

\* The summary comes last, and a row is completed only with it or marked.
DeliveryInv ==
  /\ \A w \in Writers : NothingSkipped(w)
  /\ \A w \in Writers : wpc[w] = "ok" => Sentinel
  /\ Sentinel => AllPosted
  /\ row = "completed" \/ wpc[Review] = "marked" => flag \/ Sentinel

\* A comment that is on the platform stays there.
Grows == /\ \A f \in Findings : inline'[f] >= inline[f]
         /\ full' >= full /\ short' >= short

\* When nothing is taken off the platform, what is on it stays.
LEMMA GrowsKeeps ==
  ASSUME TypeOK, TypeOK', Grows
  PROVE  /\ \A f \in Findings : inline[f] > 0 => inline'[f] > 0
         /\ AllPosted => AllPosted'
         /\ Sentinel => Sentinel'
<1>1. \A f \in Findings : inline[f] \in Nat /\ inline'[f] \in Nat /\ inline'[f] >= inline[f]
  BY DEF TypeOK, Grows
<1>2. \A f \in Findings : inline[f] > 0 => inline'[f] > 0
  BY <1>1
<1>3. Sentinel => Sentinel'
  <2>1. full \in Nat /\ short \in Nat /\ full' \in Nat /\ short' \in Nat
    BY DEF TypeOK
  <2>2. full' >= full /\ short' >= short
    BY DEF Grows
  <2>3. full + short > 0 => full' + short' > 0
    <3>1. \A i, j, k, l \in Nat : k >= i /\ l >= j /\ i + j > 0 => k + l > 0
      OBVIOUS
    <3> QED
      BY <2>1, <2>2, <3>1
  <2> QED
    BY <2>3 DEF Sentinel
<1> QED
  BY <1>2, <1>3 DEF AllPosted

\* Posting takes nothing off the platform.
LEMMA PostedGrows ==
  ASSUME TypeOK, NEW B, Posted(B)
  PROVE  /\ \A f \in Findings : inline'[f] >= inline[f]
         /\ \A f \in Findings \cap B : inline'[f] > 0
BY DEF TypeOK, Posted

\* Nothing is ever taken off the platform.
LEMMA StepGrows ==
  ASSUME TypeOK, [Next]_vars
  PROVE  Grows
<1> USE DEF platform
<1>1. ASSUME NEW w \in Writers, Write(w)
      PROVE  Grows
  <2>1. CASE Look(w) \/ LookBlindly(w) \/ Drop(w) \/ DropBlindly(w) \/ Reject(w)
    BY <2>1 DEF Look, LookBlindly, Drop, DropBlindly, Reject, Grows, TypeOK
  <2>2. CASE PostBatch(w) \/ LoseBatch(w)
    <3>1. full' = full /\ short' = short
      BY <2>2 DEF PostBatch, LoseBatch
    <3>2. inline' = inline \/ \E B : Posted(B)
      BY <2>2 DEF PostBatch, LoseBatch
    <3> QED
      BY <3>1, <3>2, PostedGrows DEF Grows, TypeOK
  <2>3. CASE PostSummary(w) \/ LoseSummary(w)
    BY <2>3 DEF PostSummary, LoseSummary, AddSummary, Grows, TypeOK
  <2> QED
    BY <1>1, <2>1, <2>2, <2>3 DEF Write
<1>2. CASE \/ Complete \/ MarkFailed \/ ReviewAgain \/ Crash \/ UNCHANGED vars
           \/ \E w \in Redeliverers :
                Redeliver(w) \/ Fetch(w) \/ Redelivered(w) \/ RedeliveryFailed(w)
  BY <1>2 DEF Complete, MarkFailed, ReviewAgain, Crash, Redeliver, Fetch, Redelivered,
              RedeliveryFailed, Grows, TypeOK, vars
<1> QED
  BY <1>1, <1>2 DEF Next

\* A writer that does not move keeps its promise, whatever the others post.
LEMMA OthersKeep ==
  ASSUME TypeOK, TypeOK', Grows, NEW v \in Writers, NothingSkipped(v),
         wpc'[v] = wpc[v], rest'[v] = rest[v], pending'[v] = pending[v]
  PROVE  NothingSkipped(v)'
BY GrowsKeeps DEF NothingSkipped

\* So does one that starts its batches again.
LEMMA RestartKeeps ==
  ASSUME TypeOK, TypeOK', Grows, NEW w \in Writers, NothingSkipped(w),
         Restart(w), UNCHANGED pending
  PROVE  NothingSkipped(w)'
<1>1. CASE TryAgain(w)
  <2>1. wpc'[w] = wpc[w] /\ rest'[w] = pending[w] /\ pending'[w] = pending[w]
    BY <1>1 DEF Restart, TypeOK
  <2> QED
    BY <2>1, GrowsKeeps DEF NothingSkipped
<1>2. CASE ~TryAgain(w)
  <2>1. wpc'[w] = "failed"
    BY <1>2 DEF Restart, Goto, TypeOK
  <2> QED
    BY <2>1 DEF NothingSkipped
<1> QED
  BY <1>1, <1>2

\* A writer that has looked at the platform leaves out what is there only.
LEMMA PendKeeps ==
  ASSUME TypeOK, TypeOK', NEW w \in Writers, UNCHANGED inline,
         Pend(w, {f \in Findings : inline[f] = 0}) \/ Pend(w, Findings)
  PROVE  NothingSkipped(w)'
<1>1. PICK S \in SUBSET Findings :
        Pend(w, S) /\ \A f \in Findings : inline[f] > 0 \/ f \in S
  BY DEF TypeOK
<1>2. /\ pending'[w] = S /\ rest'[w] = S
      /\ wpc'[w] = IF S = {} THEN "summary" ELSE "inline"
  BY <1>1 DEF TypeOK, Pend, Goto
<1> QED
  BY <1>1, <1>2 DEF NothingSkipped, AllPosted

\* A call of one writer touches no other writer.
LEMMA OthersStill ==
  ASSUME TypeOK, NEW w \in Writers, Write(w), NEW v \in Writers, v # w
  PROVE  wpc'[v] = wpc[v] /\ rest'[v] = rest[v] /\ pending'[v] = pending[v]
<1>1. CASE Look(w) \/ LookBlindly(w) \/ PostSummary(w) \/ Reject(w)
  BY <1>1 DEF Look, LookBlindly, PostSummary, Reject, Goto, postVars, TypeOK
<1>2. CASE Drop(w) \/ DropBlindly(w)
  BY <1>2 DEF Drop, DropBlindly, Pend, Goto, TypeOK
<1>3. CASE PostBatch(w)
  BY <1>3 DEF PostBatch, Goto, TypeOK
<1>4. CASE LoseBatch(w) \/ LoseSummary(w)
  BY <1>4 DEF LoseBatch, LoseSummary, Restart, Goto, TypeOK
<1> QED
  BY <1>1, <1>2, <1>3, <1>4 DEF Write

\* One call of a writer keeps every writer's promise.
LEMMA WriteKeeps ==
  ASSUME TypeOK, TypeOK', Grows, WritebackAssumption, AnchorSets = {Findings},
         DeliveryInv, NEW w \in Writers, Write(w)
  PROVE  \A v \in Writers : NothingSkipped(v)'
<1>1. ASSUME NEW v \in Writers, v # w
      PROVE  NothingSkipped(v)'
  <2>1. wpc'[v] = wpc[v] /\ rest'[v] = rest[v] /\ pending'[v] = pending[v]
    BY <1>1, OthersStill
  <2> QED
    BY <2>1, OthersKeep DEF DeliveryInv
<1>2. NothingSkipped(w)
  BY DEF DeliveryInv
<1>3. NothingSkipped(w)'
  <2>1. CASE Look(w) \/ LookBlindly(w) \/ PostSummary(w) \/ Reject(w)
    <3>1. wpc'[w] \in {"ok", "drop", "failed"}
      BY <2>1 DEF Look, LookBlindly, PostSummary, Reject, Goto, TypeOK
    <3> QED
      BY <3>1 DEF NothingSkipped
  <2>2. CASE Drop(w) \/ DropBlindly(w)
    <3>1. UNCHANGED inline
      BY <2>2 DEF Drop, DropBlindly, platform
    <3>2. Pend(w, {f \in Findings : inline[f] = 0}) \/ Pend(w, Findings)
      <4>1. CASE DropBlindly(w)
        BY <4>1 DEF DropBlindly
      <4>2. CASE Drop(w) /\ HasAnchors
        <5>1. {f \in Findings : ~HasAnchors \/ inline[f] = 0} = {f \in Findings : inline[f] = 0}
          BY <4>2
        <5> QED
          BY <4>2, <5>1 DEF Drop
      <4>3. CASE Drop(w) /\ ~HasAnchors
        <5>1. {f \in Findings : ~HasAnchors \/ inline[f] = 0} = Findings
          BY <4>3
        <5> QED
          BY <4>3, <5>1 DEF Drop
      <4> QED
        BY <2>2, <4>1, <4>2, <4>3
    <3> QED
      BY <3>1, <3>2, PendKeeps
  <2>3. CASE PostBatch(w)
    <3>1. wpc[w] = "inline" /\ pending' = pending
      BY <2>3 DEF PostBatch
    <3>2. PICK B \in Batches(rest[w]) :
            /\ Posted(B)
            /\ rest' = [rest EXCEPT ![w] = @ \ B]
            /\ IF rest[w] = B THEN Goto(w, "summary") ELSE UNCHANGED wpc
      BY <2>3 DEF PostBatch
    <3>3. rest'[w] = rest[w] \ B
      BY <3>2 DEF TypeOK
    <3>4. \A f \in Findings : inline'[f] > 0 \/ f \in rest'[w]
      BY <1>2, <3>1, <3>2, <3>3, PostedGrows, GrowsKeeps DEF NothingSkipped
    <3>5. CASE rest[w] = B
      <4>1. wpc'[w] = "summary" /\ rest'[w] = {}
        BY <3>2, <3>3, <3>5 DEF Goto, TypeOK
      <4> QED
        BY <4>1, <3>4 DEF NothingSkipped, AllPosted
    <3>6. CASE rest[w] # B
      <4>1. wpc'[w] = "inline" /\ rest'[w] \subseteq pending'[w]
        BY <1>2, <3>1, <3>2, <3>3, <3>6 DEF NothingSkipped
      <4> QED
        BY <4>1, <3>4 DEF NothingSkipped
    <3> QED
      BY <3>5, <3>6
  <2>4. CASE LoseBatch(w) \/ LoseSummary(w)
    <3>1. Restart(w) /\ UNCHANGED pending
      BY <2>4 DEF LoseBatch, LoseSummary
    <3> QED
      BY <1>2, <3>1, RestartKeeps
  <2> QED
    BY <2>1, <2>2, <2>3, <2>4 DEF Write
<1> QED
  BY <1>1, <1>3

\* The summary is posted only by a writer that has nothing else left, and a
\* writer reports success only when there is one.
LEMMA WriteEndsWell ==
  ASSUME TypeOK, TypeOK', Grows, DeliveryInv, NEW w \in Writers, Write(w)
  PROVE  /\ \A v \in Writers : wpc'[v] = "ok" => Sentinel'
         /\ Sentinel' => AllPosted'
         /\ row' = "completed" \/ wpc'[Review] = "marked" => flag' \/ Sentinel'
<1>1. \A v \in Writers : v # w => wpc'[v] = wpc[v]
  BY DEF Write, Look, LookBlindly, PostSummary, Reject, Drop, DropBlindly, Pend,
         PostBatch, LoseBatch, LoseSummary, Restart, Goto, TypeOK
<1>2. UNCHANGED rowVars /\ wpc'[w] # "marked"
  BY DEF Write, Look, LookBlindly, PostSummary, Reject, Drop, DropBlindly, Pend,
         PostBatch, LoseBatch, LoseSummary, Restart, Goto, TypeOK
<1>3. Sentinel' => AllPosted'
  <2>1. CASE wpc[w] = "summary"
    BY <2>1, GrowsKeeps DEF DeliveryInv, NothingSkipped
  <2>2. CASE wpc[w] # "summary"
    <3>1. UNCHANGED <<full, short>>
      BY <2>2 DEF Write, Look, LookBlindly, PostSummary, Reject, Drop, DropBlindly,
                  PostBatch, LoseBatch, LoseSummary, platform
    <3>2. Sentinel' => Sentinel
      BY <3>1 DEF Sentinel
    <3> QED
      BY <3>2, GrowsKeeps DEF DeliveryInv
  <2> QED
    BY <2>1, <2>2
<1>4. wpc'[w] = "ok" => Sentinel'
  <2>1. CASE Look(w)
    BY <2>1 DEF Look, Goto, TypeOK, Sentinel, platform
  <2>2. CASE PostSummary(w)
    <3>1. \/ full' = full + 1 /\ short' = short
          \/ full' = full /\ short' = short + 1
      BY <2>2 DEF PostSummary, AddSummary
    <3>2. full \in Nat /\ short \in Nat
      BY DEF TypeOK
    <3> QED
      BY <3>1, <3>2 DEF Sentinel
  <2>3. CASE \/ LookBlindly(w) \/ Reject(w) \/ Drop(w) \/ DropBlindly(w)
             \/ PostBatch(w) \/ LoseBatch(w) \/ LoseSummary(w)
    <3>1. wpc'[w] # "ok"
      BY <2>3 DEF LookBlindly, Reject, Drop, DropBlindly, Pend,
                  PostBatch, LoseBatch, LoseSummary, Restart, Goto, TypeOK
    <3> QED
      BY <3>1
  <2> QED
    BY <2>1, <2>2, <2>3 DEF Write
<1>5. \A v \in Writers : wpc[v] = "ok" => Sentinel'
  BY GrowsKeeps DEF DeliveryInv
<1>6. Review \in Writers
  BY DEF Writers
<1>7. row' = "completed" \/ wpc'[Review] = "marked" => flag' \/ Sentinel'
  BY <1>1, <1>2, <1>6, GrowsKeeps DEF DeliveryInv, rowVars
<1> QED
  BY <1>1, <1>3, <1>4, <1>5, <1>7

\* Every step keeps what is not on the platform yet in the hands of its writers.
LEMMA DeliveryStep ==
  ASSUME TypeOK, TypeOK', Grows, WritebackAssumption, AnchorSets = {Findings},
         DeliveryInv, [Next]_vars
  PROVE  DeliveryInv'
<1> USE DEF rowVars, postVars, platform
<1>1. ASSUME NEW w \in Writers, Write(w)
      PROVE  DeliveryInv'
  BY <1>1, WriteKeeps, WriteEndsWell DEF DeliveryInv
\* The other steps post nothing, and their writer looks again before it posts.
<1>2. ASSUME UNCHANGED <<inline, full, short, pending, rest>>,
             \A w \in Writers : wpc'[w] = wpc[w]
                                \/ wpc'[w] \in {"idle", "fetch", "look", "marked"}
      PROVE  /\ \A w \in Writers : NothingSkipped(w)'
             /\ \A w \in Writers : wpc'[w] = "ok" => Sentinel'
             /\ Sentinel' => AllPosted'
  BY <1>2 DEF DeliveryInv, NothingSkipped, AllPosted, Sentinel
<1>3. Review \in Writers /\ \A w \in Redeliverers : w \in Writers /\ w # Review
  BY DEF Writers, WritebackAssumption
<1>4. CASE Complete
  <2>1. flag \/ Sentinel
    BY <1>3, <1>4 DEF Complete, DeliveryInv
  <2>2. \A w \in Writers : wpc'[w] = wpc[w] \/ wpc'[w] = "idle"
    BY <1>4 DEF Complete, Goto, TypeOK
  <2>3. flag' \/ Sentinel'
    BY <1>4, <2>1 DEF Complete, Sentinel
  <2> QED
    BY <1>2, <1>4, <2>2, <2>3 DEF Complete, DeliveryInv
<1>5. CASE MarkFailed
  <2>1. \A w \in Writers : wpc'[w] = wpc[w] \/ wpc'[w] = "marked"
    BY <1>5 DEF MarkFailed, Goto, TypeOK
  <2> QED
    BY <1>2, <1>5, <2>1 DEF MarkFailed, DeliveryInv
<1>6. CASE ReviewAgain
  <2>1. \A w \in Writers : wpc'[w] = wpc[w] \/ wpc'[w] = "look"
    BY <1>6 DEF ReviewAgain, Goto, TypeOK
  <2>2. row' # "completed" /\ wpc'[Review] # "marked"
    BY <1>3, <1>6 DEF ReviewAgain, Goto, TypeOK
  <2> QED
    BY <1>2, <1>6, <2>1, <2>2 DEF ReviewAgain, DeliveryInv
<1>7. ASSUME NEW w \in Redeliverers, Redeliver(w) \/ Fetch(w) \/ RedeliveryFailed(w)
      PROVE  DeliveryInv'
  <2>1. UNCHANGED <<inline, full, short, pending, rest, row, flag>>
    BY <1>7 DEF Redeliver, Fetch, RedeliveryFailed
  <2>2. /\ \A v \in Writers : wpc'[v] = wpc[v] \/ wpc'[v] \in {"idle", "fetch", "look"}
        /\ wpc'[Review] = wpc[Review]
    BY <1>3, <1>7 DEF Redeliver, Fetch, RedeliveryFailed, Goto, TypeOK
  <2>3. Sentinel' <=> Sentinel
    BY <2>1 DEF Sentinel
  <2> QED
    BY <1>2, <2>1, <2>2, <2>3 DEF DeliveryInv
<1>8. ASSUME NEW w \in Redeliverers, Redelivered(w)
      PROVE  DeliveryInv'
  <2>1. Sentinel /\ Sentinel'
    BY <1>3, <1>8 DEF Redelivered, DeliveryInv, Sentinel
  <2>2. \A v \in Writers : wpc'[v] = wpc[v] \/ wpc'[v] = "idle"
    BY <1>8 DEF Redelivered, Goto, TypeOK
  <2> QED
    BY <1>2, <1>8, <2>1, <2>2 DEF Redelivered, DeliveryInv
<1>9. CASE Crash
  <2>1. \A w \in Writers : wpc'[w] = "idle"
    BY <1>9 DEF Crash
  <2>2. Sentinel' <=> Sentinel
    BY <1>9 DEF Crash, Sentinel
  <2> QED
    BY <1>2, <1>3, <1>9, <2>1, <2>2 DEF Crash, DeliveryInv
<1>10. CASE UNCHANGED vars
  <2>1. Sentinel' <=> Sentinel
    BY <1>10 DEF vars, Sentinel
  <2> QED
    BY <1>2, <1>10, <2>1 DEF vars, DeliveryInv
<1> QED
  BY <1>1, <1>4, <1>5, <1>6, <1>7, <1>8, <1>9, <1>10 DEF Next

\* When every finding has a line in the diff, a completed review that does not
\* offer to be redelivered has its summary and all its findings on the
\* platform.
THEOREM DeliveredCorrect ==
  ASSUME AnchorSets = {Findings}
  PROVE  Spec => []Delivered
<1>1. Init => TypeOK /\ DeliveryInv
  <2>1. ASSUME Init PROVE DeliveryInv
    <3>1. /\ \A w \in Writers : wpc[w] \in {"idle", "look"}
          /\ ~Sentinel /\ row # "completed"
      BY <2>1 DEF Init, Sentinel
    <3>2. Review \in Writers
      BY DEF Writers
    <3> QED
      BY <3>1, <3>2 DEF DeliveryInv, NothingSkipped
  <2> QED
    BY <2>1, TypeInit, WritebackAssumption
<1>2. TypeOK /\ DeliveryInv /\ [Next]_vars => (TypeOK /\ DeliveryInv)'
  BY TypeStep, StepGrows, DeliveryStep, WritebackAssumption
<1>3. DeliveryInv => Delivered
  BY DEF DeliveryInv, Delivered, AllPosted
<1> QED
  BY <1>1, <1>2, <1>3, PTL DEF Spec

-----------------------------------------------------------------------------
(* Nothing is repeated without a cause *)

\* The writers that still have a comment to post, those that still have a
\* summary to post.
Carrying(f) == {w \in Writers : wpc[w] = "inline" /\ f \in rest[w]}
Summarising == {w \in Writers : wpc[w] \in {"drop", "inline", "summary"}}

\* What was posted and what is about to be are paid for together.
ActiveInv  == Cardinality(Active) <= 1 + overlaps
CommentInv == \A f \in Findings : inline[f] + Cardinality(Carrying(f)) <= 1 + faults + overlaps
SummaryInv == full + short + Cardinality(Summarising) <= 1 + faults + overlaps

\* The writers are finitely many.
LEMMA WritersFinite ==
  ASSUME WritebackAssumption, NEW S \in SUBSET Writers
  PROVE  IsFiniteSet(S) /\ Cardinality(S) \in Nat
<1>1. IsFiniteSet(Redeliverers \cup {Review})
  BY FS_AddElement DEF WritebackAssumption
<1>2. Writers = Redeliverers \cup {Review}
  BY DEF Writers
<1>3. IsFiniteSet(S)
  BY <1>1, <1>2, FS_Subset
<1> QED
  BY <1>3, FS_CardinalityType

\* A part of some writers is no more than all of them.
LEMMA FewerWriters ==
  ASSUME WritebackAssumption, NEW T \in SUBSET Writers, NEW S \in SUBSET T
  PROVE  Cardinality(S) <= Cardinality(T)
BY WritersFinite, FS_Subset

\* With one writer more, a part is at most one more.
LEMMA OneMoreWriter ==
  ASSUME WritebackAssumption, NEW T \in SUBSET Writers, NEW w \in Writers,
         NEW S \in SUBSET (T \cup {w})
  PROVE  Cardinality(S) <= Cardinality(T) + 1
<1>1. Cardinality(S) <= Cardinality(T \cup {w})
  BY FewerWriters, T \cup {w} \in SUBSET Writers
<1>2. IsFiniteSet(T) /\ Cardinality(T) \in Nat
  BY WritersFinite
<1>3. Cardinality(T \cup {w}) = Cardinality(T) \/ Cardinality(T \cup {w}) = Cardinality(T) + 1
  BY <1>2, FS_AddElement
<1>4. Cardinality(S) \in Nat
  BY WritersFinite, S \in SUBSET Writers
<1> QED
  BY <1>1, <1>2, <1>3, <1>4

\* With one writer less, a part is at least one less.
LEMMA OneWriterLess ==
  ASSUME WritebackAssumption, NEW T \in SUBSET Writers, NEW w \in T,
         NEW S \in SUBSET (T \ {w})
  PROVE  Cardinality(S) + 1 <= Cardinality(T)
<1>1. Cardinality(S) <= Cardinality(T \ {w})
  BY FewerWriters, T \ {w} \in SUBSET Writers
<1>2. IsFiniteSet(T) /\ Cardinality(T) \in Nat
  BY WritersFinite
<1>3. Cardinality(T \ {w}) = Cardinality(T) - 1
  BY <1>2, FS_RemoveElement
<1>4. Cardinality(S) \in Nat
  BY WritersFinite, S \in SUBSET Writers
<1> QED
  BY <1>1, <1>2, <1>3, <1>4

\* The counters of the failures and the overlaps only grow.
LEMMA CausesGrow ==
  ASSUME TypeOK, [Next]_vars
  PROVE  faults \in Nat /\ faults' >= faults /\ overlaps \in Nat /\ overlaps' >= overlaps
<1> USE DEF counters
<1>1. faults \in Nat /\ overlaps \in Nat
  BY DEF TypeOK
<1>2. faults' = faults \/ faults' = faults + 1
  BY DEF Next, Write, Look, LookBlindly, Drop, DropBlindly, PostBatch, LoseBatch,
         PostSummary, LoseSummary, Reject, Fault, Complete, MarkFailed, ReviewAgain,
         Redeliver, Fetch, Redelivered, RedeliveryFailed, Crash, vars
<1>3. overlaps' = overlaps \/ overlaps' = overlaps + 1
  BY DEF Next, Write, Look, LookBlindly, Drop, DropBlindly, PostBatch, LoseBatch,
         PostSummary, LoseSummary, Reject, Fault, Complete, MarkFailed, ReviewAgain,
         Redeliver, Fetch, Redelivered, RedeliveryFailed, Crash, vars
<1> QED
  BY <1>1, <1>2, <1>3

\* A writer that starts while another is active is counted as an overlap.
LEMMA ActiveStep ==
  ASSUME TypeOK, TypeOK', WritebackAssumption, ActiveInv, [Next]_vars
  PROVE  ActiveInv'
<1>a. /\ Active \in SUBSET Writers /\ Active' \in SUBSET Writers
      /\ Cardinality(Active) \in Nat /\ Cardinality(Active') \in Nat
      /\ overlaps \in Nat /\ overlaps' \in Nat /\ overlaps' >= overlaps
  <2>1. Active \in SUBSET Writers /\ Active' \in SUBSET Writers
    BY DEF Active
  <2> QED
    BY <2>1, WritersFinite, CausesGrow DEF TypeOK
<1>b. ASSUME Active' \subseteq Active
      PROVE  ActiveInv'
  <2>1. Cardinality(Active') <= Cardinality(Active)
    BY <1>a, <1>b, FewerWriters
  <2> QED
    BY <1>a, <2>1 DEF ActiveInv
<1>c. ASSUME NEW w \in Writers, Active' \subseteq Active \cup {w},
             overlaps' = IF Active = {} THEN overlaps ELSE overlaps + 1
      PROVE  ActiveInv'
  <2>1. Cardinality(Active') <= Cardinality(Active) + 1
    BY <1>a, <1>c, OneMoreWriter
  <2>2. CASE Active = {}
    <3>1. Cardinality(Active) = 0
      BY <2>2, FS_EmptySet
    <3> QED
      BY <1>a, <2>1, <3>1 DEF ActiveInv
  <2>3. CASE Active # {}
    BY <1>a, <1>c, <2>1, <2>3 DEF ActiveInv
  <2> QED
    BY <2>2, <2>3
<1>1. ASSUME NEW w \in Writers, Write(w)
      PROVE  ActiveInv'
  <2>1. wpc[w] # "idle"
    BY <1>1 DEF Write, Look, LookBlindly, PostSummary, Reject, Drop, DropBlindly,
                PostBatch, LoseBatch, LoseSummary
  <2>2. Active' \subseteq Active
    BY <1>1, <2>1, OthersStill DEF Active
  <2> QED
    BY <1>b, <2>2
<1>2. CASE Complete \/ MarkFailed
  <2>1. Review \in Writers
    BY DEF Writers
  <2>2. Active' \subseteq Active
    BY <1>2, <2>1 DEF Complete, MarkFailed, Goto, Active, TypeOK
  <2> QED
    BY <1>b, <2>2
<1>3. CASE ReviewAgain
  <2>1. Review \in Writers
    BY DEF Writers
  <2>2. Active' \subseteq Active \cup {Review}
    BY <1>3 DEF ReviewAgain, Goto, Active, TypeOK
  <2> QED
    BY <1>3, <1>c, <2>1, <2>2 DEF ReviewAgain
<1>4. ASSUME NEW w \in Redeliverers, Redeliver(w)
      PROVE  ActiveInv'
  <2>1. w \in Writers
    BY DEF Writers
  <2>2. Active' \subseteq Active \cup {w}
    BY <1>4 DEF Redeliver, Goto, Active, TypeOK
  <2> QED
    BY <1>4, <1>c, <2>1, <2>2 DEF Redeliver
<1>5. ASSUME NEW w \in Redeliverers, Fetch(w) \/ Redelivered(w) \/ RedeliveryFailed(w)
      PROVE  ActiveInv'
  <2>1. Active' \subseteq Active
    BY <1>5 DEF Fetch, Redelivered, RedeliveryFailed, Goto, Active, TypeOK
  <2> QED
    BY <1>b, <2>1
<1>6. CASE Crash
  <2>1. Active' \subseteq Active
    BY <1>6 DEF Crash, Active
  <2> QED
    BY <1>b, <2>1
<1>7. CASE UNCHANGED vars
  <2>1. Active' \subseteq Active
    BY <1>7 DEF vars, Active
  <2> QED
    BY <1>b, <2>1
<1> QED
  BY <1>1, <1>2, <1>3, <1>4, <1>5, <1>6, <1>7 DEF Next

\* What the steps that are no call of a writer leave alone.
LEMMA OtherSteps ==
  ASSUME TypeOK, [Next]_vars, ~\E w \in Writers : Write(w)
  PROVE  /\ UNCHANGED <<inline, full, short, rest>>
         /\ \A w \in Writers : wpc'[w] = wpc[w]
                               \/ wpc'[w] \in {"idle", "fetch", "look", "marked"}
<1> USE DEF platform, postVars
<1>1. CASE Complete \/ MarkFailed \/ ReviewAgain
  BY <1>1 DEF Complete, MarkFailed, ReviewAgain, Goto, TypeOK
<1>2. ASSUME NEW w \in Redeliverers,
             Redeliver(w) \/ Fetch(w) \/ Redelivered(w) \/ RedeliveryFailed(w)
      PROVE  /\ UNCHANGED <<inline, full, short, rest>>
             /\ \A v \in Writers : wpc'[v] = wpc[v] \/ wpc'[v] \in {"idle", "fetch", "look"}
  BY <1>2 DEF Redeliver, Fetch, Redelivered, RedeliveryFailed, Goto, TypeOK
<1>3. CASE Crash \/ UNCHANGED vars
  BY <1>3 DEF Crash, vars
<1> QED
  BY <1>1, <1>2, <1>3 DEF Next

\* A comment is posted by a writer that carries it, and a writer takes one up
\* that is not on the platform, unless a call has failed.
LEMMA CommentStep ==
  ASSUME TypeOK, TypeOK', WritebackAssumption, HasAnchors, ActiveInv', CommentInv,
         [Next]_vars, NEW f \in Findings
  PROVE  inline'[f] + Cardinality(Carrying(f)') <= 1 + faults' + overlaps'
<1>a. /\ Carrying(f) \in SUBSET Writers /\ Carrying(f)' \in SUBSET Writers
      /\ Cardinality(Carrying(f)) \in Nat /\ Cardinality(Carrying(f)') \in Nat
  <2>1. Carrying(f) \in SUBSET Writers /\ Carrying(f)' \in SUBSET Writers
    BY DEF Carrying
  <2> QED
    BY <2>1, WritersFinite
<1>n. /\ inline[f] \in Nat /\ inline'[f] \in Nat /\ faults \in Nat /\ overlaps \in Nat
      /\ faults' \in Nat /\ overlaps' \in Nat
      /\ faults' >= faults /\ overlaps' >= overlaps
  BY CausesGrow DEF TypeOK
<1>i. inline[f] + Cardinality(Carrying(f)) <= 1 + faults + overlaps
  BY DEF CommentInv
\* The three ways in which a step may change the two sides.
<1>b. ASSUME Carrying(f)' \subseteq Carrying(f), inline'[f] = inline[f]
      PROVE  inline'[f] + Cardinality(Carrying(f)') <= 1 + faults' + overlaps'
  <2>1. Cardinality(Carrying(f)') <= Cardinality(Carrying(f))
    BY <1>a, <1>b, FewerWriters
  <2> QED
    BY <1>a, <1>n, <1>i, <1>b, <2>1
<1>c. ASSUME NEW w \in Writers, Carrying(f)' \subseteq Carrying(f) \cup {w},
             inline'[f] = inline[f], faults' = faults + 1
      PROVE  inline'[f] + Cardinality(Carrying(f)') <= 1 + faults' + overlaps'
  <2>1. Cardinality(Carrying(f)') <= Cardinality(Carrying(f)) + 1
    BY <1>a, <1>c, OneMoreWriter
  <2> QED
    BY <1>a, <1>n, <1>i, <1>c, <2>1
<1>d. ASSUME Carrying(f)' \subseteq Carrying(f),
             inline'[f] = inline[f] + 1, faults' = faults + 1
      PROVE  inline'[f] + Cardinality(Carrying(f)') <= 1 + faults' + overlaps'
  <2>1. Cardinality(Carrying(f)') <= Cardinality(Carrying(f))
    BY <1>a, <1>d, FewerWriters
  <2> QED
    BY <1>a, <1>n, <1>i, <1>d, <2>1
<1>1. ASSUME NEW w \in Writers, Write(w)
      PROVE  inline'[f] + Cardinality(Carrying(f)') <= 1 + faults' + overlaps'
  <2>1. /\ Carrying(f)' \subseteq Carrying(f) \cup {w}
        /\ w \notin Carrying(f)' => Carrying(f)' \subseteq Carrying(f) \ {w}
    BY <1>1, OthersStill DEF Carrying
  <2>2. CASE \/ Look(w) \/ LookBlindly(w) \/ PostSummary(w) \/ LoseSummary(w) \/ Reject(w)
    <3>1. wpc'[w] # "inline"
      BY <2>2 DEF Look, LookBlindly, PostSummary, LoseSummary, Restart, Reject, Goto, TypeOK
    <3>2. inline' = inline
      BY <2>2 DEF Look, LookBlindly, PostSummary, LoseSummary, Reject, platform
    <3>3. w \notin Carrying(f)'
      BY <3>1 DEF Carrying
    <3> QED
      BY <1>b, <2>1, <3>2, <3>3
  <2>3. CASE Drop(w)
    <3>1. inline' = inline
      BY <2>3 DEF Drop, platform
    <3>2. rest'[w] \subseteq {g \in Findings : inline[g] = 0}
      BY <2>3 DEF Drop, Pend, TypeOK, WritebackAssumption
    <3>3. CASE inline[f] = 0
      <4>1. Carrying(f)' \in SUBSET (Active') /\ Active' \in SUBSET Writers
        BY DEF Carrying, Active
      <4>2. Cardinality(Carrying(f)') <= Cardinality(Active')
        BY <4>1, FewerWriters
      <4>3. Cardinality(Active') \in Nat /\ Cardinality(Active') <= 1 + overlaps'
        BY <4>1, WritersFinite DEF ActiveInv
      <4> QED
        BY <1>a, <1>n, <3>1, <3>3, <4>2, <4>3
    <3>4. CASE inline[f] # 0
      <4>1. w \notin Carrying(f)'
        BY <3>2, <3>4 DEF Carrying
      <4> QED
        BY <1>b, <2>1, <3>1, <4>1
    <3> QED
      BY <3>3, <3>4
  <2>4. CASE DropBlindly(w)
    BY <1>c, <2>1, <2>4 DEF DropBlindly, Fault, platform
  <2>5. CASE PostBatch(w)
    <3>1. wpc[w] = "inline" /\ faults' = faults /\ overlaps' = overlaps
      BY <2>5 DEF PostBatch, counters
    <3>2. PICK B \in SUBSET (rest[w]) :
            Posted(B) /\ rest' = [rest EXCEPT ![w] = @ \ B]
      BY <2>5, BatchesArePart DEF PostBatch
    <3>3. rest'[w] = rest[w] \ B
      BY <3>2 DEF TypeOK
    <3>4. CASE f \in B
      <4>1. inline'[f] = inline[f] + 1
        BY <3>2, <3>4 DEF Posted
      <4>2. w \in Carrying(f) /\ w \notin Carrying(f)'
        BY <3>1, <3>2, <3>3, <3>4 DEF Carrying
      <4>3. Cardinality(Carrying(f)') + 1 <= Cardinality(Carrying(f))
        BY <1>a, <2>1, <4>2, OneWriterLess
      <4> QED
        BY <1>a, <1>n, <1>i, <3>1, <4>1, <4>3
    <3>5. CASE f \notin B
      <4>1. inline'[f] = inline[f]
        BY <3>2, <3>5 DEF Posted
      <4>2. w \in Carrying(f)' => w \in Carrying(f)
        BY <3>1, <3>3 DEF Carrying
      <4> QED
        BY <1>b, <2>1, <4>1, <4>2
    <3> QED
      BY <3>4, <3>5
  <2>6. CASE LoseBatch(w)
    <3>1. wpc[w] = "inline" /\ faults' = faults + 1
      BY <2>6 DEF LoseBatch, Fault
    <3>2. inline' = inline \/ \E B \in SUBSET (rest[w]) : Posted(B)
      BY <2>6, BatchesArePart DEF LoseBatch
    <3>3. CASE \E B \in SUBSET (rest[w]) : Posted(B) /\ f \in B
      <4>1. inline'[f] = inline[f] + 1 /\ w \in Carrying(f)
        BY <3>1, <3>3 DEF Posted, Carrying
      <4> QED
        BY <1>d, <2>1, <3>1, <4>1
    <3>4. CASE ~\E B \in SUBSET (rest[w]) : Posted(B) /\ f \in B
      <4>1. inline'[f] = inline[f]
        BY <3>2, <3>4 DEF Posted
      <4> QED
        BY <1>c, <2>1, <3>1, <4>1
    <3> QED
      BY <3>3, <3>4
  <2> QED
    BY <1>1, <2>2, <2>3, <2>4, <2>5, <2>6 DEF Write
<1>2. CASE ~\E w \in Writers : Write(w)
  <2>1. Carrying(f)' \subseteq Carrying(f) /\ inline'[f] = inline[f]
    BY <1>2, OtherSteps DEF Carrying
  <2> QED
    BY <1>b, <2>1
<1> QED
  BY <1>1, <1>2

\* A summary is posted by a writer that has found none, unless a call has
\* failed.
LEMMA SummaryStep ==
  ASSUME TypeOK, TypeOK', WritebackAssumption, ActiveInv', SummaryInv, [Next]_vars
  PROVE  SummaryInv'
<1> DEFINE Total == full + short
<1>a. /\ Summarising \in SUBSET Writers /\ Summarising' \in SUBSET Writers
      /\ Cardinality(Summarising) \in Nat /\ Cardinality(Summarising') \in Nat
  <2>1. Summarising \in SUBSET Writers /\ Summarising' \in SUBSET Writers
    BY DEF Summarising
  <2> QED
    BY <2>1, WritersFinite
<1>t. full \in Nat /\ short \in Nat /\ full' \in Nat /\ short' \in Nat
  BY DEF TypeOK
<1>n. /\ Total \in Nat /\ Total' \in Nat /\ faults \in Nat /\ overlaps \in Nat
      /\ faults' \in Nat /\ overlaps' \in Nat
      /\ faults' >= faults /\ overlaps' >= overlaps
  <2>1. faults' \in Nat /\ overlaps' \in Nat
    BY DEF TypeOK
  <2>2. Total \in Nat
    BY <1>t DEF Total
  <2>3. Total' \in Nat
    <3>1. \A i, j \in Nat : i + j \in Nat
      OBVIOUS
    <3> QED
      BY <1>t, <3>1 DEF Total
  <2> QED
    BY <2>1, <2>2, <2>3, CausesGrow
<1>i. Total + Cardinality(Summarising) <= 1 + faults + overlaps
  BY DEF SummaryInv
<1>g. SUFFICES Total' + Cardinality(Summarising') <= 1 + faults' + overlaps'
  BY DEF SummaryInv
<1> HIDE DEF Total
<1>b. ASSUME Summarising' \subseteq Summarising, Total' = Total
      PROVE  Total' + Cardinality(Summarising') <= 1 + faults' + overlaps'
  <2>1. Cardinality(Summarising') <= Cardinality(Summarising)
    BY <1>a, <1>b, FewerWriters
  <2> QED
    BY <1>a, <1>n, <1>i, <1>b, <2>1
<1>1. ASSUME NEW w \in Writers, Write(w)
      PROVE  Total' + Cardinality(Summarising') <= 1 + faults' + overlaps'
  <2>1. /\ Summarising' \subseteq Summarising \cup {w}
        /\ w \notin Summarising' => Summarising' \subseteq Summarising \ {w}
    BY <1>1, OthersStill DEF Summarising
  <2>2. CASE Look(w) /\ ~Sentinel
    <3>1. Total' = 0
      BY <1>t, <2>2 DEF Look, Sentinel, Total, platform
    <3>2. Summarising' \in SUBSET (Active') /\ Active' \in SUBSET Writers
      BY DEF Summarising, Active
    <3>3. Cardinality(Summarising') <= Cardinality(Active')
      BY <3>2, FewerWriters
    <3>4. Cardinality(Active') \in Nat /\ Cardinality(Active') <= 1 + overlaps'
      BY <3>2, WritersFinite DEF ActiveInv
    <3> QED
      BY <1>a, <1>n, <3>1, <3>3, <3>4
  <2>3. CASE (Look(w) /\ Sentinel) \/ Reject(w)
    <3>1. wpc'[w] \in {"ok", "failed"}
      BY <2>3 DEF Look, Reject, Goto, TypeOK
    <3>2. Total' = Total
      BY <2>3 DEF Look, Reject, Total, platform
    <3>3. w \notin Summarising'
      BY <3>1 DEF Summarising
    <3> QED
      BY <1>b, <2>1, <3>2, <3>3
  <2>4. CASE LookBlindly(w)
    <3>1. Total' = Total /\ faults' = faults + 1
      BY <2>4 DEF LookBlindly, Fault, Total, platform
    <3>2. Cardinality(Summarising') <= Cardinality(Summarising) + 1
      BY <1>a, <2>1, OneMoreWriter
    <3> QED
      BY <1>a, <1>n, <1>i, <3>1, <3>2
  <2>5. CASE Drop(w) \/ DropBlindly(w) \/ PostBatch(w) \/ LoseBatch(w)
    <3>1. w \in Summarising
      BY <2>5 DEF Drop, DropBlindly, PostBatch, LoseBatch, Summarising
    <3>2. Total' = Total
      BY <2>5 DEF Drop, DropBlindly, PostBatch, LoseBatch, Total, platform
    <3> QED
      BY <1>b, <2>1, <3>1, <3>2
  <2>6. CASE PostSummary(w)
    <3>1. Total' = Total + 1
      <4>1. \/ full' = full + 1 /\ short' = short
            \/ full' = full /\ short' = short + 1
        BY <2>6 DEF PostSummary, AddSummary
      <4>2. CASE full' = full + 1 /\ short' = short
        BY <1>t, <4>2 DEF Total
      <4>3. CASE full' = full /\ short' = short + 1
        BY <1>t, <4>3 DEF Total
      <4> QED
        BY <4>1, <4>2, <4>3
    <3>2. w \in Summarising /\ w \notin Summarising'
      BY <2>6 DEF PostSummary, Goto, Summarising, TypeOK
    <3>3. Cardinality(Summarising') + 1 <= Cardinality(Summarising)
      BY <1>a, <2>1, <3>2, OneWriterLess
    <3> QED
      BY <1>a, <1>n, <1>i, <3>1, <3>3
  <2>7. CASE LoseSummary(w)
    <3>1. Total' = Total \/ Total' = Total + 1
      <4>1. \/ full' = full /\ short' = short
            \/ full' = full + 1 /\ short' = short
            \/ full' = full /\ short' = short + 1
        BY <2>7 DEF LoseSummary, AddSummary
      <4>2. CASE full' = full /\ short' = short
        BY <4>2 DEF Total
      <4>3. CASE full' = full + 1 /\ short' = short
        BY <1>t, <4>3 DEF Total
      <4>4. CASE full' = full /\ short' = short + 1
        BY <1>t, <4>4 DEF Total
      <4> QED
        BY <4>1, <4>2, <4>3, <4>4
    <3>2. w \in Summarising /\ faults' = faults + 1
      BY <2>7 DEF LoseSummary, Fault, Summarising
    <3>3. Cardinality(Summarising') <= Cardinality(Summarising)
      BY <1>a, <2>1, <3>2, FewerWriters
    <3> QED
      BY <1>a, <1>n, <1>i, <3>1, <3>2, <3>3
  <2> QED
    BY <1>1, <2>2, <2>3, <2>4, <2>5, <2>6, <2>7 DEF Write
<1>2. CASE ~\E w \in Writers : Write(w)
  <2>1. Summarising' \subseteq Summarising /\ Total' = Total
    BY <1>2, OtherSteps DEF Summarising, Total
  <2> QED
    BY <1>b, <2>1
<1> QED
  BY <1>1, <1>2

\* On a platform that lists the anchors of its comments, nothing is posted more
\* often than once and once for every failed call and every overlap.
THEOREM RepetitionsCorrect ==
  ASSUME HasAnchors
  PROVE  Spec => []RepetitionsHaveCauses
<1> DEFINE OnceInv == TypeOK /\ ActiveInv /\ CommentInv /\ SummaryInv
<1>1. Init => OnceInv
  <2> SUFFICES ASSUME Init
               PROVE  OnceInv
    OBVIOUS
  <2>1. TypeOK
    BY TypeInit, WritebackAssumption
  <2>2. Cardinality(Active) <= 1 + overlaps
    <3>1. Active \in SUBSET {Review}
      BY DEF Active, Init
    <3>2. {} \in SUBSET Writers /\ Review \in Writers
      BY DEF Writers
    <3>3. Active \in SUBSET ({} \cup {Review})
      BY <3>1
    <3>4. Cardinality(Active) <= Cardinality({}) + 1
      BY <3>2, <3>3, OneMoreWriter, WritebackAssumption
    <3>5. Cardinality({}) = 0 /\ overlaps = 0
      BY FS_EmptySet DEF Init
    <3>6. Cardinality(Active) \in Nat
      BY WritersFinite, WritebackAssumption DEF Active
    <3> QED
      BY <3>4, <3>5, <3>6
  <2>3. CommentInv
    <3>1. \A f \in Findings : Carrying(f) = {}
      BY DEF Carrying, Init
    <3>2. \A f \in Findings : inline[f] = 0
      BY DEF Init
    <3> QED
      BY <3>1, <3>2, FS_EmptySet DEF CommentInv, Init
  <2>4. SummaryInv
    <3>1. Summarising = {}
      BY DEF Summarising, Init
    <3> QED
      BY <3>1, FS_EmptySet DEF SummaryInv, Init
  <2> QED
    BY <2>1, <2>2, <2>3, <2>4 DEF ActiveInv
<1>2. OnceInv /\ [Next]_vars => OnceInv'
  <2> SUFFICES ASSUME OnceInv, [Next]_vars
               PROVE  OnceInv'
    OBVIOUS
  <2>1. TypeOK'
    BY TypeStep, WritebackAssumption
  <2>2. ActiveInv'
    BY <2>1, ActiveStep, WritebackAssumption
  <2>3. CommentInv'
    BY <2>1, <2>2, CommentStep, WritebackAssumption DEF CommentInv
  <2>4. SummaryInv'
    BY <2>1, <2>2, SummaryStep, WritebackAssumption
  <2> QED
    BY <2>1, <2>2, <2>3, <2>4
<1>3. OnceInv => RepetitionsHaveCauses
  <2> SUFFICES ASSUME OnceInv
               PROVE  RepetitionsHaveCauses
    OBVIOUS
  <2>1. faults \in Nat /\ overlaps \in Nat /\ full \in Nat /\ short \in Nat
    BY DEF TypeOK
  <2>2. ASSUME NEW f \in Findings
        PROVE  inline[f] <= 1 + faults + overlaps
    <3>1. Carrying(f) \in SUBSET Writers
      BY DEF Carrying
    <3>2. Cardinality(Carrying(f)) \in Nat
      BY <3>1, WritersFinite, WritebackAssumption
    <3>3. inline[f] \in Nat
      BY DEF TypeOK
    <3>4. inline[f] + Cardinality(Carrying(f)) <= 1 + faults + overlaps
      BY DEF CommentInv
    <3> QED
      BY <2>1, <3>2, <3>3, <3>4
  <2>3. full + short <= 1 + faults + overlaps
    <3>1. Summarising \in SUBSET Writers
      BY DEF Summarising
    <3>2. Cardinality(Summarising) \in Nat
      BY <3>1, WritersFinite, WritebackAssumption
    <3> QED
      BY <2>1, <3>2 DEF SummaryInv
  <2> QED
    BY <2>2, <2>3 DEF RepetitionsHaveCauses
<1> QED
  BY <1>1, <1>2, <1>3, PTL DEF Spec
=============================================================================
