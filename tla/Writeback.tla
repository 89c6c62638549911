------------------------------ MODULE Writeback ------------------------------
(***************************************************************************)
(* The write-back of one review to the platform: ResultWriter, its call at *)
(* the end of a review, and the redelivery of what was not delivered.      *)
(*                                                                         *)
(* The platform keeps what was posted: inline comments in atomic batches   *)
(* and, after them, a summary that carries the fingerprint.  Writers only  *)
(* know the platform through HTTP: a call may be rejected, it may be lost  *)
(* before it is applied, or its answer may be lost after it was applied.   *)
(* The first writer is the review's; redeliveries are background tasks     *)
(* that nothing keeps apart.                                               *)
(***************************************************************************)
EXTENDS Integers, FiniteSets, FiniteSetsExt

CONSTANTS
  Findings,        \* the findings of the review
  AnchorSets,      \* which of them a diff may have lines for: SUBSET SUBSET Findings
  BatchSize,       \* inline comments of one POST: GitHub 10, GitLab and Gitee 1
  HasAnchors,      \* TRUE: the platform lists inline anchors (GitHub)
  Retries,         \* ResultWriter(retries)
  Review,          \* the writer at the end of a review
  Redeliverers,    \* background redeliveries
  MaxFaults,       \* bound: network failures and failed look-ups
  MaxRejects,      \* bound: calls the platform rejects
  MaxRequests,     \* bound: redelivery requests
  MaxCrashes

Writers == {Review} \cup Redeliverers

ASSUME WritebackAssumption ==
  /\ IsFiniteSet(Findings) /\ IsFiniteSet(Redeliverers)
  /\ AnchorSets \subseteq SUBSET Findings /\ AnchorSets # {}
  /\ BatchSize \in Nat \ {0} /\ Retries \in Nat
  /\ HasAnchors \in BOOLEAN
  /\ Review \notin Redeliverers
  /\ MaxFaults \in Nat /\ MaxRejects \in Nat /\ MaxRequests \in Nat /\ MaxCrashes \in Nat

VARIABLES
  inline,     \* platform: how often each finding is posted as an inline comment
  full,       \* platform: summaries with the list of all findings
  short,      \* platform: summaries with the persisted text only
  row,        \* the review row: "running" or "completed"
  flag,       \* the row's writeback_failed
  wpc,        \* writer program counter
  pending,    \* the inline comments a writer has decided to post
  rest,       \* those of them its current attempt has still to post
  attempt,    \* failed attempts of its current _post
  faults, overlaps, rejects, requests, crashes

platform == <<inline, full, short>>
rowVars  == <<row, flag>>
postVars == <<pending, rest, attempt>>
counters == <<faults, overlaps, rejects, requests, crashes>>
vars == <<platform, rowVars, wpc, postVars, counters>>

-----------------------------------------------------------------------------
(* Helpers *)

Goto(w, pc) == wpc' = [wpc EXCEPT ![w] = pc]

Sentinel == full + short > 0

Active == {w \in Writers : wpc[w] # "idle"}

Fault  == faults < MaxFaults /\ faults' = faults + 1
NoFault == UNCHANGED faults

\* The next batch: as many of the remaining comments as one POST takes.
Batches(S) == kSubset(IF Cardinality(S) < BatchSize THEN Cardinality(S) ELSE BatchSize, S)

\* Mutant: one retry too many.
TryAgainOffByOne(w) == attempt[w] <= Retries

TryAgain(w) == attempt[w] < Retries

-----------------------------------------------------------------------------
(* ResultWriter.write *)

\* _already_delivered: a comment with the fingerprint means all was delivered.
Look(w) ==
  /\ wpc[w] = "look"
  /\ Goto(w, IF Sentinel THEN "ok" ELSE "drop")
  /\ UNCHANGED <<platform, rowVars, postVars, counters>>

\* list_comments that fails, or does not reach the comment, answers nothing.
LookBlindly(w) ==
  /\ wpc[w] = "look"
  /\ Fault
  /\ Goto(w, "drop")
  /\ UNCHANGED <<platform, rowVars, postVars, overlaps, rejects, requests, crashes>>

Pend(w, S) ==
  /\ pending' = [pending EXCEPT ![w] = S]
  /\ rest' = [rest EXCEPT ![w] = S]
  /\ attempt' = [attempt EXCEPT ![w] = 0]
  /\ Goto(w, IF S = {} THEN "summary" ELSE "inline")

\* Mutant: what is on the platform is not dropped.
DropNothing(w) ==
  /\ wpc[w] = "drop"
  /\ \E anchored \in AnchorSets : Pend(w, anchored)
  /\ UNCHANGED <<platform, rowVars, counters>>

\* partition_findings and _drop_delivered.
Drop(w) ==
  /\ wpc[w] = "drop"
  /\ \E anchored \in AnchorSets :
       Pend(w, {f \in anchored : ~HasAnchors \/ inline[f] = 0})
  /\ UNCHANGED <<platform, rowVars, counters>>

DropBlindly(w) ==
  /\ wpc[w] = "drop"
  /\ HasAnchors
  /\ Fault
  /\ \E anchored \in AnchorSets : Pend(w, anchored)
  /\ UNCHANGED <<platform, rowVars, overlaps, rejects, requests, crashes>>

Posted(B) == inline' = [f \in Findings |-> IF f \in B THEN inline[f] + 1 ELSE inline[f]]

\* One batch of post_inline.
PostBatch(w) ==
  /\ wpc[w] = "inline"
  /\ \E B \in Batches(rest[w]) :
       /\ Posted(B)
       /\ rest' = [rest EXCEPT ![w] = @ \ B]
       /\ IF rest[w] = B
          THEN Goto(w, "summary") /\ attempt' = [attempt EXCEPT ![w] = 0]
          ELSE UNCHANGED <<wpc, attempt>>
  /\ UNCHANGED <<full, short, rowVars, pending, counters>>

\* A TransportError: _post starts post_inline from its first batch again,
\* or gives up.
Restart(w) ==
  IF TryAgain(w)
  THEN /\ attempt' = [attempt EXCEPT ![w] = @ + 1]
       /\ rest' = [rest EXCEPT ![w] = pending[w]]
       /\ UNCHANGED wpc
  ELSE /\ Goto(w, "failed")
       /\ UNCHANGED <<attempt, rest>>

LoseBatch(w) ==
  /\ wpc[w] = "inline"
  /\ Fault
  /\ Restart(w)
  /\ \/ UNCHANGED inline                        \* the request was lost
     \/ \E B \in Batches(rest[w]) : Posted(B)    \* only the answer was
  /\ UNCHANGED <<full, short, rowVars, pending, overlaps, rejects, requests, crashes>>

AddSummary(w) == IF w = Review THEN full' = full + 1 /\ UNCHANGED short
                 ELSE short' = short + 1 /\ UNCHANGED full

PostSummary(w) ==
  /\ wpc[w] = "summary"
  /\ AddSummary(w)
  /\ Goto(w, "ok")
  /\ UNCHANGED <<inline, rowVars, postVars, counters>>

LoseSummary(w) ==
  /\ wpc[w] = "summary"
  /\ Fault
  /\ Restart(w)
  /\ UNCHANGED <<full, short>> \/ AddSummary(w)
  /\ UNCHANGED <<inline, rowVars, pending, overlaps, rejects, requests, crashes>>

\* HTTPStatusError, and any exception of the calls before the first POST.
Reject(w) ==
  /\ wpc[w] \in {"fetch", "inline", "summary"}
  /\ rejects < MaxRejects
  /\ rejects' = rejects + 1
  /\ Goto(w, "failed")
  /\ UNCHANGED <<platform, rowVars, postVars, faults, overlaps, requests, crashes>>

Write(w) == \/ Look(w) \/ LookBlindly(w) \/ Drop(w) \/ DropBlindly(w)
            \/ PostBatch(w) \/ LoseBatch(w) \/ PostSummary(w) \/ LoseSummary(w)
            \/ Reject(w)

-----------------------------------------------------------------------------
(* The end of a review *)

\* mark_state completed; writeback_failed is left as it is.
Complete ==
  /\ wpc[Review] \in {"ok", "marked"}
  /\ row' = "completed"
  /\ Goto(Review, "idle")
  /\ UNCHANGED <<platform, flag, postVars, counters>>

\* mark_writeback(True), then mark_state.
MarkFailed ==
  /\ wpc[Review] = "failed"
  /\ flag' = TRUE
  /\ Goto(Review, "marked")
  /\ UNCHANGED <<platform, row, postVars, counters>>

\* A restart: the row is still running, so the review is done again.
ReviewAgain ==
  /\ row = "running"
  /\ wpc[Review] = "idle"
  /\ Goto(Review, "look")
  /\ overlaps' = IF Active = {} THEN overlaps ELSE overlaps + 1
  /\ UNCHANGED <<platform, rowVars, postVars, faults, rejects, requests, crashes>>

-----------------------------------------------------------------------------
(* Redelivery *)

\* redeliver_task: only a row marked writeback_failed; then a background task.
Redeliver(w) ==
  /\ requests < MaxRequests
  /\ flag
  /\ wpc[w] = "idle"
  /\ requests' = requests + 1
  /\ Goto(w, "fetch")
  /\ overlaps' = IF Active = {} THEN overlaps ELSE overlaps + 1
  /\ UNCHANGED <<platform, rowVars, postVars, faults, rejects, crashes>>

Fetch(w) ==
  /\ wpc[w] = "fetch"
  /\ Goto(w, "look")
  /\ UNCHANGED <<platform, rowVars, postVars, counters>>

\* mark_writeback(False).
Redelivered(w) ==
  /\ wpc[w] = "ok"
  /\ flag' = FALSE
  /\ Goto(w, "idle")
  /\ UNCHANGED <<platform, row, postVars, counters>>

\* Mutant: a redelivery that failed takes the mark off, too.
RedeliveryFailedClears(w) ==
  /\ wpc[w] = "failed"
  /\ flag' = FALSE
  /\ Goto(w, "idle")
  /\ UNCHANGED <<platform, row, postVars, counters>>

RedeliveryFailed(w) ==
  /\ wpc[w] = "failed"
  /\ Goto(w, "idle")
  /\ UNCHANGED <<platform, rowVars, postVars, counters>>

Crash ==
  /\ crashes < MaxCrashes
  /\ crashes' = crashes + 1
  /\ wpc' = [w \in Writers |-> "idle"]
  /\ UNCHANGED <<platform, rowVars, postVars, faults, overlaps, rejects, requests>>

-----------------------------------------------------------------------------

Init ==
  /\ inline = [f \in Findings |-> 0]
  /\ full = 0 /\ short = 0
  /\ row = "running" /\ flag = FALSE
  /\ wpc = [w \in Writers |-> IF w = Review THEN "look" ELSE "idle"]
  /\ pending = [w \in Writers |-> {}]
  /\ rest = [w \in Writers |-> {}]
  /\ attempt = [w \in Writers |-> 0]
  /\ faults = 0 /\ overlaps = 0 /\ rejects = 0 /\ requests = 0 /\ crashes = 0

Next == \/ \E w \in Writers : Write(w)
        \/ Complete \/ MarkFailed \/ ReviewAgain
        \/ \E w \in Redeliverers :
             Redeliver(w) \/ Fetch(w) \/ Redelivered(w) \/ RedeliveryFailed(w)
        \/ Crash

Spec == Init /\ [][Next]_vars

-----------------------------------------------------------------------------
(* Properties *)

\* Types of the platform, the row and the writers.
TypeOK ==
  /\ inline \in [Findings -> Nat] /\ full \in Nat /\ short \in Nat
  /\ row \in {"running", "completed"} /\ flag \in BOOLEAN
  /\ wpc \in [Writers -> {"idle", "fetch", "look", "drop", "inline", "summary",
                          "ok", "failed", "marked"}]
  /\ pending \in [Writers -> SUBSET Findings]
  /\ rest \in [Writers -> SUBSET Findings]
  /\ attempt \in [Writers -> 0..Retries]
  /\ faults \in 0..MaxFaults /\ rejects \in 0..MaxRejects
  /\ requests \in 0..MaxRequests /\ crashes \in 0..MaxCrashes /\ overlaps \in Nat

\* Nothing is lost silently (result_writer.py:4-5): a completed row that does
\* not offer to redeliver has a summary on the platform, and every finding is
\* in it or in an inline comment, through crashes, failures and redeliveries.
Delivered ==
  row = "completed" /\ ~flag =>
    /\ Sentinel
    /\ \A f \in Findings : inline[f] > 0 \/ full > 0

\* On a platform that lists anchors, every repetition of a comment has a cause
\* that nobody can see from outside: a network failure, a look-up that failed,
\* or a redelivery that overlapped.  A rejected call, a crash, or a redelivery
\* after the fact repeats nothing.
RepetitionsHaveCauses ==
  /\ \A f \in Findings : inline[f] <= 1 + faults + overlaps
  /\ full + short <= 1 + faults + overlaps
=============================================================================
