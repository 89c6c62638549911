------------------------------ MODULE Findings ------------------------------
(***************************************************************************)
(* The findings of one merge request over several reviews: the rows of     *)
(* review_finding, the coverage snapshot of each review_task, and the      *)
(* reviewers that compare a new result with the earlier ones.              *)
(*                                                                         *)
(* A reviewer works on one head (the head lock lets no second one near it) *)
(* but several heads may be reviewed at once.  Every repository call is a  *)
(* transaction of its own, so a step each.  What the model of language     *)
(* says is any set of issues in the files under review.  The states before *)
(* the review (queue, gate, skips) are in MrTrack, the write-back is in    *)
(* Writeback.                                                              *)
(***************************************************************************)
EXTENDS Integers, Sequences, FiniteSets, SequencesExt

CONSTANTS
  Heads, Files,
  Issues,        \* finding fingerprints
  FileOf,        \* the file an issue is in
  Versions,      \* contents of a file, by hash
  Gone,          \* the file is deleted at that head: no new content
  Contents,      \* the diffs to consider: head -> file -> version
  Reviewers,
  None,
  ChainAnswers,  \* chain_valid: {FALSE} when nothing is passed for it
  Skips,         \* what the review may leave out: {FALSE} nothing, {TRUE, FALSE} any files
  MaxReviews, MaxFaults, MaxDeletes   \* bounds

ASSUME FindingsAssumption ==
  /\ FileOf \in [Issues -> Files] /\ IsFiniteSet(Issues)
  /\ Gone \in Versions
  /\ None \notin Heads \cup Versions
  /\ Contents \subseteq [Heads -> [Files -> Versions \cup {None}]]
  /\ ChainAnswers \subseteq BOOLEAN /\ ChainAnswers # {}
  /\ Skips \subseteq BOOLEAN /\ FALSE \in Skips
  /\ MaxReviews \in Nat /\ MaxFaults \in Nat /\ MaxDeletes \in Nat

VARIABLES
  content,  \* the diff of each head: version by file, None where untouched
  st,       \* state of the head's review_task, "none" when there is no row
  order,    \* the heads that have a row, by row id
  cover,    \* diff_snapshot: a set of <<file, version>>
  rows,     \* review_finding by row id: head of its task, issue, status, reopened
  pc, at,   \* a reviewer's program counter and head
  job,      \* its locals: ref, full, diffs, seen, found, skip
  alone,    \* ghost: no other write to the rows since this one's reconcile
  kept,     \* ghost: what the review whose coverage is stored had found
  reviews, faults, deletes

store  == <<st, order, cover, rows>>
local  == <<pc, at, job>>
ghosts == <<alone, kept>>
bounds == <<reviews, faults, deletes>>
vars   == <<content, store, local, ghosts, bounds>>

-----------------------------------------------------------------------------
(* What the tables say *)

Completed == {h \in Heads : st[h] = "completed"}

RowsOf(h)     == {k \in DOMAIN rows : rows[k].task = h}
ActiveIn(H)   == {rows[k].issue : k \in {j \in DOMAIN rows :
                    rows[j].task \in H /\ rows[j].status = "active"}}
IssuesOf(h)   == {rows[k].issue : k \in RowsOf(h)}

\* The completed task with the largest id, None when there is none.
Newest(H) ==
  IF H = {} THEN None
  ELSE CHOOSE h \in H : \E i \in DOMAIN order :
         order[i] = h /\ \A j \in DOMAIN order : order[j] \in H => j <= i

LastOk == Newest(Completed)

\* last_ok_review: head and fingerprints of the newest completed task.
Reference ==
  [head |-> LastOk, issues |-> IF LastOk = None THEN {} ELSE IssuesOf(LastOk)]

\* last_covered.
LastCovered == IF LastOk = None THEN {} ELSE cover[LastOk]

\* What is left of a row that was deleted: its id.
NoRow == [task |-> None, issue |-> None, status |-> "deleted", reopened |-> 0]

NoJob == [ref |-> [head |-> None, issues |-> {}], full |-> TRUE,
          diffs |-> {}, seen |-> {}, found |-> {}, skip |-> {}]

-----------------------------------------------------------------------------
(* A review *)

Goto(r, l) == pc' = [pc EXCEPT ![r] = l]
Set(r, rec) == job' = [job EXCEPT ![r] = rec]

\* Any write to the tables other than r's own.
Disturb(r) == alone' = [q \in Reviewers |-> alone[q] /\ q = r]

Leave(r) == /\ pc' = [pc EXCEPT ![r] = "idle"]
            /\ at' = [at EXCEPT ![r] = None]
            /\ Set(r, NoJob)

\* last_ok_review, decide_from_ref: nothing is done for the head reviewed
\* last; in doubt about the chain of commits the review is a full one.
Decide(r, h) ==
  /\ reviews < MaxReviews
  /\ pc[r] = "idle"
  /\ \A q \in Reviewers : at[q] # h
  /\ Reference.head # h
  /\ \E valid \in ChainAnswers :
       Set(r, [NoJob EXCEPT !.ref = Reference,
                            !.full = Reference.head = None \/ ~valid])
  /\ at' = [at EXCEPT ![r] = h]
  /\ Goto(r, "claim")
  /\ reviews' = reviews + 1
  /\ UNCHANGED <<content, store, ghosts, faults, deletes>>

\* ensure_task and the mark "running".
Claim(r) ==
  LET h == at[r] IN
  /\ pc[r] = "claim"
  /\ st' = [st EXCEPT ![h] = "running"]
  /\ order' = IF st[h] = "none" THEN Append(order, h) ELSE order
  /\ Goto(r, "fetch")
  /\ alone' = [q \in Reviewers |-> FALSE]
  /\ UNCHANGED <<content, cover, rows, at, job, kept, bounds>>

Diff(h) == {f \in Files : content[h][f] # None}

\* prune_unchanged: an incremental round skips what the newest completed
\* review covered with the same content.  A deleted file has no hash.
UnchangedSince(r) ==
  {f \in Diff(at[r]) : ~job[r].full /\ content[at[r]][f] # Gone
                       /\ <<f, content[at[r]][f]>> \in LastCovered}

Fetch(r) ==
  LET diffs == Diff(at[r]) \ UnchangedSince(r) IN
  /\ pc[r] = "fetch"
  /\ diffs # {}
  /\ Set(r, [job[r] EXCEPT !.diffs = diffs])
  /\ Goto(r, "review")
  /\ UNCHANGED <<content, store, at, ghosts, bounds>>

\* mark_state: silently nothing when the row has been deleted meanwhile.
Mark(h, s) == st' = IF st[h] = "none" THEN st ELSE [st EXCEPT ![h] = s]

\* Nothing left to review: completed at once, the old snapshot stays.
FetchNothing(r) ==
  /\ pc[r] = "fetch"
  /\ Diff(at[r]) \ UnchangedSince(r) = {}
  /\ Mark(at[r], "completed")
  /\ Leave(r)
  /\ Disturb(r)
  /\ UNCHANGED <<content, order, cover, rows, kept, bounds>>

\* The files the review gets to: it lists the others in skipped_files (too
\* large, out of time) and goes on without them.
Reached(r, skips) == IF skips THEN SUBSET job[r].diffs ELSE {job[r].diffs}

\* The review itself; an incremental round drops what its reference holds.
Review(r) ==
  /\ pc[r] = "review"
  /\ \E skips \in Skips : \E seen \in Reached(r, skips) :
     \E said \in SUBSET {i \in Issues : FileOf[i] \in seen} :
       Set(r, [job[r] EXCEPT
                !.seen = seen,
                !.found = IF job[r].full THEN said ELSE said \ job[r].ref.issues])
  /\ Goto(r, IF job[r].full /\ job[r].ref.head # None THEN "reconcile" ELSE "insert")
  /\ UNCHANGED <<content, store, at, ghosts, bounds>>

\* Mutant: the rows of files outside the round are compared, too.
ComparedEverywhere(r) == {k \in DOMAIN rows : rows[k].task \in Completed \ {at[r]}}

\* Mutant: only the rows of the reference task are compared.
ComparedWithReference(r) ==
  {k \in DOMAIN rows : /\ rows[k].task = job[r].ref.head
                       /\ FileOf[rows[k].issue] \in job[r].diffs}

\* The rows reconcile_findings looks at: of the other completed tasks, in
\* files of this round.
Compared(r) == {k \in DOMAIN rows : /\ rows[k].task \in Completed \ {at[r]}
                                    /\ FileOf[rows[k].issue] \in job[r].diffs}

\* Mutant: what comes back is not brought back.
ReconciledNoReopen(r, k) ==
  IF k \notin Compared(r) \/ rows[k].issue \in job[r].found THEN rows[k]
  ELSE [rows[k] EXCEPT !.status = "resolved"]

\* Absent and active becomes resolved, present and resolved becomes active.
Reconciled(r, k) ==
  IF k \notin Compared(r) THEN rows[k]
  ELSE IF rows[k].issue \in job[r].found
  THEN IF rows[k].status = "active" THEN rows[k]
       ELSE [rows[k] EXCEPT !.status = "active", !.reopened = @ + 1]
  ELSE [rows[k] EXCEPT !.status = "resolved"]

Reopened(r) == {rows[k].issue : k \in {j \in Compared(r) :
                  rows[j].status = "resolved" /\ rows[j].issue \in job[r].found}}

Reconcile(r) ==
  /\ pc[r] = "reconcile"
  /\ rows' = [k \in DOMAIN rows |-> Reconciled(r, k)]
  /\ Set(r, [job[r] EXCEPT !.skip = Reopened(r)])
  /\ Goto(r, "insert")
  /\ alone' = [q \in Reviewers |-> q = r]
  /\ UNCHANGED <<content, st, order, cover, at, kept, bounds>>

NewRows(r) ==
  LET h == at[r] IN
  [n \in 1..Cardinality(job[r].found \ job[r].skip) |->
     [task |-> h, issue |-> SetToSeq(job[r].found \ job[r].skip)[n],
      status |-> "active", reopened |-> 0]]

\* insert_findings; the reopened ones keep their old row.
Insert(r) ==
  /\ pc[r] = "insert"
  /\ st[at[r]] # "none" \/ NewRows(r) = <<>>
  /\ rows' = rows \o NewRows(r)
  /\ Goto(r, "cover")
  /\ Disturb(r)
  /\ UNCHANGED <<content, st, order, cover, at, job, kept, bounds>>

\* covered_file_map: the files that have new content.
Covered(r) == {<<f, content[at[r]][f]>> : f \in {g \in job[r].diffs :
                                              content[at[r]][g] # Gone}}

\* set_coverage, set_exec_metrics.
Cover(r) ==
  LET h == at[r] IN
  /\ pc[r] = "cover"
  /\ IF st[h] = "none" THEN UNCHANGED <<cover, kept>>
     ELSE /\ cover' = [cover EXCEPT ![h] = Covered(r)]
          /\ kept' = [kept EXCEPT ![h] = job[r].found]
  /\ Goto(r, "writeback")
  /\ UNCHANGED <<content, st, order, rows, at, job, alone, bounds>>

\* Written back or not, the row ends completed.
Complete(r) ==
  /\ pc[r] = "writeback"
  /\ Mark(at[r], "completed")
  /\ Leave(r)
  /\ Disturb(r)
  /\ UNCHANGED <<content, order, cover, rows, kept, bounds>>

\* An exception anywhere, or insert_findings refused by the foreign key.
Fail(r) ==
  /\ \/ /\ pc[r] \in {"fetch", "review", "reconcile", "insert", "cover"}
        /\ faults < MaxFaults
        /\ faults' = faults + 1
     \/ /\ pc[r] = "insert" /\ st[at[r]] = "none" /\ NewRows(r) # <<>>
        /\ UNCHANGED faults
  /\ Mark(at[r], "failed")
  /\ Leave(r)
  /\ Disturb(r)
  /\ UNCHANGED <<content, order, cover, rows, kept, reviews, deletes>>

\* The process dies; pending_for_replay turns running rows into queued ones.
Crash ==
  /\ faults < MaxFaults
  /\ \E r \in Reviewers : pc[r] # "idle"
  /\ faults' = faults + 1
  /\ st' = [h \in Heads |-> IF st[h] = "running" THEN "queued" ELSE st[h]]
  /\ pc' = [r \in Reviewers |-> "idle"]
  /\ at' = [r \in Reviewers |-> None]
  /\ job' = [r \in Reviewers |-> NoJob]
  /\ alone' = [r \in Reviewers |-> FALSE]
  /\ UNCHANGED <<content, order, cover, rows, kept, reviews, deletes>>

\* delete_review, batch_delete_reviews: the findings go with the task.
Delete(h) ==
  /\ deletes < MaxDeletes
  /\ st[h] # "none"
  /\ deletes' = deletes + 1
  /\ st' = [st EXCEPT ![h] = "none"]
  /\ order' = Remove(order, h)
  /\ cover' = [cover EXCEPT ![h] = {}]
  /\ kept' = [kept EXCEPT ![h] = {}]
  /\ rows' = [k \in DOMAIN rows |-> IF rows[k].task = h THEN NoRow ELSE rows[k]]
  /\ alone' = [r \in Reviewers |-> FALSE]
  /\ UNCHANGED <<content, local, reviews, faults>>

Init ==
  /\ content \in Contents
  /\ st = [h \in Heads |-> "none"]
  /\ order = <<>>
  /\ cover = [h \in Heads |-> {}]
  /\ rows = <<>>
  /\ pc = [r \in Reviewers |-> "idle"]
  /\ at = [r \in Reviewers |-> None]
  /\ job = [r \in Reviewers |-> NoJob]
  /\ alone = [r \in Reviewers |-> FALSE]
  /\ kept = [h \in Heads |-> {}]
  /\ reviews = 0 /\ faults = 0 /\ deletes = 0

Step(r) == \/ Claim(r) \/ Fetch(r) \/ FetchNothing(r) \/ Review(r)
           \/ Reconcile(r) \/ Insert(r) \/ Cover(r) \/ Complete(r) \/ Fail(r)

Next == \/ \E r \in Reviewers : Step(r) \/ \E h \in Heads : Decide(r, h)
        \/ Crash
        \/ \E h \in Heads : Delete(h)

Spec == Init /\ [][Next]_vars

-----------------------------------------------------------------------------
(* Properties *)

\* After a full round nobody interfered with, every finding of the round is
\* open: in a row of its own, or in the older row it was brought back in
\* (reconcile_findings hands insert_findings what to leave out).
ReportedIsOpen ==
  \A r \in Reviewers :
    pc[r] = "writeback" /\ alone[r] => job[r].found \subseteq ActiveIn(Heads)

\* ... and what it did not find any more in the files it covered is closed in
\* every other completed task, while files it did not cover are left alone.
GoneIsClosed ==
  \A r \in Reviewers :
    pc[r] = "insert" /\ alone[r] =>
      \A i \in ActiveIn(Completed \ {at[r]}) :
        FileOf[i] \in job[r].diffs => i \in job[r].found

\* Nothing closes a finding in a file outside the round.
OnlyCoveredClosed ==
  [][\A r \in Reviewers : pc[r] = "reconcile" /\ pc'[r] = "insert" =>
       \A i \in ActiveIn(Heads) :
         FileOf[i] \notin job[r].diffs => i \in ActiveIn(Heads)']_vars

\* What a later round leaves out because a stored coverage says the file has
\* been reviewed as it is has its findings on record: coverage never gets
\* ahead of the findings, whatever fails or crashes in between.
CoveredIsRecorded ==
  deletes = 0 => \A h \in Heads :
    kept[h] \subseteq UNION {IssuesOf(g) : g \in Heads}

\* A finding of a round is kept: open after it, and on record before the
\* coverage says that its file needs no other look.
FindingsKept == ReportedIsOpen /\ CoveredIsRecorded
=============================================================================
