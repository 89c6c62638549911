-------------------------- MODULE Findings_proofs --------------------------
(***************************************************************************)
(* What Findings promises for any number of heads, files, issues,          *)
(* reviewers, reviews, failures and deletions.                             *)
(***************************************************************************)
EXTENDS Findings, FiniteSetTheorems, SequenceTheorems, TLAPS

-----------------------------------------------------------------------------
(* Types *)

States == {"none", "queued", "running", "completed", "failed"}
Stages == {"idle", "claim", "fetch", "review", "reconcile", "insert", "cover", "writeback"}

Row == [task : Heads \cup {None}, issue : Issues \cup {None},
        status : {"active", "resolved", "deleted"}, reopened : Nat]

\* The locals of a reviewer; what the reference is does not matter here.
JobLike(j) ==
  \E ref : j \in [ref : {ref}, full : BOOLEAN, diffs : SUBSET Files, seen : SUBSET Files,
                  found : SUBSET Issues, skip : SUBSET Issues]

\* Types, and that a reviewer at work has a head.
TypeInv ==
  /\ content \in [Heads -> [Files -> Versions \cup {None}]]
  /\ st \in [Heads -> States]
  /\ rows \in Seq(Row)
  /\ pc \in [Reviewers -> Stages]
  /\ at \in [Reviewers -> Heads \cup {None}]
  /\ job = [r \in Reviewers |-> job[r]] /\ \A r \in Reviewers : JobLike(job[r])
  /\ alone \in [Reviewers -> BOOLEAN]
  /\ kept \in [Heads -> SUBSET Issues]
  /\ deletes \in Nat
  /\ \A r \in Reviewers : pc[r] # "idle" => at[r] \in Heads

\* A finite set is enumerated without gaps.
LEMMA Enumerated ==
  ASSUME NEW S, IsFiniteSet(S)
  PROVE  /\ Cardinality(S) \in Nat
         /\ SetToSeq(S) \in [1..Cardinality(S) -> S]
         /\ \A x \in S : \E n \in 1..Cardinality(S) : SetToSeq(S)[n] = x
<1> DEFINE n == Cardinality(S)
<1>1. n \in Nat /\ ExistsBijection(1..n, S)
  BY FS_CardinalityType
<1>2. \E f \in [1..n -> S] : IsInjective(f)
  BY <1>1 DEF ExistsBijection, Bijection, Injection
<1>3. SetToSeq(S) \in [1..n -> S] /\ IsInjective(SetToSeq(S))
  BY <1>2 DEF SetToSeq
<1>4. SetToSeq(S) \in Injection(1..n, S)
  BY <1>3 DEF Injection
<1>5. IsFiniteSet(1..n) /\ Cardinality(1..n) = n
  BY <1>1, FS_Interval
<1>6. SetToSeq(S) \in Surjection(1..n, S)
  BY <1>4, <1>5, FS_Injection
<1> QED
  BY <1>1, <1>3, <1>6 DEF Surjection

\* insert_findings writes one active row for each finding that is not to be
\* left out, in the task of the head.
LEMMA NewRowsAre ==
  ASSUME TypeInv, NEW r \in Reviewers, pc[r] = "insert"
  PROVE  /\ NewRows(r) \in Seq(Row)
         /\ \A n \in 1..Len(NewRows(r)) : /\ NewRows(r)[n].task = at[r]
                                          /\ NewRows(r)[n].status = "active"
         /\ \A i \in job[r].found \ job[r].skip :
              \E n \in 1..Len(NewRows(r)) : NewRows(r)[n].issue = i
<1> DEFINE S == job[r].found \ job[r].skip
<1>1. S \subseteq Issues
  BY DEF TypeInv, JobLike
<1>2. IsFiniteSet(S)
  BY <1>1, FS_Subset, FindingsAssumption
<1>3. /\ Cardinality(S) \in Nat
      /\ SetToSeq(S) \in [1..Cardinality(S) -> S]
      /\ \A x \in S : \E n \in 1..Cardinality(S) : SetToSeq(S)[n] = x
  BY <1>2, Enumerated
<1>4. at[r] \in Heads
  BY DEF TypeInv
<1> DEFINE row(n) == [task |-> at[r], issue |-> SetToSeq(S)[n], status |-> "active", reopened |-> 0]
<1>5. \A n \in 1..Cardinality(S) : row(n) \in Row
  BY <1>1, <1>3, <1>4 DEF Row
<1>6. NewRows(r) = [n \in 1..Cardinality(S) |-> row(n)]
  BY DEF NewRows
<1> HIDE DEF S
<1>7. NewRows(r) \in Seq(Row) /\ Len(NewRows(r)) = Cardinality(S)
  BY <1>3, <1>5, <1>6, IsASeq
<1>8. \A n \in 1..Len(NewRows(r)) : NewRows(r)[n] = row(n)
  BY <1>6, <1>7
<1>9. \A i \in S : \E n \in 1..Len(NewRows(r)) : NewRows(r)[n].issue = i
  BY <1>3, <1>7, <1>8
<1>10. \A n \in 1..Len(NewRows(r)) : NewRows(r)[n].task = at[r] /\ NewRows(r)[n].status = "active"
  <2> TAKE n \in 1..Len(NewRows(r))
  <2>1. NewRows(r)[n] = row(n)
    BY <1>8
  <2>2. row(n).task = at[r] /\ row(n).status = "active"
    OBVIOUS
  <2> QED
    BY <2>1, <2>2
<1> QED
  BY <1>7, <1>9, <1>10 DEF S

\* The locals after an assignment to some of them.
LEMMA SetType ==
  ASSUME TypeInv, NEW r \in Reviewers, NEW j, JobLike(j), Set(r, j)
  PROVE  /\ job' = [q \in Reviewers |-> job'[q]]
         /\ \A q \in Reviewers : JobLike(job'[q])
         /\ job'[r] = j
         /\ \A q \in Reviewers \ {r} : job'[q] = job[q]
  BY DEF TypeInv, Set

\* The job of an idle worker is like any job.
LEMMA NoJobType == JobLike(NoJob)
<1> DEFINE ref == [head |-> None, issues |-> {}]
<1>1. NoJob \in [ref : {ref}, full : BOOLEAN, diffs : SUBSET Files, seen : SUBSET Files,
                 found : SUBSET Issues, skip : SUBSET Issues]
  BY DEF NoJob
<1> QED
  BY <1>1 DEF JobLike

\* reconcile_findings changes the status of rows and nothing else.
LEMMA ReconciledRow ==
  ASSUME TypeInv, NEW r \in Reviewers, NEW k \in DOMAIN rows
  PROVE  /\ Reconciled(r, k) \in Row
         /\ Reconciled(r, k).task = rows[k].task
         /\ Reconciled(r, k).issue = rows[k].issue
         /\ k \notin Compared(r) => Reconciled(r, k) = rows[k]
         /\ k \in Compared(r) => (Reconciled(r, k).status = "active" <=> rows[k].issue \in job[r].found)
<1>1. rows[k] \in Row
  BY DEF TypeInv
<1>2. CASE k \notin Compared(r)
  BY <1>1, <1>2 DEF Reconciled
<1>3. CASE k \in Compared(r) /\ rows[k].issue \in job[r].found /\ rows[k].status = "active"
  BY <1>1, <1>3 DEF Reconciled
<1>4. CASE k \in Compared(r) /\ rows[k].issue \in job[r].found /\ rows[k].status # "active"
  <2>1. Reconciled(r, k) = [rows[k] EXCEPT !.status = "active", !.reopened = rows[k].reopened + 1]
    BY <1>4 DEF Reconciled
  <2>2. rows[k].reopened + 1 \in Nat
    BY <1>1 DEF Row
  <2> DEFINE n == rows[k].reopened + 1
  <2> HIDE DEF n
  <2>3. n \in Nat /\ Reconciled(r, k) = [rows[k] EXCEPT !.status = "active", !.reopened = n]
    BY <2>1, <2>2 DEF n
  <2> QED
    BY <1>1, <1>4, <2>3 DEF Row
<1>5. CASE k \in Compared(r) /\ rows[k].issue \notin job[r].found
  BY <1>1, <1>5 DEF Reconciled, Row
<1> QED
  BY <1>2, <1>3, <1>4, <1>5

\* Leaving forgets the head and the locals.
LEMMA LeaveType ==
  ASSUME TypeInv, NEW r \in Reviewers, Leave(r)
  PROVE  /\ pc' = [pc EXCEPT ![r] = "idle"]
         /\ pc' \in [Reviewers -> Stages]
         /\ at' \in [Reviewers -> Heads \cup {None}]
         /\ job' = [q \in Reviewers |-> job'[q]] /\ \A q \in Reviewers : JobLike(job'[q])
         /\ \A q \in Reviewers : pc'[q] # "idle" => at'[q] \in Heads
<1>1. Set(r, NoJob)
  BY DEF Leave
<1>2. job' = [q \in Reviewers |-> job'[q]] /\ \A q \in Reviewers : JobLike(job'[q])
  BY <1>1, SetType, NoJobType
<1> QED
  BY <1>2 DEF Leave, TypeInv, Stages

\* What the mark of a review writes keeps the types.
LEMMA MarkType ==
  ASSUME TypeInv, NEW r \in Reviewers, NEW s \in States, Mark(at[r], s), pc[r] # "idle"
  PROVE  st' \in [Heads -> States]
  BY DEF TypeInv, Mark

\* The review notes the files it got to and what it found.
LEMMA ReviewedJob ==
  ASSUME TypeInv, NEW r \in Reviewers, Review(r)
  PROVE  \E seen \in SUBSET Files : \E found \in SUBSET Issues :
           Set(r, [job[r] EXCEPT !.seen = seen, !.found = found])
<1>1. PICK skips \in Skips : \E seen \in Reached(r, skips) :
        \E said \in SUBSET {i \in Issues : FileOf[i] \in seen} :
          Set(r, [job[r] EXCEPT !.seen = seen,
                    !.found = IF job[r].full THEN said ELSE said \ job[r].ref.issues])
  BY DEF Review
<1>2. PICK seen \in Reached(r, skips) :
        \E said \in SUBSET {i \in Issues : FileOf[i] \in seen} :
          Set(r, [job[r] EXCEPT !.seen = seen,
                    !.found = IF job[r].full THEN said ELSE said \ job[r].ref.issues])
  BY <1>1
<1>3. PICK said \in SUBSET {i \in Issues : FileOf[i] \in seen} :
          Set(r, [job[r] EXCEPT !.seen = seen,
                    !.found = IF job[r].full THEN said ELSE said \ job[r].ref.issues])
  BY <1>2
<1> DEFINE found == IF job[r].full THEN said ELSE said \ job[r].ref.issues
<1>4. seen \in SUBSET Files /\ found \in SUBSET Issues
  BY <1>2 DEF Reached, TypeInv, JobLike
<1> QED
  BY <1>3, <1>4

\* Every step keeps the types.
LEMMA TypeStep ==
  ASSUME TypeInv, [Next]_vars
  PROVE  TypeInv'
<1> USE DEF store, local, ghosts, bounds
<1>1. ASSUME NEW r \in Reviewers, NEW h \in Heads, Decide(r, h)
      PROVE  TypeInv'
  <2>1. PICK valid \in ChainAnswers :
          Set(r, [NoJob EXCEPT !.ref = Reference, !.full = Reference.head = None \/ ~valid])
    BY <1>1 DEF Decide
  <2> DEFINE j == [NoJob EXCEPT !.ref = Reference, !.full = Reference.head = None \/ ~valid]
  <2>2. j \in [ref : {Reference}, full : BOOLEAN, diffs : SUBSET Files, seen : SUBSET Files,
               found : SUBSET Issues, skip : SUBSET Issues]
    BY DEF NoJob
  <2>3. JobLike(j)
    BY <2>2 DEF JobLike
  <2>4. job' = [q \in Reviewers |-> job'[q]] /\ \A q \in Reviewers : JobLike(job'[q])
    BY <2>1, <2>3, SetType
  <2> QED
    BY <1>1, <2>4 DEF Decide, Goto, TypeInv, Stages
<1>2. ASSUME NEW r \in Reviewers, Claim(r)
      PROVE  TypeInv'
  BY <1>2 DEF Claim, Goto, TypeInv, Stages, States
<1>3. ASSUME NEW r \in Reviewers, Fetch(r)
      PROVE  TypeInv'
  <2> DEFINE diffs == Diff(at[r]) \ UnchangedSince(r)
             j == [job[r] EXCEPT !.diffs = diffs]
  <2>1. diffs \subseteq Files
    BY DEF Diff
  <2>2. JobLike(j)
    BY <2>1 DEF TypeInv, JobLike
  <2>3. Set(r, j)
    BY <1>3 DEF Fetch
  <2>4. job' = [q \in Reviewers |-> job'[q]] /\ \A q \in Reviewers : JobLike(job'[q])
    BY <2>2, <2>3, SetType
  <2> QED
    BY <1>3, <2>4 DEF Fetch, Goto, TypeInv, Stages
<1>4. ASSUME NEW r \in Reviewers, FetchNothing(r)
      PROVE  TypeInv'
  <2>1. Leave(r) /\ Mark(at[r], "completed") /\ "completed" \in States /\ pc[r] # "idle"
    BY <1>4 DEF FetchNothing, States
  <2> QED
    BY <1>4, <2>1, LeaveType, MarkType DEF FetchNothing, Disturb, TypeInv
<1>5. ASSUME NEW r \in Reviewers, Review(r)
      PROVE  TypeInv'
  <2>1. PICK seen \in SUBSET Files : \E found \in SUBSET Issues :
          Set(r, [job[r] EXCEPT !.seen = seen, !.found = found])
    BY <1>5, ReviewedJob
  <2>2. PICK found \in SUBSET Issues : Set(r, [job[r] EXCEPT !.seen = seen, !.found = found])
    BY <2>1
  <2> DEFINE j == [job[r] EXCEPT !.seen = seen, !.found = found]
  <2>3. JobLike(j)
    BY DEF TypeInv, JobLike
  <2>4. job' = [q \in Reviewers |-> job'[q]] /\ \A q \in Reviewers : JobLike(job'[q])
    BY <2>2, <2>3, SetType
  <2>5. pc' \in [Reviewers -> Stages]
    BY <1>5 DEF Review, Goto, TypeInv, Stages
  <2>6. \A q \in Reviewers : pc'[q] # "idle" => at'[q] \in Heads
    BY <1>5 DEF Review, Goto, TypeInv
  <2> QED
    BY <1>5, <2>4, <2>5, <2>6 DEF Review, TypeInv
<1>6. ASSUME NEW r \in Reviewers, Reconcile(r)
      PROVE  TypeInv'
  <2> DEFINE j == [job[r] EXCEPT !.skip = Reopened(r)]
  <2>1. Reopened(r) \subseteq Issues
    BY DEF Reopened, TypeInv, JobLike
  <2>2. JobLike(j)
    BY <2>1 DEF TypeInv, JobLike
  <2>3. job' = [q \in Reviewers |-> job'[q]] /\ \A q \in Reviewers : JobLike(job'[q])
    BY <1>6, <2>2, SetType DEF Reconcile
  <2>4. rows' \in Seq(Row)
    <3>1. rows' = [k \in 1..Len(rows) |-> Reconciled(r, k)] /\ Len(rows) \in Nat
      BY <1>6 DEF Reconcile, TypeInv
    <3>2. \A k \in 1..Len(rows) : Reconciled(r, k) \in Row
      BY ReconciledRow DEF TypeInv
    <3> QED
      BY <3>1, <3>2, IsASeq
  <2> QED
    BY <1>6, <2>3, <2>4 DEF Reconcile, Goto, TypeInv, Stages
<1>7. ASSUME NEW r \in Reviewers, Insert(r)
      PROVE  TypeInv'
  <2>1. rows' \in Seq(Row)
    BY <1>7, NewRowsAre, ConcatProperties DEF Insert, TypeInv
  <2> QED
    BY <1>7, <2>1 DEF Insert, Disturb, Goto, TypeInv, Stages
<1>8. ASSUME NEW r \in Reviewers, Cover(r)
      PROVE  TypeInv'
  <2>1. kept' \in [Heads -> SUBSET Issues]
    BY <1>8 DEF Cover, TypeInv, JobLike
  <2> QED
    BY <1>8, <2>1 DEF Cover, Goto, TypeInv, Stages
<1>9. ASSUME NEW r \in Reviewers, Complete(r)
      PROVE  TypeInv'
  <2>1. Leave(r) /\ Mark(at[r], "completed") /\ "completed" \in States /\ pc[r] # "idle"
    BY <1>9 DEF Complete, States
  <2> QED
    BY <1>9, <2>1, LeaveType, MarkType DEF Complete, Disturb, TypeInv
<1>10. ASSUME NEW r \in Reviewers, Fail(r)
       PROVE  TypeInv'
  <2>1. Leave(r) /\ Mark(at[r], "failed") /\ "failed" \in States /\ pc[r] # "idle"
    BY <1>10 DEF Fail, States
  <2> QED
    BY <1>10, <2>1, LeaveType, MarkType DEF Fail, Disturb, TypeInv
<1>11. CASE Crash
  <2>1. st' \in [Heads -> States]
    BY <1>11 DEF Crash, TypeInv, States
  <2> QED
    BY <1>11, <2>1, NoJobType DEF Crash, TypeInv, Stages
<1>12. ASSUME NEW h \in Heads, Delete(h)
       PROVE  TypeInv'
  <2>1. NoRow \in Row
    BY DEF NoRow, Row
  <2>2. rows' \in Seq(Row)
    <3>1. rows' = [k \in 1..Len(rows) |-> IF rows[k].task = h THEN NoRow ELSE rows[k]]
          /\ Len(rows) \in Nat
      BY <1>12 DEF Delete, TypeInv
    <3>2. \A k \in 1..Len(rows) : (IF rows[k].task = h THEN NoRow ELSE rows[k]) \in Row
      BY <2>1 DEF TypeInv
    <3> QED
      BY <3>1, <3>2, IsASeq
  <2> QED
    BY <1>12, <2>2 DEF Delete, TypeInv, States
<1>13. CASE UNCHANGED vars
  BY <1>13 DEF vars, TypeInv
<1> QED
  BY <1>1, <1>2, <1>3, <1>4, <1>5, <1>6, <1>7, <1>8, <1>9, <1>10, <1>11, <1>12, <1>13
     DEF Next, Step

\* The types hold at the start.
LEMMA TypeInit == Init => TypeInv
  BY NoJobType, FindingsAssumption DEF Init, TypeInv, States, Stages

\* Rows, coverage and the locals of the reviewers keep their types.
THEOREM TypesCorrect == Spec => []TypeInv
  BY TypeInit, TypeStep, PTL DEF Spec
-----------------------------------------------------------------------------
(* What a reviewer relies on between its steps *)

OnRecord == UNION {IssuesOf(g) : g \in Heads}

\* Claiming the task wrote to the tables: before its own reconcile nobody is
\* alone, and nothing is to be left out.
Fresh ==
  \A r \in Reviewers :
    /\ pc[r] \in {"fetch", "review", "reconcile"} => ~alone[r]
    /\ pc[r] \in {"claim", "fetch", "review", "reconcile"} => job[r].skip = {}

\* What insert_findings leaves out is open already; once it has run, all the
\* findings are.
Open ==
  \A r \in Reviewers : alone[r] =>
    /\ pc[r] = "insert" => job[r].skip \subseteq ActiveIn(Heads)
    /\ pc[r] \in {"cover", "writeback"} => job[r].found \subseteq ActiveIn(Heads)

\* ... and has a row, whoever wrote in between, as long as none is deleted.
Recorded ==
  deletes = 0 =>
    /\ \A r \in Reviewers :
         /\ pc[r] = "insert" => job[r].skip \subseteq OnRecord
         /\ pc[r] = "cover" => job[r].found \subseteq OnRecord
    /\ \A h \in Heads : kept[h] \subseteq OnRecord

IInv == TypeInv /\ Fresh /\ Open /\ Recorded /\ GoneIsClosed
\* A step of others leaves r where it was, and r is alone afterwards only if
\* it was before and the step wrote nothing to rows and states.
LEMMA OthersStep ==
  ASSUME TypeInv, NEW r \in Reviewers, [Next]_vars,
         ~Step(r), ~Crash, \A h \in Heads : ~Decide(r, h)
  PROVE  /\ pc'[r] = pc[r] /\ at'[r] = at[r] /\ job'[r] = job[r]
         /\ alone'[r] => alone[r] /\ st' = st /\ rows' = rows
<1> USE DEF store, local, ghosts, bounds
<1>1. ASSUME NEW q \in Reviewers \ {r}, NEW h \in Heads, Decide(q, h)
      PROVE  /\ pc'[r] = pc[r] /\ at'[r] = at[r] /\ job'[r] = job[r]
             /\ alone'[r] => alone[r] /\ st' = st /\ rows' = rows
  BY <1>1 DEF Decide, Set, Goto, TypeInv
<1>2. ASSUME NEW q \in Reviewers \ {r}, Step(q)
      PROVE  /\ pc'[r] = pc[r] /\ at'[r] = at[r] /\ job'[r] = job[r]
             /\ alone'[r] => alone[r] /\ st' = st /\ rows' = rows
  <2>1. CASE Claim(q)
    BY <2>1 DEF Claim, Goto, TypeInv
  <2>2. CASE Fetch(q) \/ Review(q)
    BY <2>2 DEF Fetch, Review, Goto, Set, TypeInv
  <2>3. CASE FetchNothing(q) \/ Complete(q) \/ Fail(q)
    BY <2>3 DEF FetchNothing, Complete, Fail, Leave, Disturb, Set, TypeInv
  <2>4. CASE Reconcile(q)
    BY <2>4 DEF Reconcile, Goto, Set, TypeInv
  <2>5. CASE Insert(q) \/ Cover(q)
    BY <2>5 DEF Insert, Cover, Goto, Disturb, TypeInv
  <2> QED
    BY <1>2, <2>1, <2>2, <2>3, <2>4, <2>5 DEF Step
<1>3. ASSUME NEW h \in Heads, Delete(h)
      PROVE  pc'[r] = pc[r] /\ at'[r] = at[r] /\ job'[r] = job[r] /\ ~alone'[r]
  BY <1>3 DEF Delete
<1> QED
  BY <1>1, <1>2, <1>3 DEF Next, vars

\* No step lets a reviewer pass for alone before its own reconcile.
LEMMA FreshStep ==
  ASSUME TypeInv, Fresh, [Next]_vars
  PROVE  Fresh'
<1> USE DEF store, local, ghosts, bounds
<1> SUFFICES ASSUME NEW r \in Reviewers
             PROVE  /\ pc'[r] \in {"fetch", "review", "reconcile"} => ~alone'[r]
                    /\ pc'[r] \in {"claim", "fetch", "review", "reconcile"} => job'[r].skip = {}
  BY DEF Fresh
<1>1. ASSUME NEW h \in Heads, Decide(r, h)
      PROVE  pc'[r] = "claim" /\ job'[r].skip = {}
  <2>1. PICK valid \in ChainAnswers :
          Set(r, [NoJob EXCEPT !.ref = Reference, !.full = Reference.head = None \/ ~valid])
    BY <1>1 DEF Decide
  <2> QED
    BY <1>1, <2>1 DEF Decide, Goto, Set, NoJob, TypeInv
<1>2. CASE Claim(r)
  BY <1>2 DEF Claim, Goto, Fresh, TypeInv
<1>3. CASE Fetch(r)
  <2>1. job'[r].skip = job[r].skip
    BY <1>3 DEF Fetch, Set, TypeInv, JobLike
  <2> QED
    BY <1>3, <2>1 DEF Fetch, Goto, Fresh, TypeInv
<1>4. CASE Review(r)
  <2>1. PICK seen \in SUBSET Files : \E found \in SUBSET Issues :
          Set(r, [job[r] EXCEPT !.seen = seen, !.found = found])
    BY <1>4, ReviewedJob
  <2>2. PICK found \in SUBSET Issues : Set(r, [job[r] EXCEPT !.seen = seen, !.found = found])
    BY <2>1
  <2>3. job'[r].skip = job[r].skip
    BY <2>2 DEF Set, TypeInv, JobLike
  <2> QED
    BY <1>4, <2>3 DEF Review, Fresh
<1>5. CASE FetchNothing(r) \/ Complete(r) \/ Fail(r)
  BY <1>5 DEF FetchNothing, Complete, Fail, Leave, TypeInv
<1>6. CASE Reconcile(r) \/ Insert(r) \/ Cover(r)
  BY <1>6 DEF Reconcile, Insert, Cover, Goto, TypeInv
<1>7. CASE Crash
  BY <1>7 DEF Crash
<1>8. CASE ~Step(r) /\ ~Crash /\ \A h \in Heads : ~Decide(r, h)
  BY <1>8, OthersStep DEF Fresh
<1> QED
  BY <1>1, <1>2, <1>3, <1>4, <1>5, <1>6, <1>7, <1>8 DEF Step

\* The rows of the round: what was found and compared is active, the others
\* are as they were.
LEMMA AfterReconcile ==
  ASSUME TypeInv, NEW r \in Reviewers, Reconcile(r)
  PROVE  /\ job'[r].skip \subseteq ActiveIn(Heads)' /\ job'[r].skip \subseteq OnRecord'
         /\ job'[r].found = job[r].found /\ job'[r].diffs = job[r].diffs
         /\ DOMAIN rows' = DOMAIN rows /\ \A k \in DOMAIN rows : rows'[k] = Reconciled(r, k)
<1>1. DOMAIN rows' = DOMAIN rows /\ \A k \in DOMAIN rows : rows'[k] = Reconciled(r, k)
  BY DEF Reconcile
<1>2. job'[r] = [job[r] EXCEPT !.skip = Reopened(r)]
  BY DEF Reconcile, Set, TypeInv
<1>3. job'[r].skip = Reopened(r) /\ job'[r].found = job[r].found /\ job'[r].diffs = job[r].diffs
  BY <1>2 DEF TypeInv, JobLike
<1>4. ASSUME NEW i \in Reopened(r)
      PROVE  \E k \in DOMAIN rows' : rows'[k].task \in Heads /\ rows'[k].status = "active"
                                     /\ rows'[k].issue = i
  <2>1. PICK k \in Compared(r) : rows[k].issue = i /\ i \in job[r].found
    BY DEF Reopened
  <2>2. k \in DOMAIN rows /\ rows[k].task \in Heads
    BY <2>1 DEF Compared, Completed
  <2> QED
    BY <1>1, <2>1, <2>2, ReconciledRow
<1>5. \A i \in Reopened(r) : i \in ActiveIn(Heads)' /\ i \in OnRecord'
  BY <1>4 DEF ActiveIn, OnRecord, IssuesOf, RowsOf
<1> QED
  BY <1>1, <1>3, <1>5

\* Insertion only adds rows; each finding that is not left out gets one.
LEMMA AfterInsert ==
  ASSUME TypeInv, NEW r \in Reviewers, Insert(r)
  PROVE  /\ \A k \in DOMAIN rows : k \in DOMAIN rows' /\ rows'[k] = rows[k]
         /\ \A i \in job[r].found \ job[r].skip : i \in ActiveIn(Heads)' /\ i \in OnRecord'
<1>1. pc[r] = "insert" /\ rows' = rows \o NewRows(r) /\ at[r] \in Heads
  BY DEF Insert, TypeInv
<1>2. rows \in Seq(Row) /\ NewRows(r) \in Seq(Row)
  BY <1>1, NewRowsAre DEF TypeInv
<1>3. /\ DOMAIN rows = 1..Len(rows) /\ DOMAIN rows' = 1..(Len(rows) + Len(NewRows(r)))
      /\ Len(rows) \in Nat /\ Len(NewRows(r)) \in Nat
      /\ \A k \in 1..Len(rows) : rows'[k] = rows[k]
      /\ \A n \in 1..Len(NewRows(r)) : rows'[Len(rows) + n] = NewRows(r)[n]
  BY <1>1, <1>2
<1>4. ASSUME NEW i \in job[r].found \ job[r].skip
      PROVE  \E k \in DOMAIN rows' : rows'[k].task \in Heads /\ rows'[k].status = "active"
                                     /\ rows'[k].issue = i
  <2>1. PICK n \in 1..Len(NewRows(r)) : NewRows(r)[n].issue = i
    BY <1>1, NewRowsAre
  <2>2. NewRows(r)[n].task \in Heads /\ NewRows(r)[n].status = "active"
    BY <1>1, NewRowsAre
  <2>3. Len(rows) + n \in DOMAIN rows'
    BY <1>3
  <2> QED
    BY <1>3, <2>1, <2>2, <2>3
<1> QED
  BY <1>3, <1>4 DEF ActiveIn, OnRecord, IssuesOf, RowsOf

\* Every step keeps open what the round has found and not inserted.
LEMMA OpenStep ==
  ASSUME TypeInv, Fresh, Open, [Next]_vars
  PROVE  Open'
<1> USE DEF store, local, ghosts, bounds
<1> SUFFICES ASSUME NEW r \in Reviewers, alone'[r]
             PROVE  /\ pc'[r] = "insert" => job'[r].skip \subseteq ActiveIn(Heads)'
                    /\ pc'[r] \in {"cover", "writeback"} => job'[r].found \subseteq ActiveIn(Heads)'
  BY DEF Open
<1>1. CASE \E h \in Heads : Decide(r, h)
  BY <1>1 DEF Decide, Goto, TypeInv
<1>2. CASE Claim(r) \/ Fetch(r)
  BY <1>2 DEF Claim, Fetch, Goto, TypeInv
<1>3. CASE Review(r)
  BY <1>3 DEF Review, Fresh
<1>4. CASE FetchNothing(r) \/ Complete(r) \/ Fail(r)
  BY <1>4 DEF FetchNothing, Complete, Fail, Leave, TypeInv
<1>5. CASE Reconcile(r)
  BY <1>5, AfterReconcile DEF Reconcile, Goto, TypeInv
<1>6. CASE Insert(r)
  <2>1. alone[r] /\ pc[r] = "insert" /\ pc'[r] = "cover" /\ job' = job
    BY <1>6 DEF Insert, Goto, Disturb, TypeInv
  <2>2. job[r].skip \subseteq ActiveIn(Heads)
    BY <2>1 DEF Open
  <2>3. ActiveIn(Heads) \subseteq ActiveIn(Heads)'
    BY <1>6, AfterInsert DEF ActiveIn
  <2>4. job[r].found \subseteq ActiveIn(Heads)'
    BY <1>6, <2>2, <2>3, AfterInsert
  <2> QED
    BY <2>1, <2>4
<1>7. CASE Cover(r)
  <2>1. alone[r] /\ pc[r] = "cover" /\ pc'[r] = "writeback" /\ job' = job /\ rows' = rows
    BY <1>7 DEF Cover, Goto, TypeInv
  <2> QED
    BY <2>1 DEF Open, ActiveIn
<1>8. CASE Crash
  BY <1>8 DEF Crash
<1>9. CASE ~Step(r) /\ ~Crash /\ \A h \in Heads : ~Decide(r, h)
  <2>1. alone[r] /\ rows' = rows /\ pc'[r] = pc[r] /\ job'[r] = job[r]
    BY <1>9, OthersStep
  <2> QED
    BY <2>1 DEF Open, ActiveIn
<1> QED
  BY <1>1, <1>2, <1>3, <1>4, <1>5, <1>6, <1>7, <1>8, <1>9 DEF Step
\* Short of a deletion no row leaves the record.
LEMMA RecordGrows ==
  ASSUME TypeInv, [Next]_vars, deletes' = 0
  PROVE  deletes = 0 /\ OnRecord \subseteq OnRecord'
<1> USE DEF store, local, ghosts, bounds
<1>1. ASSUME NEW r \in Reviewers, Reconcile(r)
      PROVE  deletes = 0 /\ OnRecord \subseteq OnRecord'
  <2>1. DOMAIN rows' = DOMAIN rows /\ \A k \in DOMAIN rows : rows'[k] = Reconciled(r, k)
    BY <1>1, AfterReconcile
  <2>2. \A k \in DOMAIN rows : rows'[k].task = rows[k].task /\ rows'[k].issue = rows[k].issue
    BY <2>1, ReconciledRow
  <2> QED
    BY <1>1, <2>1, <2>2 DEF Reconcile, OnRecord, IssuesOf, RowsOf
<1>2. ASSUME NEW r \in Reviewers, Insert(r)
      PROVE  deletes = 0 /\ OnRecord \subseteq OnRecord'
  BY <1>2, AfterInsert DEF Insert, OnRecord, IssuesOf, RowsOf
<1>3. ASSUME NEW h \in Heads, Delete(h)
      PROVE  FALSE
  BY <1>3 DEF Delete, TypeInv
<1>4. CASE rows' = rows /\ deletes' = deletes
  BY <1>4 DEF OnRecord, IssuesOf, RowsOf
<1>5. ASSUME NEW r \in Reviewers, Step(r), ~Reconcile(r), ~Insert(r)
      PROVE  rows' = rows /\ deletes' = deletes
  BY <1>5 DEF Step, Claim, Fetch, FetchNothing, Review, Cover, Complete, Fail
<1>6. ASSUME NEW r \in Reviewers, NEW h \in Heads, Decide(r, h)
      PROVE  rows' = rows /\ deletes' = deletes
  BY <1>6 DEF Decide
<1>7. CASE Crash
  BY <1>4, <1>7 DEF Crash
<1> QED
  BY <1>1, <1>2, <1>3, <1>4, <1>5, <1>6, <1>7 DEF Next, vars

\* Every step keeps a row for what a coverage may speak of.
LEMMA RecordedStep ==
  ASSUME TypeInv, Fresh, Recorded, [Next]_vars
  PROVE  Recorded'
<1> USE DEF store, local, ghosts, bounds
<1> SUFFICES ASSUME deletes' = 0
             PROVE  /\ \A r \in Reviewers :
                         /\ pc'[r] = "insert" => job'[r].skip \subseteq OnRecord'
                         /\ pc'[r] = "cover" => job'[r].found \subseteq OnRecord'
                    /\ \A h \in Heads : kept'[h] \subseteq OnRecord'
  BY DEF Recorded
<1>1. deletes = 0 /\ OnRecord \subseteq OnRecord'
  BY RecordGrows
<1>2. ASSUME NEW r \in Reviewers
      PROVE  /\ pc'[r] = "insert" => job'[r].skip \subseteq OnRecord'
             /\ pc'[r] = "cover" => job'[r].found \subseteq OnRecord'
  <2>1. CASE \E h \in Heads : Decide(r, h)
    BY <2>1 DEF Decide, Goto, TypeInv
  <2>2. CASE Claim(r) \/ Fetch(r) \/ Cover(r)
    BY <2>2 DEF Claim, Fetch, Cover, Goto, TypeInv
  <2>3. CASE Review(r)
    <3>1. pc[r] = "review" /\ pc'[r] \in {"reconcile", "insert"}
      BY <2>3 DEF Review, Goto, TypeInv
    <3>2. PICK seen \in SUBSET Files : \E found \in SUBSET Issues :
            Set(r, [job[r] EXCEPT !.seen = seen, !.found = found])
      BY <2>3, ReviewedJob
    <3>3. PICK found \in SUBSET Issues : Set(r, [job[r] EXCEPT !.seen = seen, !.found = found])
      BY <3>2
    <3>4. job'[r].skip = job[r].skip
      BY <3>3 DEF Set, TypeInv, JobLike
    <3> QED
      BY <3>1, <3>4 DEF Fresh
  <2>4. CASE FetchNothing(r) \/ Complete(r) \/ Fail(r)
    BY <2>4 DEF FetchNothing, Complete, Fail, Leave, TypeInv
  <2>5. CASE Reconcile(r)
    BY <2>5, AfterReconcile DEF Reconcile, Goto, TypeInv
  <2>6. CASE Insert(r)
    <3>1. pc[r] = "insert" /\ pc'[r] = "cover" /\ job' = job
      BY <2>6 DEF Insert, Goto, TypeInv
    <3>2. job[r].skip \subseteq OnRecord
      BY <1>1, <3>1 DEF Recorded
    <3> QED
      BY <1>1, <2>6, <3>1, <3>2, AfterInsert
  <2>7. CASE Crash
    BY <2>7 DEF Crash
  <2>8. CASE ~Step(r) /\ ~Crash /\ \A h \in Heads : ~Decide(r, h)
    BY <1>1, <2>8, OthersStep DEF Recorded
  <2> QED
    BY <2>1, <2>2, <2>3, <2>4, <2>5, <2>6, <2>7, <2>8 DEF Step
<1>3. ASSUME NEW h \in Heads
      PROVE  kept'[h] \subseteq OnRecord'
  <2>1. kept[h] \subseteq OnRecord
    BY <1>1 DEF Recorded
  <2>2. ASSUME NEW r \in Reviewers, Cover(r)
        PROVE  kept'[h] \subseteq OnRecord'
    <3>1. job[r].found \subseteq OnRecord
      BY <1>1, <2>2 DEF Cover, Recorded
    <3> QED
      BY <1>1, <2>1, <2>2, <3>1 DEF Cover, TypeInv
  <2>3. ASSUME NEW r \in Reviewers, Step(r), ~Cover(r)
        PROVE  kept' = kept
    BY <2>3 DEF Step, Claim, Fetch, FetchNothing, Review, Reconcile, Insert, Complete, Fail
  <2>4. ASSUME NEW r \in Reviewers, NEW g \in Heads, Decide(r, g)
        PROVE  kept' = kept
    BY <2>4 DEF Decide
  <2>5. CASE Crash
    BY <1>1, <2>1, <2>5 DEF Crash
  <2>6. ASSUME NEW g \in Heads, Delete(g)
        PROVE  FALSE
    BY <1>1, <2>6 DEF Delete
  <2>7. CASE kept' = kept
    BY <1>1, <2>1, <2>7
  <2> QED
    BY <2>2, <2>3, <2>4, <2>5, <2>6, <2>7 DEF Next, vars
<1> QED
  BY <1>2, <1>3

\* Every step keeps the findings that are gone closed.
LEMMA GoneStep ==
  ASSUME TypeInv, Fresh, GoneIsClosed, [Next]_vars
  PROVE  GoneIsClosed'
<1> USE DEF store, local, ghosts, bounds
<1> SUFFICES ASSUME NEW r \in Reviewers, alone'[r], pc'[r] = "insert",
                    NEW i \in ActiveIn(Completed \ {at[r]})', FileOf[i] \in job'[r].diffs
             PROVE  i \in job'[r].found
  BY DEF GoneIsClosed
<1>1. CASE \E h \in Heads : Decide(r, h)
  BY <1>1 DEF Decide, Goto, TypeInv
<1>2. CASE Claim(r) \/ Fetch(r) \/ Insert(r) \/ Cover(r)
  BY <1>2 DEF Claim, Fetch, Insert, Cover, Goto, TypeInv
<1>3. CASE Review(r)
  BY <1>3 DEF Review, Fresh
<1>4. CASE FetchNothing(r) \/ Complete(r) \/ Fail(r)
  BY <1>4 DEF FetchNothing, Complete, Fail, Leave, TypeInv
<1>5. CASE Reconcile(r)
  <2>1. /\ DOMAIN rows' = DOMAIN rows /\ \A k \in DOMAIN rows : rows'[k] = Reconciled(r, k)
        /\ job'[r].found = job[r].found /\ job'[r].diffs = job[r].diffs
    BY <1>5, AfterReconcile
  <2>2. st' = st /\ at' = at
    BY <1>5 DEF Reconcile
  <2>3. PICK k \in DOMAIN rows : /\ rows'[k].task \in Completed \ {at[r]}
                                /\ rows'[k].status = "active" /\ rows'[k].issue = i
    BY <2>1, <2>2 DEF ActiveIn, Completed
  <2>4. rows[k].task = rows'[k].task /\ rows[k].issue = i
    BY <2>1, <2>3, ReconciledRow
  <2>5. k \in Compared(r)
    BY <2>1, <2>3, <2>4 DEF Compared
  <2> QED
    BY <2>1, <2>3, <2>4, <2>5, ReconciledRow
<1>6. CASE Crash
  BY <1>6 DEF Crash
<1>7. CASE ~Step(r) /\ ~Crash /\ \A h \in Heads : ~Decide(r, h)
  <2>1. /\ alone[r] /\ rows' = rows /\ st' = st
        /\ pc'[r] = pc[r] /\ job'[r] = job[r] /\ at'[r] = at[r]
    BY <1>7, OthersStep
  <2>2. i \in ActiveIn(Completed \ {at[r]})
    BY <2>1 DEF ActiveIn, Completed
  <2> QED
    BY <2>1, <2>2 DEF GoneIsClosed
<1> QED
  BY <1>1, <1>2, <1>3, <1>4, <1>5, <1>6, <1>7 DEF Step

-----------------------------------------------------------------------------
(* What the reviewers promise *)

\* The invariant of the findings holds.
LEMMA IInvCorrect == Spec => []IInv
<1>1. Init => IInv
  BY TypeInit DEF Init, IInv, Fresh, Open, Recorded, GoneIsClosed
<1>2. IInv /\ [Next]_vars => IInv'
  BY TypeStep, FreshStep, OpenStep, RecordedStep, GoneStep DEF IInv
<1> QED
  BY <1>1, <1>2, PTL DEF Spec

\* After a round nobody interfered with, every finding is open, in a row of its
\* own or in the one it was brought back in; and a coverage that is stored
\* never says more than the findings on record: reconcile_findings, the
\* insert and the coverage come in this order and each is done before the next.
THEOREM FindingsAreKept == Spec => []FindingsKept
<1>1. IInv => FindingsKept
  BY DEF IInv, Open, Recorded, FindingsKept, ReportedIsOpen, CoveredIsRecorded, OnRecord
<1> QED
  BY <1>1, IInvCorrect, PTL

\* What a full round does not find any more is closed in every other completed
\* task, for the files it covers.
THEOREM GoneFindingsClosed == Spec => []GoneIsClosed
<1>1. IInv => GoneIsClosed
  BY DEF IInv
<1> QED
  BY <1>1, IInvCorrect, PTL

\* No reconciliation closes a finding in a file that its round did not cover.
THEOREM OnlyCoveredFilesClosed == Spec => OnlyCoveredClosed
<1>1. ASSUME IInv, [Next]_vars
      PROVE  \A r \in Reviewers : pc[r] = "reconcile" /\ pc'[r] = "insert" =>
               \A i \in ActiveIn(Heads) :
                 FileOf[i] \notin job[r].diffs => i \in ActiveIn(Heads)'
  <2> USE DEF store, local, ghosts, bounds
  <2> SUFFICES ASSUME NEW r \in Reviewers, pc[r] = "reconcile", pc'[r] = "insert",
                      NEW i \in ActiveIn(Heads), FileOf[i] \notin job[r].diffs
               PROVE  i \in ActiveIn(Heads)'
    OBVIOUS
  <2>1. TypeInv
    BY <1>1 DEF IInv
  <2>2. Reconcile(r)
    <3>1. ~Crash /\ \A h \in Heads : ~Decide(r, h)
      BY DEF Crash, Decide
    <3>2. ~(FetchNothing(r) \/ Complete(r) \/ Fail(r))
      BY <2>1 DEF FetchNothing, Complete, Fail, Leave, TypeInv
    <3>3. ~(Claim(r) \/ Fetch(r) \/ Review(r) \/ Insert(r) \/ Cover(r))
      BY DEF Claim, Fetch, Review, Insert, Cover
    <3>4. Step(r)
      BY <1>1, <2>1, <3>1, OthersStep
    <3> QED
      BY <3>2, <3>3, <3>4 DEF Step
  <2>3. DOMAIN rows' = DOMAIN rows /\ \A k \in DOMAIN rows : rows'[k] = Reconciled(r, k)
    BY <2>1, <2>2, AfterReconcile
  <2>4. PICK k \in DOMAIN rows : /\ rows[k].task \in Heads /\ rows[k].status = "active"
                                /\ rows[k].issue = i
    BY DEF ActiveIn
  <2>5. k \notin Compared(r)
    BY <2>4 DEF Compared
  <2>6. rows'[k] = rows[k]
    BY <2>1, <2>3, <2>5, ReconciledRow
  <2> QED
    BY <2>3, <2>4, <2>6 DEF ActiveIn
<1> QED
  BY <1>1, IInvCorrect, PTL DEF Spec, OnlyCoveredClosed
=============================================================================
