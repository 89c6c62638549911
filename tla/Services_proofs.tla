-------------------------- MODULE Services_proofs --------------------------
(***************************************************************************)
(* Theorems about the poll control, the clone cache, the scheduler, the    *)
(* review and the session of the agent, for any number of callers,         *)
(* threads, rows and plans, thresholds, rounds and faults.  Each component *)
(* has an inductive invariant of its own; a step of Services is a step of  *)
(* one component or leaves its variables alone.                            *)
(*                                                                         *)
(* The folds and choices of AgentSession range over finite sets, so that   *)
(* they are reasoned about by the least counterexample: a set of naturals  *)
(* that is not empty has a least element.                                  *)
(***************************************************************************)
EXTENDS Services, FiniteSetTheorems, SequenceTheorems, WellFoundedInduction, TLAPS

-----------------------------------------------------------------------------
(* Every step of the whole is a step of each part, or leaves it alone. *)

\* Services: In and the UNCHANGED of the other components.
LEMMA StepOfParts ==
  ASSUME [Next]_vars
  PROVE  /\ [S!Next]_svars /\ [P!Next]_pvars /\ [C!Next]_cvars
         /\ [A!Next]_avars /\ [R!Next]_rvars
<1>1. CASE Next
  <2>1. CASE Scheduling(S!Next)
    BY <2>1 DEF Scheduling
  <2>2. CASE Polling(P!Next)
    BY <2>2 DEF Polling
  <2>3. CASE Cloning(C!Next)
    BY <2>3 DEF Cloning
  <2>4. CASE Talking(A!Next)
    BY <2>4 DEF Talking
  <2>5. CASE Reviewing(R!Next)
    BY <2>5 DEF Reviewing
  <2> QED
    BY <1>1, <2>1, <2>2, <2>3, <2>4, <2>5 DEF Next
<1>2. CASE UNCHANGED vars
  BY <1>2 DEF vars
<1> QED
  BY <1>1, <1>2

-----------------------------------------------------------------------------
(* The poll control *)

\* What a round has listed is done or left, nothing is left outside a round,
\* a caller that is over has a report, and a request that was accepted is on
\* its way or has left its answer.
PollInv ==
  /\ P!TypeOK
  /\ running \in BOOLEAN /\ left \in Nat /\ todo \in Nat /\ asks \in Nat
  /\ lock \in P!Callers \cup {None}
  /\ lock = None => left = 0
  /\ progress.done + left = progress.total
  /\ \A a \in Admins : stage[a] = "over" => report[a] # None
  /\ asks > 0 => last # None \/ error # None \/ \E a \in Admins : stage[a] # "idle"

\* Nobody asks yet, every caller is idle (PollControl Init).
LEMMA PollInit ==
  ASSUME P!Init
  PROVE  PollInv
<1> USE ServicesAssumption DEF P!PollControlAssumption, P!Callers
<1>1. P!TypeOK
  BY DEF P!Init, P!TypeOK, P!Counts, P!Results, P!Zero
<1>2. /\ left \in Nat /\ todo \in Nat /\ asks \in Nat
      /\ lock \in P!Callers \cup {None}
      /\ lock = None => left = 0
      /\ progress.done + left = progress.total
      /\ ~ (asks > 0)
  BY DEF P!Init, P!Zero
<1>3. \A a \in Admins : stage[a] # "over"
  BY DEF P!Init
<1>4. running \in BOOLEAN
  BY Zenon DEF P!Init
<1> QED
  BY <1>1, <1>2, <1>3, <1>4 DEF PollInv

\* A step of a caller keeps the invariant (PollControl Next).
LEMMA PollStep ==
  ASSUME PollInv, [P!Next]_pvars
  PROVE  PollInv'
<1> USE ServicesAssumption DEF P!PollControlAssumption, P!Callers
<1> USE DEF PollInv, P!TypeOK, P!Counts, P!Results, P!Goto
<1>1. ASSUME NEW a \in Admins, P!Ask(a)
      PROVE  PollInv'
  BY <1>1 DEF P!Ask
<1>2. ASSUME NEW a \in Admins, P!Begin(a)
      PROVE  PollInv'
  BY <1>2 DEF P!Begin
<1>3. ASSUME NEW a \in Admins, P!End(a)
      PROVE  PollInv'
  BY <1>3 DEF P!End, P!Return
<1>4. ASSUME NEW t \in Timers, P!Fire(t)
      PROVE  PollInv'
  BY <1>4 DEF P!Fire
<1>5. ASSUME NEW t \in Timers, P!EndTimer(t)
      PROVE  PollInv'
  BY <1>5 DEF P!EndTimer, P!Return
<1>6. ASSUME NEW c \in P!Callers, P!Enter(c)
      PROVE  PollInv'
  BY <1>6 DEF P!Enter, P!Zero
<1>7. ASSUME NEW c \in P!Callers, P!Skip(c)
      PROVE  PollInv'
  BY <1>7 DEF P!Skip
<1>8. ASSUME NEW c \in P!Callers, P!List(c)
      PROVE  PollInv'
  BY <1>8 DEF P!List
<1>9. ASSUME NEW c \in P!Callers, P!One(c)
      PROVE  PollInv'
  BY <1>9 DEF P!One
<1>10. ASSUME NEW c \in P!Callers, P!Leave(c)
       PROVE  PollInv'
  BY <1>10 DEF P!Leave
<1>11. ASSUME NEW c \in P!Callers, P!Break(c)
       PROVE  PollInv'
  BY <1>11 DEF P!Break
<1>12. CASE UNCHANGED pvars
  BY <1>12 DEF pvars
<1> QED
  BY <1>1, <1>2, <1>3, <1>4, <1>5, <1>6, <1>7, <1>8, <1>9, <1>10, <1>11, <1>12
     DEF P!Next, P!Round

\* The invariant of the poll control holds throughout (poller.py run_once,
\* pull.py).
LEMMA PollCorrect == Spec => []PollInv
<1>1. Init => PollInv
  BY PollInit DEF Init
<1>2. PollInv /\ [Next]_vars => PollInv'
  BY StepOfParts, PollStep
<1> QED
  BY <1>1, <1>2, PTL DEF Spec

\* Every accepted manual poll leaves an answer, for any number of
\* administrators and scheduled rounds beside them (pull.py _background_poll).
THEOREM PollsAreAnswered == Spec => []AskedIsAnswered
<1>1. PollInv => AskedIsAnswered
  BY DEF PollInv, AskedIsAnswered, P!AskedIsAnswered
<1> QED
  BY <1>1, PollCorrect, PTL

-----------------------------------------------------------------------------
(* The clone cache *)

Places == {"idle", "touch", "stat", "open", "flock", "locked", "clone", "cloning", "fetch",
           "record", "materialise", "failed", "check", "unlink", "delete"}
CloneRows == [id : Nat, age : {"fresh", "old"}]

\* A thread that waits for a lock has a file open, one inside has locked the
\* file it has open, unless the call failed, and whoever has locked a file is
\* inside; a clone has a row, or a review is about to record it, or its row was lost.
CloneInv ==
  /\ C!TypeOK
  /\ holder \in [Inodes -> C!Procs \cup {None}]
  /\ fd \in [C!Procs -> Inodes \cup {None}]
  /\ row \in CloneRows \cup {None} /\ ids \in Nat
  /\ orphan \in BOOLEAN
  /\ pc \in [C!Procs -> Places]
  /\ \A p \in C!Procs :
       pc[p] \in {"clone", "cloning", "fetch", "record", "materialise"} => p \in Reviews
  /\ \A p \in C!Procs : pc[p] = "flock" => fd[p] # None
  /\ dir = "valid" => row # None \/ orphan \/ \E r \in Reviews : pc[r] = "record"

\* Nobody has a lock; a clone of an earlier run has its row (CloneCache Init).
LEMMA CloneInit ==
  ASSUME C!Init
  PROVE  CloneInv
<1> USE ServicesAssumption DEF C!CloneCacheAssumption, C!Procs
<1>1. C!TypeOK
  BY DEF C!Init, C!TypeOK, C!Critical
<1>2. row \in CloneRows \cup {None} /\ ids \in Nat /\ (dir = "valid" => row # None)
  BY DEF C!Init, CloneRows
<1>3. /\ holder \in [Inodes -> C!Procs \cup {None}]
      /\ fd \in [C!Procs -> Inodes \cup {None}]
      /\ pc \in [C!Procs -> Places]
      /\ \A p \in C!Procs : pc[p] = "idle"
  BY DEF C!Init, Places
<1>4. orphan \in BOOLEAN
  BY Zenon DEF C!Init
<1> QED
  BY <1>1, <1>2, <1>3, <1>4 DEF CloneInv

\* What a lock file may become when it is ensured (_FileLock).
LEMMA EnsureFile ==
  ASSUME CloneInv, C!Ensure
  PROVE  path' \in Inodes
BY ServicesAssumption DEF CloneInv, C!TypeOK, C!Ensure, C!CloneCacheAssumption

\* A step of a thread keeps the invariant (CloneCache Next).
LEMMA CloneStep ==
  ASSUME CloneInv, [C!Next]_cvars
  PROVE  CloneInv'
<1> USE ServicesAssumption DEF C!CloneCacheAssumption, C!Procs, C!files, C!locks, C!table
<1> USE DEF CloneInv, C!TypeOK, C!Goto, C!Critical, Places, CloneRows
<1>1. ASSUME NEW p \in C!Procs, C!Touch(p)
      PROVE  CloneInv'
  BY <1>1, EnsureFile DEF C!Touch
<1>2. ASSUME NEW p \in C!Procs, C!Stat(p)
      PROVE  CloneInv'
  BY <1>2 DEF C!Stat
<1>3. ASSUME NEW p \in C!Procs, C!Open(p)
      PROVE  CloneInv'
  BY <1>3, EnsureFile DEF C!Open
<1>4. ASSUME NEW p \in C!Procs, C!Flock(p)
      PROVE  CloneInv'
  BY <1>4 DEF C!Flock
<1>5. ASSUME NEW p \in C!Procs, C!FlockFails(p)
      PROVE  CloneInv'
  BY <1>5 DEF C!FlockFails
<1>6. ASSUME NEW p \in C!Procs, C!Look(p)
      PROVE  CloneInv'
  BY <1>6 DEF C!Look
<1>7. ASSUME NEW p \in C!Procs, C!CloneBegins(p)
      PROVE  CloneInv'
  BY <1>7 DEF C!CloneBegins
<1>8. ASSUME NEW p \in C!Procs, C!CloneEnds(p)
      PROVE  CloneInv'
  BY <1>8 DEF C!CloneEnds, C!Unlock
<1>9. ASSUME NEW p \in C!Procs, C!FetchEnds(p)
      PROVE  CloneInv'
  BY <1>9 DEF C!FetchEnds, C!Unlock
<1>10. ASSUME NEW p \in C!Procs, C!GitFails(p)
      PROVE  CloneInv'
  BY <1>10 DEF C!GitFails, C!Unlock
<1>11. ASSUME NEW p \in C!Procs, C!Record(p)
       PROVE  CloneInv'
  <2>1. pc' = [pc EXCEPT ![p] = "materialise"] /\ p \in Reviews
    BY <1>11 DEF C!Record
  <2>2. CASE /\ row' = [id |-> IF row = None THEN ids ELSE row.id, age |-> "fresh"]
             /\ ids' = IF row = None THEN ids + 1 ELSE ids
             /\ UNCHANGED orphan
    <3>1. row' \in CloneRows /\ ids' \in Nat
      BY <2>2
    <3> QED
      BY <1>11, <2>1, <2>2, <3>1 DEF C!Record
  <2>3. CASE orphan' = TRUE /\ UNCHANGED <<row, ids>>
    <3>1. orphan' \in BOOLEAN /\ orphan'
      BY <2>3, Zenon
    <3> QED
      BY <1>11, <2>1, <2>3, <3>1 DEF C!Record
  <2> QED
    BY <1>11, <2>2, <2>3 DEF C!Record
<1>12. ASSUME NEW p \in C!Procs, C!Materialise(p)
       PROVE  CloneInv'
  BY <1>12 DEF C!Materialise
<1>13. ASSUME NEW p \in C!Procs, C!ReviewFails(p)
       PROVE  CloneInv'
  BY <1>13 DEF C!ReviewFails
<1>14. ASSUME NEW p \in C!Procs, C!RmTree(p)
       PROVE  CloneInv'
  BY <1>14 DEF C!RmTree, C!Unlock
<1>15. ASSUME NEW p \in C!Procs, C!Occupied(p)
       PROVE  CloneInv'
  BY <1>15 DEF C!Occupied
<1>16. ASSUME NEW p \in C!Procs, C!Unlink(p)
       PROVE  CloneInv'
  BY <1>16 DEF C!Unlink
<1>17. ASSUME NEW p \in C!Procs, C!DeleteRow(p)
       PROVE  CloneInv'
  <2>1. CASE row' = None /\ orphan' = (orphan \/ dir = "valid")
    <3>1. orphan' \in BOOLEAN /\ (dir = "valid" => orphan')
      BY <2>1, Zenon
    <3> QED
      BY <1>17, <2>1, <3>1 DEF C!DeleteRow
  <2>2. CASE UNCHANGED <<row, orphan>>
    BY <1>17, <2>2 DEF C!DeleteRow
  <2> QED
    BY <1>17, <2>1, <2>2 DEF C!DeleteRow
<1>18. ASSUME NEW p \in C!Procs, C!GiveUp(p)
       PROVE  CloneInv'
  BY <1>18 DEF C!GiveUp
<1>19. ASSUME NEW p \in C!Procs, C!Sync(p)
       PROVE  CloneInv'
  BY <1>19 DEF C!Sync
<1>20. ASSUME NEW p \in C!Procs, NEW any \in BOOLEAN, C!Choose(p, any)
       PROVE  CloneInv'
  BY <1>20 DEF C!Choose
<1>21. CASE C!Age
  BY <1>21 DEF C!Age
<1>22. CASE C!Rebuild
  <2>1. row' \in CloneRows /\ ids' \in Nat
    BY <1>22 DEF C!Rebuild
  <2>2. orphan' \in BOOLEAN
    BY <1>22, Zenon DEF C!Rebuild
  <2> QED
    BY <1>22, <2>1, <2>2 DEF C!Rebuild
<1>23. CASE C!Crash
  BY <1>23 DEF C!Crash
<1>24. CASE UNCHANGED cvars
  BY <1>24 DEF cvars
<1> HIDE DEF CloneInv, C!TypeOK, C!Goto, C!Critical, Places, CloneRows, C!files, C!locks, C!table
<1> QED
  BY <1>5, <1>1, <1>2, <1>3, <1>4, <1>6, <1>7, <1>8, <1>9, <1>10, <1>11, <1>12, <1>13, <1>14,
     <1>15, <1>16, <1>17, <1>18, <1>19, <1>20, <1>21, <1>22, <1>23, <1>24
     DEF C!Next, C!Work

\* The invariant of the clone cache holds throughout (syncer.py _FileLock,
\* clone_cache.py upsert_fetched and remove_cache_dir).
LEMMA CloneCorrect == Spec => []CloneInv
<1>1. Init => CloneInv
  BY CloneInit DEF Init
<1>2. CloneInv /\ [Next]_vars => CloneInv'
  BY StepOfParts, CloneStep
<1> QED
  BY <1>1, <1>2, PTL DEF Spec

\* Who changes the directory is inside the critical section, or writes the
\* files of a diff.
LEMMA WhoChangesDir ==
  ASSUME CloneInv, [C!Next]_cvars, dir' # dir
  PROVE  \E q \in C!Procs :
           /\ pc'[q] # pc[q]
           /\ C!Critical(q) \/ (pc[q] = "materialise" /\ dir = "none")
<1> USE DEF C!files, C!locks, C!table, C!Goto
<1>t. pc \in [C!Procs -> Places]
  BY DEF CloneInv
<1>1. ASSUME NEW p \in C!Procs, C!Look(p) \/ C!CloneBegins(p) \/ C!CloneEnds(p) \/ C!RmTree(p)
      PROVE  C!Critical(p) /\ pc'[p] # pc[p]
  BY <1>t, <1>1 DEF C!Look, C!CloneBegins, C!CloneEnds, C!RmTree, C!Critical
<1>2. ASSUME NEW p \in C!Procs, C!Materialise(p)
      PROVE  pc[p] = "materialise" /\ dir = "none" /\ pc'[p] # pc[p]
  BY <1>t, <1>2 DEF C!Materialise
<1>3. ASSUME NEW p \in C!Procs, C!Work(p)
      PROVE  C!Look(p) \/ C!CloneBegins(p) \/ C!CloneEnds(p) \/ C!RmTree(p) \/ C!Materialise(p)
  BY <1>3 DEF C!Work, C!Touch, C!Stat, C!Open, C!Flock, C!FetchEnds, C!GitFails, C!Record,
              C!ReviewFails, C!Occupied, C!Unlink, C!DeleteRow, C!GiveUp
<1>4. ASSUME NEW p \in C!Procs, NEW any \in BOOLEAN,
             C!FlockFails(p) \/ C!Sync(p) \/ C!Choose(p, any)
      PROVE  FALSE
  BY <1>4 DEF C!FlockFails, C!Sync, C!Choose
<1>5. ~(C!Age \/ C!Rebuild \/ C!Crash \/ UNCHANGED cvars)
  BY DEF C!Age, C!Rebuild, C!Crash, cvars
<1>6. PICK p \in C!Procs : C!Work(p)
  BY <1>4, <1>5 DEF C!Next
<1> QED
  BY <1>1, <1>2, <1>3, <1>6

\* A thread at its git loses its directory only to one that is inside as well,
\* one of the two without the lock or by a lock file unlinked since, or to the
\* files of a diff; for any number of threads, lock files and crashes
\* (syncer.py sync_to, remove, _FileLock).
THEOREM DirectorySpoiledByBreach == Spec => SpoiledByBreach
<1>1. CloneInv /\ [C!Next]_cvars =>
        \A p \in C!Procs : C!Critical(p) /\ pc'[p] = pc[p] /\ C!AsLeft(p) /\ ~C!AsLeft(p)' =>
          \E q \in C!Procs :
            /\ pc'[q] # pc[q]
            /\ \/ C!Critical(q) /\ (C!Breaches(p) \/ C!Breaches(q))
               \/ pc[q] = "materialise" /\ pc[p] = "clone"
  <2> SUFFICES ASSUME CloneInv, [C!Next]_cvars, NEW p \in C!Procs, C!Critical(p), pc'[p] = pc[p],
                      C!AsLeft(p), ~C!AsLeft(p)'
               PROVE  \E q \in C!Procs :
                        /\ pc'[q] # pc[q]
                        /\ \/ C!Critical(q) /\ (C!Breaches(p) \/ C!Breaches(q))
                           \/ pc[q] = "materialise" /\ pc[p] = "clone"
    OBVIOUS
  <2>1. dir' # dir
    BY DEF C!AsLeft
  <2>2. PICK q \in C!Procs : /\ pc'[q] # pc[q]
                             /\ C!Critical(q) \/ (pc[q] = "materialise" /\ dir = "none")
    BY <2>1, WhoChangesDir
  <2>3. CASE C!Critical(q)
    <3>1. /\ fd[p] # None /\ (p \in bare \/ holder[fd[p]] = p)
          /\ fd[q] # None /\ (q \in bare \/ holder[fd[q]] = q)
      BY <2>3 DEF CloneInv, C!TypeOK
    <3>2. C!Breaches(p) \/ C!Breaches(q)
      BY <2>2, <3>1 DEF C!Breaches
    <3> QED
      BY <2>2, <2>3, <3>2
  <2>4. CASE pc[q] = "materialise" /\ dir = "none"
    <3>1. pc[p] = "clone"
      BY <2>1, <2>4 DEF C!AsLeft, C!Critical
    <3> QED
      BY <2>2, <2>4, <3>1
  <2> QED
    BY <2>2, <2>3, <2>4
<1>2. [Next]_vars => [C!Next]_cvars
  BY StepOfParts
<1> QED
  BY <1>1, <1>2, CloneCorrect, PTL DEF Spec, SpoiledByBreach, C!SpoiledByBreach

\* A quiet clone has a row unless its row was lost (clone_cache.py
\* upsert_fetched, remove_cache_dir).
THEOREM ClonesAreRegistered == Spec => []CloneIsRegistered
<1>1. CloneInv => CloneIsRegistered
  BY DEF CloneInv, CloneIsRegistered, C!CloneIsRegistered, C!Procs
<1> QED
  BY <1>1, CloneCorrect, PTL

-----------------------------------------------------------------------------
(* The scheduler *)

\* A job is there exactly as the row it was built from asks for it, and no
\* event is owed without a committed change.
ScheduleInv ==
  /\ S!TypeOK
  /\ jobs = [i \in Ids |-> S!Wanted(fp[i])]
  /\ edits \in 0..MaxEdits /\ owed <= edits

\* No manager and no jobs yet (Schedules Init).
LEMMA ScheduleInit ==
  ASSUME S!Init
  PROVE  ScheduleInv
<1> USE ServicesAssumption DEF S!SchedulesAssumption
<1>1. /\ table \in [Ids -> S!Rows \cup {None}]
      /\ snap \in [Ids -> S!Rows \cup {None}]
      /\ fp \in [Ids -> S!Rows \cup {None}]
      /\ \A i \in Ids : fp[i] = None
      /\ jobs = [i \in Ids |-> None]
  BY DEF S!Init, S!NoRows
<1>2. jobs = [i \in Ids |-> S!Wanted(fp[i])]
  BY <1>1 DEF S!Wanted
<1>3. changed \in BOOLEAN /\ first \in BOOLEAN
  BY Zenon DEF S!Init
<1>4. loop = "down" /\ edits = 0 /\ owed = 0
  BY DEF S!Init
<1> QED
  BY <1>1, <1>2, <1>3, <1>4 DEF ScheduleInv, S!TypeOK

\* A step of the manager or of an administrator keeps it (Schedules Next).
LEMMA ScheduleStep ==
  ASSUME ScheduleInv, [S!Next]_svars
  PROVE  ScheduleInv'
<1> USE ServicesAssumption DEF S!SchedulesAssumption
<1> USE DEF ScheduleInv, S!TypeOK
<1>1. CASE S!Start
  <2>1. first' \in BOOLEAN
    BY <1>1, Zenon DEF S!Start
  <2> QED
    BY <1>1, <2>1 DEF S!Start, S!NoRows
<1>2. CASE S!ReadRows
  BY <1>2 DEF S!ReadRows
<1>3. CASE S!RemoveJobs
  BY <1>3 DEF S!RemoveJobs, S!Wanted
<1>4. CASE S!AddJob
  BY <1>4 DEF S!AddJob, S!Fingerprint
<1>5. CASE S!Die
  BY <1>5 DEF S!Die
<1>6. CASE S!Rest
  <2>1. first' \in BOOLEAN /\ changed' \in BOOLEAN
    BY <1>6, Zenon DEF S!Rest
  <2> QED
    BY <1>6, <2>1 DEF S!Rest
<1>7. CASE S!WakeByChange
  BY <1>7 DEF S!WakeByChange
<1>8. CASE S!WakeByTimer
  BY <1>8 DEF S!WakeByTimer
<1>9. CASE S!Stop
  BY <1>9 DEF S!Stop, S!NoRows, S!Wanted
<1>10. CASE S!Create
  <2>1. PICK new \in S!Rows : table' = [table EXCEPT ![S!Free] = new]
    BY <1>10 DEF S!Create, S!Normalised, S!Rows, S!Params, S!Types
  <2>2. table' \in [Ids -> S!Rows \cup {None}]
    BY <2>1
  <2> QED
    BY <1>10, <2>2 DEF S!Create, S!Committed
<1>11. CASE S!Notify
  BY <1>11 DEF S!Notify
<1>12. ASSUME NEW i \in Ids, S!Update(i)
       PROVE  ScheduleInv'
  <2>1. table[i] \in S!Rows
    BY <1>12 DEF S!Update
  <2>2. PICK on \in BOOLEAN : \E p \in S!Params :
          table' = [table EXCEPT ![i] = [@ EXCEPT !.on = on, !.params = p]]
    BY <1>12 DEF S!Update, S!Normalised, S!Params
  <2>3. PICK p \in S!Params :
          table' = [table EXCEPT ![i] = [@ EXCEPT !.on = on, !.params = p]]
    BY <2>2
  <2>4. [table[i] EXCEPT !.on = on, !.params = p] \in S!Rows
    BY <2>1 DEF S!Rows
  <2>5. table' \in [Ids -> S!Rows \cup {None}]
    BY <2>3, <2>4
  <2> QED
    BY <1>12, <2>5 DEF S!Update, S!Committed
<1>13. ASSUME NEW i \in Ids, S!Delete(i)
       PROVE  ScheduleInv'
  BY <1>13 DEF S!Delete, S!Committed
<1>14. ASSUME NEW i \in Ids, S!External(i)
       PROVE  ScheduleInv'
  BY <1>14 DEF S!External, S!Rows
<1>15. CASE UNCHANGED svars
  BY <1>15 DEF svars
<1> QED
  BY <1>1, <1>2, <1>3, <1>4, <1>5, <1>6, <1>7, <1>8, <1>9, <1>10, <1>11, <1>12, <1>13,
     <1>14, <1>15 DEF S!Next, S!Loop, S!Reconcile

\* Jobs and rows agree throughout (scheduler.py reconcile).
LEMMA ScheduleCorrect == Spec => []ScheduleInv
<1>1. Init => ScheduleInv
  BY ScheduleInit DEF Init
<1>2. ScheduleInv /\ [Next]_vars => ScheduleInv'
  BY StepOfParts, ScheduleStep
<1> QED
  BY <1>1, <1>2, PTL DEF Spec

-----------------------------------------------------------------------------
(* The review *)

Sessions == {"none", "waiting", "running", "ended", "skipped", "failed", "error"}
ResultsOfReview == [mode : {"none", "agentic", "diff"}, found : SUBSET R!Groups,
                    skipped : SUBSET R!Files, score : Scores]

\* The types, and how many sessions run at once.
ReviewTypes ==
  /\ phase \in {"start", "agent", "scoring", "diff", "done", "failed"}
  /\ plan \in Plans \cup {<<>>} /\ again \in Plans \cup {<<>>}
  /\ session \in [R!Groups -> Sessions]
  /\ raised \in {"none", "disabled", "error"}
  /\ short \in BOOLEAN /\ live \in BOOLEAN
  /\ reports \subseteq R!Groups /\ partial \subseteq R!Groups
  /\ result \in ResultsOfReview
  /\ raises <= MaxFaults /\ raises \in Nat
  /\ live <=> phase \in {"agent", "scoring"}
  /\ Cardinality(R!Running) <= Concurrency

\* Every group of the plan has a session, a session fails only when gather
\* has raised, and once the track is left with nothing raised all have ended;
\* an agentic result names the files of those that were skipped.
ReviewAccounts ==
  /\ \A g \in R!Groups : session[g] # "none" <=> g <= Len(plan)
  /\ phase = "start" => plan = <<>>
  /\ raised = "none" => \A g \in R!Groups : session[g] \notin {"failed", "error"}
  /\ phase \in {"scoring", "diff", "done"} /\ raised = "none" => R!AllEnded
  /\ phase \in {"start", "agent", "diff"} => result.mode # "agentic"
  /\ result.mode = "agentic" =>
       R!AllEnded /\ R!Skipped \subseteq result.skipped /\ raised = "none"

ReviewInv == ReviewTypes /\ ReviewAccounts

\* A plan groups files into at most MaxGroups groups (group_diffs).
LEMMA PlanGroups ==
  ASSUME NEW p \in Plans \cup {<<>>}
  PROVE  /\ p \in Seq(SUBSET R!Files) /\ Len(p) \in 0..MaxGroups
         /\ \A g \in R!Groups : g <= Len(p) => p[g] \subseteq R!Files
<1>1. MaxGroups \in Nat
  BY ServicesAssumption DEF R!ReviewAssumption
<1>2. CASE p = <<>>
  BY <1>1, <1>2 DEF R!Groups
<1>3. CASE p \in Plans
  <2>1. p \in Seq(SUBSET R!Files) /\ Len(p) <= MaxGroups
    BY <1>3, ServicesAssumption DEF R!ReviewAssumption
  <2>2. Len(p) \in Nat
    BY <2>1, LenProperties
  <2>3. ASSUME NEW g \in 1..MaxGroups, g <= Len(p)
        PROVE  p[g] \subseteq R!Files
    <3>1. p[g] \in SUBSET R!Files
      BY <2>1, <2>2, <2>3, ElementOfSeq
    <3> QED
      BY <3>1
  <2>4. \A n \in Nat : n <= MaxGroups => n \in 0..MaxGroups
    BY <1>1
  <2>5. Len(p) \in 0..MaxGroups
    BY <2>1, <2>2, <2>4, Zenon
  <2> QED
    BY <2>1, <2>3, <2>5, Zenon DEF R!Groups
<1> QED
  BY <1>2, <1>3

\* The set of running sessions is finite, whatever it is (Slot).
LEMMA RunningFinite ==
  ASSUME NEW T \in SUBSET R!Groups
  PROVE  IsFiniteSet(T) /\ Cardinality(T) \in Nat
<1>1. IsFiniteSet(R!Groups)
  <2>1. 1 \in Int /\ MaxGroups \in Int
    BY ServicesAssumption DEF R!ReviewAssumption
  <2> QED
    BY <2>1, FS_Interval DEF R!Groups
<1>2. IsFiniteSet(T)
  BY <1>1, FS_Subset
<1> QED
  BY <1>2, FS_CardinalityType

\* Cardinality as ReviewRun has it (Slot).
LEMMA SameCardinality ==
  ASSUME NEW T
  PROVE  R!Cardinality(T) = Cardinality(T)
BY DEF R!Cardinality, Cardinality

\* Fewer sessions run, or one more where there was a slot (Slot).
LEMMA RunningBounded ==
  ASSUME NEW T \in SUBSET R!Groups, NEW U \in SUBSET R!Groups, NEW g \in R!Groups,
         Cardinality(T) <= Concurrency,
         \/ U \subseteq T
         \/ Cardinality(T) < Concurrency /\ U \subseteq T \cup {g}
  PROVE  Cardinality(U) <= Concurrency
<1>1. Concurrency \in Nat
  BY ServicesAssumption DEF R!ReviewAssumption
<1>2. /\ IsFiniteSet(T) /\ Cardinality(T) \in Nat
      /\ IsFiniteSet(T \cup {g}) /\ Cardinality(T \cup {g}) \in Nat
      /\ IsFiniteSet(U) /\ Cardinality(U) \in Nat
  BY RunningFinite
<1>3. Cardinality(T \cup {g}) <= Cardinality(T) + 1
  BY <1>2, FS_AddElement
<1>4. CASE U \subseteq T
  <2>1. Cardinality(U) <= Cardinality(T)
    BY <1>2, <1>4, FS_Subset
  <2> QED
    BY <1>1, <1>2, <2>1
<1>5. CASE Cardinality(T) < Concurrency /\ U \subseteq T \cup {g}
  <2>1. Cardinality(U) <= Cardinality(T \cup {g})
    BY <1>2, <1>5, FS_Subset
  <2> QED
    BY <1>1, <1>2, <1>3, <1>5, <2>1
<1> QED
  BY <1>4, <1>5

\* A review starts with no session and no result (ReviewRun Init).
LEMMA ReviewInit ==
  ASSUME R!Init
  PROVE  ReviewInv
<1> USE ServicesAssumption DEF R!ReviewAssumption
<1>1. R!Running = {}
  BY DEF R!Init, R!Running
<1>2. Cardinality(R!Running) <= Concurrency
  BY <1>1, FS_EmptySet
<1>3. short \in BOOLEAN /\ live \in BOOLEAN /\ ~live
  BY Zenon DEF R!Init
<1>4. result \in ResultsOfReview /\ result.mode = "none"
  BY DEF R!Init, R!NoResult, ResultsOfReview
<1>5. session \in [R!Groups -> Sessions] /\ \A g \in R!Groups : session[g] = "none"
  BY DEF R!Init, Sessions
<1>6. ReviewTypes
  <2>1. raises <= MaxFaults /\ raises \in Nat
    <3>1. raises = 0
      BY Zenon DEF R!Init
    <3>2. MaxFaults \in Nat
      OBVIOUS
    <3> QED
      BY <3>1, <3>2
  <2>2. /\ phase = "start" /\ plan = <<>> /\ again = <<>> /\ raised = "none"
        /\ reports = {} /\ partial = {}
    BY DEF R!Init
  <2> QED
    BY <1>2, <1>3, <1>4, <1>5, <2>1, <2>2 DEF ReviewTypes
<1>7. \A g \in R!Groups : ~ (g <= Len(plan))
  BY DEF R!Init, R!Groups
<1>8. ReviewAccounts
  BY <1>4, <1>5, <1>7 DEF R!Init, ReviewAccounts
<1> QED
  BY <1>6, <1>8 DEF ReviewInv

\* The steps before and after the sessions (ReviewRun Track) keep the types.
LEMMA TrackTypes ==
  ASSUME ReviewInv,
         \/ R!StartDisabled \/ R!StartError \/ R!StartAgent \/ R!Abort \/ R!Merge
         \/ R!Score \/ R!Conclude \/ R!TimeRuns
  PROVE  ReviewTypes'
<1> USE ServicesAssumption DEF R!ReviewAssumption
<1> USE DEF ReviewInv, ReviewTypes
<1>1. CASE R!StartDisabled
  BY <1>1 DEF R!StartDisabled, R!ToDiff, R!Running
<1>2. CASE R!StartError
  BY <1>2 DEF R!StartError, R!Running
<1>3. CASE R!StartAgent
  <2>1. live' \in BOOLEAN /\ live'
    BY <1>3, Zenon DEF R!StartAgent
  <2>2. session' \in [R!Groups -> Sessions] /\ \A g \in R!Groups : session'[g] # "running"
    BY <1>3 DEF R!StartAgent, Sessions
  <2>3. R!Running' = {}
    BY <2>2 DEF R!Running
  <2>4. Cardinality(R!Running') = 0 /\ Concurrency \in Nat
    BY <2>3, FS_EmptySet
  <2> QED
    BY <1>3, <2>1, <2>2, <2>4 DEF R!StartAgent
<1>4. CASE R!Abort
  <2>1. live' \in BOOLEAN /\ ~live'
    BY <1>4, Zenon DEF R!Abort
  <2> QED
    BY <1>4, <2>1 DEF R!Abort, R!ToDiff, R!Running
<1>5. CASE R!Merge
  <2>1. R!Skipped \subseteq R!Files
    <3>1. \A g \in R!Groups : session[g] = "skipped" => plan[g] \subseteq R!Files
      BY PlanGroups DEF ReviewAccounts
    <3> QED
      BY <3>1 DEF R!Skipped
  <2>2. result' \in ResultsOfReview
    BY <1>5, <2>1 DEF R!Merge, ResultsOfReview
  <2> QED
    BY <1>5, <2>2 DEF R!Merge, R!Running
<1>6. CASE R!Score
  <2>1. live' \in BOOLEAN /\ ~live'
    BY <1>6, Zenon DEF R!Score
  <2>2. result' \in ResultsOfReview
    BY <1>6 DEF R!Score, R!NoResult, ResultsOfReview
  <2> QED
    BY <1>6, <2>1, <2>2 DEF R!Score, R!ToDiff, R!Running
<1>7. CASE R!Conclude
  BY <1>7 DEF R!Conclude, R!Running
<1>8. CASE R!TimeRuns
  <2>1. short' \in BOOLEAN
    BY <1>8, Zenon DEF R!TimeRuns
  <2> QED
    BY <1>8, <2>1 DEF R!TimeRuns, R!Running
<1> QED
  BY <1>1, <1>2, <1>3, <1>4, <1>5, <1>6, <1>7, <1>8

\* The steps of one group keep the types (ReviewRun Sessions, ReviewGroup).
LEMMA GroupTypes ==
  ASSUME ReviewInv, NEW g \in R!Groups,
         \/ R!ReviewGroup(g) \/ R!ReviewFails(g)
         \/ R!BeginSession(g) \/ R!EndSession(g) \/ R!FailSession(g) \/ R!BreakSession(g)
  PROVE  ReviewTypes'
<1> USE ServicesAssumption DEF R!ReviewAssumption
<1> USE DEF ReviewInv, ReviewTypes
<1>1. CASE R!ReviewGroup(g)
  <2>1. again[g] \subseteq R!Files
    BY <1>1, PlanGroups DEF R!ReviewGroup
  <2>2. result' \in ResultsOfReview
    BY <1>1, <2>1 DEF R!ReviewGroup, ResultsOfReview
  <2> QED
    BY <1>1, <2>2 DEF R!ReviewGroup, R!Running
<1>2. CASE R!ReviewFails(g)
  <2>1. result' \in ResultsOfReview
    BY <1>2 DEF R!ReviewFails, R!NoResult, ResultsOfReview
  <2> QED
    BY <1>2, <2>1 DEF R!ReviewFails, R!Running
<1>3. ASSUME \/ R!BeginSession(g) \/ R!EndSession(g) \/ R!FailSession(g) \/ R!BreakSession(g)
      PROVE  /\ session' \in [R!Groups -> Sessions]
             /\ Cardinality(R!Running') <= Concurrency
  <2>1. PICK s \in Sessions :
          /\ session' = [session EXCEPT ![g] = s]
          /\ s = "running" => Cardinality(R!Running) < Concurrency
    <3>1. CASE R!BeginSession(g) /\ Budget /\ short
      BY <3>1 DEF R!BeginSession, R!Slot, Sessions
    <3>2. CASE R!BeginSession(g) /\ ~ (Budget /\ short)
      <4>1. session' = [session EXCEPT ![g] = "running"]
        BY <3>2 DEF R!BeginSession
      <4>2. Cardinality(R!Running) < Concurrency
        BY <3>2, SameCardinality, Zenon DEF R!BeginSession, R!Slot
      <4>3. "running" \in Sessions
        BY DEF Sessions
      <4> QED
        BY <4>1, <4>2, <4>3
    <3>3. CASE R!EndSession(g)
      BY <3>3 DEF R!EndSession, Sessions
    <3>4. CASE R!FailSession(g)
      BY <3>4 DEF R!FailSession, Sessions
    <3>5. CASE R!BreakSession(g)
      BY <3>5 DEF R!BreakSession, Sessions
    <3> QED
      BY <1>3, <3>1, <3>2, <3>3, <3>4, <3>5
  <2>2. session' \in [R!Groups -> Sessions]
    BY <2>1
  <2>3. R!Running \in SUBSET R!Groups /\ R!Running' \in SUBSET R!Groups
    BY DEF R!Running
  <2>4. IF s = "running" THEN R!Running' \subseteq R!Running \cup {g}
        ELSE R!Running' \subseteq R!Running
    BY <2>1 DEF R!Running
  <2>5. Cardinality(R!Running') <= Concurrency
    BY <2>1, <2>3, <2>4, RunningBounded
  <2> QED
    BY <2>2, <2>5
<1>4. CASE R!BeginSession(g)
  BY <1>3, <1>4 DEF R!BeginSession
<1>5. CASE R!EndSession(g)
  BY <1>3, <1>5 DEF R!EndSession
<1>6. CASE R!FailSession(g)
  BY <1>3, <1>6 DEF R!FailSession, R!Raise
<1>7. CASE R!BreakSession(g)
  BY <1>3, <1>7 DEF R!BreakSession, R!Raise
<1> QED
  BY <1>1, <1>2, <1>4, <1>5, <1>6, <1>7

\* The steps before and after the sessions keep the accounts (ReviewRun Track).
LEMMA TrackAccounts ==
  ASSUME ReviewInv,
         \/ R!StartDisabled \/ R!StartError \/ R!StartAgent \/ R!Abort \/ R!Merge
         \/ R!Score \/ R!Conclude \/ R!TimeRuns
  PROVE  ReviewAccounts'
<1> USE ServicesAssumption DEF R!ReviewAssumption
<1> USE DEF ReviewInv, ReviewTypes, ReviewAccounts, R!AllEnded, R!Skipped
<1>1. CASE R!StartDisabled
  <2>1. \A g \in R!Groups : ~ (g <= Len(<<>>))
    BY DEF R!Groups
  <2>2. \A g \in R!Groups : session[g] = "none"
    BY <1>1, <2>1 DEF R!StartDisabled
  <2> QED
    BY <1>1, <2>2 DEF R!StartDisabled, R!ToDiff
<1>2. CASE R!StartError
  BY <1>2 DEF R!StartError
<1>3. CASE R!StartAgent
  <2>1. \A g \in R!Groups :
          session'[g] = IF g <= Len(plan') THEN "waiting" ELSE "none"
    BY <1>3 DEF R!StartAgent
  <2> QED
    BY <1>3, <2>1 DEF R!StartAgent
<1>4. CASE R!Abort
  BY <1>4 DEF R!Abort, R!ToDiff
<1>5. CASE R!Merge
  <2>1. result'.mode = "agentic" /\ result'.skipped = R!Skipped
    BY <1>5 DEF R!Merge, ResultsOfReview
  <2> QED
    BY <1>5, <2>1 DEF R!Merge
<1>6. CASE R!Score
  <2>1. CASE result.found = {}
    BY <1>6, <2>1 DEF R!Score, R!ToDiff, R!NoResult
  <2>2. CASE result.found # {}
    <3>1. result'.mode = result.mode /\ result'.skipped = result.skipped
      BY <1>6, <2>2 DEF R!Score, ResultsOfReview
    <3> QED
      BY <1>6, <2>2, <3>1 DEF R!Score
  <2> QED
    BY <2>1, <2>2
<1>7. CASE R!Conclude
  BY <1>7 DEF R!Conclude
<1>8. CASE R!TimeRuns
  BY <1>8 DEF R!TimeRuns
<1> QED
  BY <1>1, <1>2, <1>3, <1>4, <1>5, <1>6, <1>7, <1>8

\* The steps of one group keep the accounts (ReviewRun Sessions, ReviewGroup).
LEMMA GroupAccounts ==
  ASSUME ReviewInv, NEW g \in R!Groups,
         \/ R!ReviewGroup(g) \/ R!ReviewFails(g)
         \/ R!BeginSession(g) \/ R!EndSession(g) \/ R!FailSession(g) \/ R!BreakSession(g)
  PROVE  ReviewAccounts'
<1> USE ServicesAssumption DEF R!ReviewAssumption
<1> USE DEF ReviewInv, ReviewTypes, ReviewAccounts, R!AllEnded, R!Skipped
<1>1. CASE R!ReviewGroup(g)
  <2>1. result'.mode = "diff"
    BY <1>1 DEF R!ReviewGroup
  <2> QED
    BY <1>1, <2>1 DEF R!ReviewGroup
<1>2. CASE R!ReviewFails(g)
  BY <1>2 DEF R!ReviewFails, R!NoResult
<1>3. CASE R!BeginSession(g)
  BY <1>3 DEF R!BeginSession
<1>4. CASE R!EndSession(g)
  BY <1>4 DEF R!EndSession
<1>5. CASE R!FailSession(g)
  BY <1>5 DEF R!FailSession, R!Raise
<1>6. CASE R!BreakSession(g)
  BY <1>6 DEF R!BreakSession, R!Raise
<1> QED
  BY <1>1, <1>2, <1>3, <1>4, <1>5, <1>6

\* The invariant of a review holds throughout (run_agentic_review,
\* review_in_groups).
LEMMA ReviewCorrect == Spec => []ReviewInv
<1>1. Init => ReviewInv
  BY ReviewInit DEF Init
<1>2. ASSUME ReviewInv, [Next]_vars
      PROVE  ReviewInv'
  <2>1. [R!Next]_rvars
    BY <1>2, StepOfParts
  <2>2. CASE UNCHANGED rvars
    BY <1>2, <2>2 DEF rvars, ReviewInv, ReviewTypes, ReviewAccounts, R!Running, R!AllEnded,
                      R!Skipped
  <2>3. CASE R!Next
    <3>1. ReviewTypes'
      BY <1>2, <2>3, TrackTypes, GroupTypes DEF R!Next, R!Track, R!Sessions
    <3>2. ReviewAccounts'
      BY <1>2, <2>3, TrackAccounts, GroupAccounts DEF R!Next, R!Track, R!Sessions
    <3> QED
      BY <3>1, <3>2 DEF ReviewInv
  <2> QED
    BY <2>1, <2>2, <2>3
<1> QED
  BY <1>1, <1>2, PTL DEF Spec

\* An agentic result tells of every grouped file, for any plans, concurrency
\* and number of failures (run_agentic_review: gather, budget_skipped).
THEOREM FilesAreAccounted == Spec => []FilesAccounted
<1>1. ASSUME ReviewInv
      PROVE  FilesAccounted
  <2> USE <1>1 DEF ReviewInv, ReviewTypes, ReviewAccounts, R!AllEnded
  <2>1. ASSUME phase = "done", result.mode = "agentic", NEW g \in DOMAIN plan
        PROVE  session[g] = "ended" \/ plan[g] \subseteq result.skipped
    <3>1. g \in R!Groups /\ g <= Len(plan)
      <4>1. plan \in Seq(SUBSET R!Files) /\ Len(plan) \in 0..MaxGroups
        BY PlanGroups
      <4>2. g \in 1..Len(plan)
        BY <2>1, <4>1
      <4>3. MaxGroups \in Nat
        BY ServicesAssumption DEF R!ReviewAssumption
      <4> QED
        BY <4>1, <4>2, <4>3 DEF R!Groups
    <3>2. session[g] \in {"ended", "skipped"}
      BY <2>1, <3>1
    <3>3. CASE session[g] = "skipped"
      BY <2>1, <3>1, <3>3 DEF R!Skipped
    <3> QED
      BY <3>2, <3>3
  <2>2. ASSUME phase \in {"scoring", "diff", "done"}, raised = "none", NEW g \in R!Groups
        PROVE  session[g] \notin {"waiting", "running"}
    BY <2>2
  <2> QED
    BY <2>1, <2>2 DEF FilesAccounted, R!FilesAccounted
<1> QED
  BY <1>1, ReviewCorrect, PTL


\* The sessions of a review, those a failed one leaves behind among them, take
\* the slots of module Gate: one comes in below the limit only, one that ends
\* gives its slot back, and no other step moves one (run_agentic_review).
THEOREM SessionsShareGate == Spec => ImplementsGate
<1> DEFINE held == R!Running
<1>1. Init => Slots!Init
  <2> SUFFICES ASSUME Init
               PROVE  Slots!Init
    OBVIOUS
  <2>1. held = {}
    BY DEF Init, R!Init, R!Running
  <2>2. Concurrency \in Nat \ {0}
    BY ServicesAssumption DEF R!ReviewAssumption
  <2> QED
    BY <2>1, <2>2 DEF Slots!Init
<1>2. ReviewInv /\ [Next]_vars => [Slots!Next]_(Slots!vars)
  <2> SUFFICES ASSUME ReviewInv, [Next]_vars
               PROVE  Slots!Next \/ held' = held
    BY DEF Slots!vars
  <2>1. session \in [R!Groups -> Sessions]
    BY DEF ReviewInv, ReviewTypes
  <2>2. ASSUME session' = session
        PROVE  held' = held
    BY <2>2 DEF R!Running
  <2>3. [R!Next]_rvars
    BY StepOfParts
  <2>4. CASE R!StartAgent
    <3>1. \A g \in R!Groups : session[g] = "none"
      <4>1. \A g \in R!Groups : ~ (g <= Len(<<>>))
        BY DEF R!Groups
      <4> QED
        BY <2>4, <4>1 DEF R!StartAgent, ReviewInv, ReviewAccounts
    <3>2. \A g \in R!Groups : session'[g] # "running"
      BY <2>4 DEF R!StartAgent
    <3> QED
      BY <3>1, <3>2 DEF R!Running
  <2>5. ASSUME NEW g \in R!Groups, R!BeginSession(g)
        PROVE  Slots!Next \/ held' = held
    <3>1. CASE Budget /\ short
      BY <2>1, <2>5, <3>1 DEF R!BeginSession, R!Running
    <3>2. CASE ~ (Budget /\ short)
      <4>1. g \notin held /\ held' = held \cup {g}
        BY <2>1, <2>5, <3>2 DEF R!BeginSession, R!Running
      <4>2. Cardinality(held) < Concurrency
        BY <2>5, SameCardinality, Zenon DEF R!BeginSession, R!Slot
      <4>3. Slots!Cardinality(held) = Cardinality(held)
        BY DEF Slots!Cardinality, Cardinality
      <4> QED
        BY <4>1, <4>2, <4>3 DEF Slots!Next, Slots!Admit
    <3> QED
      BY <3>1, <3>2
  <2>6. ASSUME NEW g \in R!Groups, R!EndSession(g) \/ R!FailSession(g) \/ R!BreakSession(g)
        PROVE  Slots!Next
    <3>1. g \in held /\ held' = held \ {g}
      BY <2>1, <2>6 DEF R!EndSession, R!FailSession, R!BreakSession, R!Running
    <3> QED
      BY <3>1 DEF Slots!Next, Slots!Leave
  <2>7. CASE \/ R!StartDisabled \/ R!StartError \/ R!Abort \/ R!Merge \/ R!Score
             \/ R!Conclude \/ R!TimeRuns
    BY <2>2, <2>7 DEF R!StartDisabled, R!StartError, R!Abort, R!Merge, R!Score, R!Conclude,
                      R!TimeRuns
  <2>8. CASE \E g \in R!Groups : R!ReviewGroup(g) \/ R!ReviewFails(g)
    BY <2>2, <2>8 DEF R!ReviewGroup, R!ReviewFails
  <2>9. CASE UNCHANGED rvars
    BY <2>2, <2>9 DEF rvars
  <2> QED
    BY <2>3, <2>4, <2>5, <2>6, <2>7, <2>8, <2>9 DEF R!Next, R!Track, R!Sessions
<1> QED
  BY <1>1, <1>2, ReviewCorrect, PTL DEF Spec, ImplementsGate, Slots!Spec

-----------------------------------------------------------------------------
(* Least and greatest elements *)

\* A set of naturals that is not empty has a least element.
LEMMA LeastNat ==
  ASSUME NEW T \in SUBSET Nat, T # {}
  PROVE  \E m \in T : \A n \in T : m <= n
<1> DEFINE R1 == {ss \in Nat \X Nat : ss[1] < ss[2]}
<1>1. IsWellFoundedOn(R1, Nat)
  BY NatLessThanWellFounded DEF OpToRel
<1>2. \A x, y \in Nat : y < x => <<y, x>> \in R1
  OBVIOUS
<1> HIDE DEF R1
<1>3. \E x \in T : \A y \in T : ~ (<<y, x>> \in R1)
  BY <1>1, WFMin
<1>4. PICK x \in T : \A y \in T : ~ (<<y, x>> \in R1)
  BY <1>3
<1>5. ASSUME NEW n \in T
      PROVE  x <= n
  <2>1. x \in Nat /\ n \in Nat
    OBVIOUS
  <2>2. ~ (n < x)
    BY <2>1, <1>2, <1>4
  <2> QED
    BY <2>1, <2>2
<1> QED
  BY <1>5

\* A set of naturals that has a bound has a greatest element.
LEMMA GreatestNat ==
  ASSUME NEW n \in Nat, NEW T \in SUBSET (0..n), T # {}
  PROVE  \E m \in T : \A k \in T : k <= m
<1> DEFINE U == {n - k : k \in T}
<1>1. U \in SUBSET Nat /\ U # {}
  OBVIOUS
<1>2. PICK u \in U : \A k \in U : u <= k
  BY <1>1, LeastNat
<1>3. PICK m \in T : u = n - m
  BY <1>2
<1>4. ASSUME NEW k \in T
      PROVE  k <= m
  <2>1. n - m <= n - k
    BY <1>2, <1>3
  <2> QED
    BY <2>1
<1> QED
  BY <1>4

-----------------------------------------------------------------------------
(* The size of a list, a fold *)

Msgs == [role : A!Roles, round : 0..MaxIterations, size : Nat,
         told : SUBSET (0..MaxIterations)]

\* One step of the fold of Used: a position of the set is taken away.
Pick(s)        == CHOOSE x \in s : TRUE
Sum(ms, f, s)  == IF s = {} THEN 0 ELSE ms[Pick(s)].size + f[s \ {Pick(s)}]
Smaller(D, n)  == {s \in SUBSET D : Cardinality(s) <= n}

\* The function that the fold of Used computes exists, on all sets of up to
\* n positions.
LEMMA SumOnSmallSets ==
  ASSUME NEW ms, NEW D, IsFiniteSet(D), \A i \in D : ms[i].size \in Nat, NEW n \in Nat
  PROVE  \E f \in [Smaller(D, n) -> Nat] : f = [s \in Smaller(D, n) |-> Sum(ms, f, s)]
<1> DEFINE Small(k) == Smaller(D, k)
           Body(f, s) == Sum(ms, f, s)
           Good(k) == \E f \in [Small(k) -> Nat] : f = [s \in Small(k) |-> Body(f, s)]
           T == {k \in Nat : ~Good(k)}
<1> USE DEF Pick, Sum, Smaller
<1>1. \A s \in SUBSET D : /\ IsFiniteSet(s) /\ Cardinality(s) \in Nat
                          /\ s # {} => /\ Pick(s) \in s /\ s \ {Pick(s)} \in SUBSET D
                                       /\ Cardinality(s \ {Pick(s)}) = Cardinality(s) - 1
                                       /\ ms[Pick(s)].size \in Nat
  <2> TAKE s \in SUBSET D
  <2>1. IsFiniteSet(s) /\ Cardinality(s) \in Nat
    BY FS_Subset, FS_CardinalityType
  <2>2. ASSUME s # {}
        PROVE  Pick(s) \in s
    BY <2>2
  <2>3. ASSUME s # {}
        PROVE  Cardinality(s \ {Pick(s)}) = Cardinality(s) - 1
    BY <2>1, <2>2, <2>3, FS_RemoveElement
  <2> QED
    BY <2>1, <2>2, <2>3
<1>2. \A s \in SUBSET D : Cardinality(s) = 0 => s = {}
  BY <1>1, FS_EmptySet
<1> HIDE DEF Pick
<1>3. Good(0)
  <2> DEFINE f == [s \in Small(0) |-> 0]
  <2>1. ASSUME NEW s \in Small(0)
        PROVE  s = {}
    <3>1. Cardinality(s) \in Nat /\ Cardinality(s) <= 0
      BY <1>1
    <3> QED
      BY <1>2, <3>1
  <2>2. f \in [Small(0) -> Nat]
    OBVIOUS
  <2>3. f = [s \in Small(0) |-> Body(f, s)]
    BY <2>1
  <2> QED
    BY <2>2, <2>3
<1>4. ASSUME NEW k \in Nat, Good(k)
      PROVE  Good(k + 1)
  <2>1. PICK f \in [Small(k) -> Nat] : f = [s \in Small(k) |-> Body(f, s)]
    BY <1>4
  <2> DEFINE g == [s \in Small(k + 1) |-> Body(f, s)]
  <2>2. \A s \in Small(k + 1) : s # {} => s \ {Pick(s)} \in Small(k)
    BY <1>1
  <2>3. ASSUME NEW s \in Small(k + 1)
        PROVE  Body(f, s) \in Nat
    <3>1. CASE s # {}
      <4>1. f[s \ {Pick(s)}] \in Nat
        BY <2>2, <3>1
      <4>2. ms[Pick(s)].size \in Nat
        BY <1>1, <3>1
      <4> QED
        BY <3>1, <4>1, <4>2
    <3> QED
      BY <3>1
  <2>4. \A s \in Small(k) : s \in Small(k + 1) /\ g[s] = f[s]
    <3> TAKE s \in Small(k)
    <3>1. s \in Small(k + 1)
      <4>1. Cardinality(s) \in Nat /\ Cardinality(s) <= k
        BY <1>1
      <4>2. Cardinality(s) <= k + 1
        BY <4>1
      <4> QED
        BY <4>2
    <3>2. f[s] = Body(f, s)
      BY <2>1
    <3> QED
      BY <3>1, <3>2
  <2>5. \A s \in Small(k + 1) : Body(g, s) = Body(f, s)
    BY <2>2, <2>4
  <2>6. g = [s \in Small(k + 1) |-> Body(g, s)]
    BY <2>5
  <2>7. g \in [Small(k + 1) -> Nat]
    BY <2>3
  <2> QED
    BY <2>6, <2>7
<1> HIDE DEF Good
<1>5. T = {}
  <2> SUFFICES ASSUME T # {}
               PROVE  FALSE
    OBVIOUS
  <2>1. PICK m \in T : \A k \in T : m <= k
    BY LeastNat
  <2>2. m \in Nat \ {0} /\ m - 1 \in Nat
    BY <1>3
  <2>3. Good(m - 1)
    BY <2>1, <2>2
  <2>4. Good((m - 1) + 1)
    BY <1>4, <2>2, <2>3
  <2> QED
    BY <2>2, <2>4
<1>6. Good(n)
  BY <1>5
<1> QED
  BY <1>6 DEF Good

\* The estimate of a list is a number: the fold adds natural sizes.
LEMMA UsedInNat ==
  ASSUME NEW ms \in Seq(Msgs)
  PROVE  A!Used(ms) \in Nat
<1> DEFINE D == DOMAIN ms
           iter == CHOOSE f : f = [s \in SUBSET D |-> Sum(ms, f, s)]
<1>1. A!Used(ms) = iter[D]
  BY DEF A!Used, A!FoldSeq, A!FoldFunction, A!FoldFunctionOnSet, A!MapThenFoldSet,
         Sum, Pick
<1>2. /\ IsFiniteSet(D) /\ Cardinality(D) \in Nat
      /\ \A i \in D : ms[i].size \in Nat
  <2>1. Len(ms) \in Nat /\ D = 1..Len(ms)
    BY LenProperties
  <2>2. IsFiniteSet(1..Len(ms))
    BY <2>1, 1 \in Int, FS_Interval
  <2>3. \A i \in D : ms[i] \in Msgs
    BY <2>1, ElementOfSeq
  <2> QED
    BY <2>1, <2>2, <2>3, FS_CardinalityType DEF Msgs
<1>3. \A s \in SUBSET D : /\ IsFiniteSet(s) /\ Cardinality(s) \in Nat
                          /\ Cardinality(s) <= Cardinality(D)
                          /\ s # {} => /\ Pick(s) \in s /\ s \ {Pick(s)} \in SUBSET D
                                       /\ Cardinality(s \ {Pick(s)}) = Cardinality(s) - 1
  <2> TAKE s \in SUBSET D
  <2>1. IsFiniteSet(s) /\ Cardinality(s) \in Nat /\ Cardinality(s) <= Cardinality(D)
    BY <1>2, FS_Subset, FS_CardinalityType
  <2>2. ASSUME s # {}
        PROVE  Pick(s) \in s
    BY <2>2 DEF Pick
  <2>3. ASSUME s # {}
        PROVE  Cardinality(s \ {Pick(s)}) = Cardinality(s) - 1
    BY <2>1, <2>2, <2>3, FS_RemoveElement
  <2> QED
    BY <2>1, <2>2, <2>3
<1>4. \E f : f = [s \in SUBSET D |-> Sum(ms, f, s)]
  <2>1. \E f \in [Smaller(D, Cardinality(D)) -> Nat] :
          f = [s \in Smaller(D, Cardinality(D)) |-> Sum(ms, f, s)]
    <3> HIDE DEF D
    <3> QED
      BY <1>2, SumOnSmallSets
  <2>2. Smaller(D, Cardinality(D)) = SUBSET D
    BY <1>3 DEF Smaller
  <2> QED
    BY <2>1, <2>2
<1> HIDE DEF D
<1>5. iter = [s \in SUBSET D |-> Sum(ms, iter, s)]
  BY <1>4
<1> HIDE DEF iter
<1>6. \A s \in SUBSET D : iter[s] = Sum(ms, iter, s)
  BY <1>5
<1> DEFINE T == {k \in Nat : \E s \in SUBSET D : Cardinality(s) = k /\ iter[s] \notin Nat}
<1>7. T = {}
  <2> SUFFICES ASSUME T # {}
               PROVE  FALSE
    OBVIOUS
  <2>1. PICK m \in T : \A k \in T : m <= k
    BY LeastNat
  <2>2. PICK s \in SUBSET D : Cardinality(s) = m /\ iter[s] \notin Nat
    OBVIOUS
  <2>3. CASE s = {}
    BY <1>6, <2>2, <2>3 DEF Sum
  <2>4. CASE s # {}
    <3> DEFINE u == s \ {Pick(s)}
    <3>1. u \in SUBSET D /\ Cardinality(u) = m - 1 /\ Cardinality(u) \in Nat
      BY <1>3, <2>2, <2>4
    <3>2. Cardinality(u) \notin T
      <4>1. m \in Nat /\ ~ (m <= Cardinality(u))
        BY <3>1
      <4> QED
        BY <2>1, <4>1
    <3>3. iter[u] \in Nat
      BY <3>1, <3>2
    <3>4. ms[Pick(s)].size \in Nat
      BY <1>2, <1>3, <2>4
    <3>5. iter[s] = ms[Pick(s)].size + iter[u]
      BY <1>6, <2>4 DEF Sum
    <3> QED
      BY <2>2, <3>3, <3>4, <3>5
  <2> QED
    BY <2>3, <2>4
<1>8. iter[D] \in Nat
  BY <1>2, <1>7
<1> QED
  BY <1>1, <1>8

-----------------------------------------------------------------------------
(* The zones *)

\* Where the active zone begins: inside the list, and in a list longer than
\* the opening and the zone not before a tool result unless nothing is left
\* of it (_split_zones).
LEMMA Border ==
  ASSUME NEW ms \in Seq(Msgs)
  PROVE  /\ A!ActiveStart(ms) \in Int
         /\ A!ActiveStart(ms) <= Len(ms)
         /\ Len(ms) >= ActiveZone + 2 =>
              /\ A!ActiveStart(ms) >= 2
              /\ A!ActiveStart(ms) = 2 \/ ms[A!ActiveStart(ms) + 1].role # "tool"
<1> DEFINE start == Len(ms) - ActiveZone
           stops == {i \in 2..start : i = 2 \/ ms[i + 1].role # "tool"}
<1>1. Len(ms) \in Nat /\ ActiveZone \in Nat \ {0}
  BY LenProperties, ServicesAssumption DEF A!SessionAssumption
<1>2. CASE start <= 2
  <2>1. A!ActiveStart(ms) = start
    BY <1>2 DEF A!ActiveStart
  <2> QED
    BY <1>1, <1>2, <2>1
<1>3. CASE ~ (start <= 2)
  <2>1. A!ActiveStart(ms) = CHOOSE i \in stops : \A j \in stops : j <= i
    BY <1>3 DEF A!ActiveStart
  <2>2. stops \in SUBSET (0..start) /\ stops # {} /\ start \in Nat
    <3>1. start \in Nat /\ 2 \in 2..start /\ 2..start \subseteq 0..start
      BY <1>1, <1>3
    <3> QED
      BY <3>1
  <2> HIDE DEF stops
  <2>3. \E i \in stops : \A j \in stops : j <= i
    BY <2>2, GreatestNat
  <2>4. A!ActiveStart(ms) \in stops
    BY <2>1, <2>3
  <2> QED
    BY <1>1, <2>4 DEF stops
<1> QED
  BY <1>2, <1>3

\* How many messages a compression takes from the front of the list.
Cut(ms) == A!Index(ms, A!ActiveStart(ms))

\* Cut lies in the list, and in a long one past the opening and not before a
\* tool result, unless it takes nothing (_split_zones).
LEMMA CutInList ==
  ASSUME NEW ms \in Seq(Msgs)
  PROVE  /\ Cut(ms) \in 0..Len(ms)
         /\ Len(ms) >= ActiveZone + 2 =>
              Cut(ms) >= 2 /\ (Cut(ms) = 2 \/ ms[Cut(ms) + 1].role # "tool")
<1> DEFINE a == A!ActiveStart(ms)
           L == Len(ms)
<1>1. /\ a \in Int /\ a <= L /\ L \in Nat
      /\ L >= ActiveZone + 2 => a >= 2 /\ (a = 2 \/ ms[a + 1].role # "tool")
  BY Border, LenProperties
<1>2. Cut(ms) = IF a >= 0 THEN a ELSE IF L + a > 0 THEN L + a ELSE 0
  BY DEF Cut, A!Index
<1> HIDE DEF a, L
<1>3. Cut(ms) \in 0..L
  BY <1>1, <1>2
<1>4. ASSUME L >= ActiveZone + 2
      PROVE  Cut(ms) >= 2 /\ (Cut(ms) = 2 \/ ms[Cut(ms) + 1].role # "tool")
  <2>1. a >= 2 /\ Cut(ms) = a
    BY <1>1, <1>2, <1>4
  <2> QED
    BY <1>1, <1>4, <2>1
<1> QED
  BY <1>3, <1>4 DEF L

\* A part of a list, message by message.
LEMMA PartOf ==
  ASSUME NEW ms \in Seq(Msgs), NEW m \in Nat, NEW n \in 0..Len(ms), m <= n
  PROVE  /\ SubSeq(ms, m + 1, n) \in Seq(Msgs)
         /\ Len(SubSeq(ms, m + 1, n)) = n - m
         /\ \A i \in 1..n - m : SubSeq(ms, m + 1, n)[i] = ms[m + i]
<1>1. Len(ms) \in Nat /\ n \in Nat /\ m + 1 \in Nat
  BY LenProperties
<1>2. CASE m = n
  BY <1>1, <1>2
<1>3. CASE m < n
  <2>1. m + 1 \in 1..Len(ms) /\ n \in m..Len(ms)
    BY <1>1, <1>3
  <2>2. SubSeq(ms, m + 1, n) \in Seq(Msgs)
    BY <1>1, <2>1
  <2>3. Len(SubSeq(ms, m + 1, n)) = n - m
    BY <1>1, <2>1
  <2>4. ASSUME NEW i \in 1..n - m
        PROVE  SubSeq(ms, m + 1, n)[i] = ms[m + i]
    BY <1>1, <2>1, <2>4
  <2> QED
    BY <2>2, <2>3, <2>4
<1> QED
  BY <1>2, <1>3

Summary(told) == A!Message("summary", 0, 1, told)

\* A compressed list: the opening, the summary, and what is beyond the cut.
LEMMA AppliedList ==
  ASSUME NEW ms \in Seq(Msgs), Len(ms) >= 2, NEW told \in SUBSET (0..MaxIterations)
  PROVE  /\ A!Applied(ms, told) \in Seq(Msgs)
         /\ Len(A!Applied(ms, told)) = 3 + Len(ms) - Cut(ms)
         /\ \A i \in 1..2 : A!Applied(ms, told)[i] = ms[i]
         /\ A!Applied(ms, told)[3] = Summary(told)
         /\ \A i \in 4..3 + Len(ms) - Cut(ms) : A!Applied(ms, told)[i] = ms[Cut(ms) + i - 3]
<1> DEFINE F == SubSeq(ms, 1, 2)
           V == SubSeq(ms, Cut(ms) + 1, Len(ms))
           X == <<Summary(told)>>
<1>1. Len(ms) \in Nat /\ Cut(ms) \in 0..Len(ms) /\ Cut(ms) \in Nat
  BY CutInList, LenProperties
<1>2. F \in Seq(Msgs) /\ Len(F) = 2 /\ F[1] = ms[1] /\ F[2] = ms[2]
  <2>1. SubSeq(ms, 0 + 1, 2) = F
    OBVIOUS
  <2>2. 2 \in 0..Len(ms)
    BY <1>1
  <2>3. F \in Seq(Msgs) /\ Len(F) = 2 - 0 /\ \A i \in 1..2 - 0 : F[i] = ms[0 + i]
    BY <2>1, <2>2, PartOf
  <2> QED
    BY <2>3
<1>3. /\ V \in Seq(Msgs) /\ Len(V) = Len(ms) - Cut(ms)
      /\ \A i \in 1..Len(ms) - Cut(ms) : V[i] = ms[Cut(ms) + i]
  <2>1. Len(ms) \in 0..Len(ms) /\ Cut(ms) <= Len(ms)
    BY <1>1
  <2> QED
    BY <1>1, <2>1, PartOf
<1>4. Summary(told) \in Msgs
  BY ServicesAssumption DEF Summary, A!Message, Msgs, A!Roles, A!SessionAssumption
<1>5. X \in Seq(Msgs) /\ Len(X) = 1 /\ X[1] = Summary(told)
  BY <1>4
<1>6. A!Applied(ms, told) = (F \o X) \o V
  <2>1. Len(ms) >= 0
    BY <1>1
  <2> QED
    BY <2>1 DEF A!Applied, A!Frozen, A!Active, A!Slice, A!Index, Cut, Summary
<1> HIDE DEF F, V, X
<1> DEFINE G == F \o X
<1>7. G \in Seq(Msgs) /\ Len(G) = 3 /\ G[1] = ms[1] /\ G[2] = ms[2] /\ G[3] = Summary(told)
  <2>1. /\ G \in Seq(Msgs) /\ Len(G) = Len(F) + Len(X)
        /\ \A i \in 1..Len(F) + Len(X) :
             G[i] = IF i <= Len(F) THEN F[i] ELSE X[i - Len(F)]
    BY <1>2, <1>5, ConcatProperties
  <2>2. 1 \in 1..3 /\ 2 \in 1..3 /\ 3 \in 1..3 /\ 3 - 2 = 1 /\ 2 + 1 = 3
    OBVIOUS
  <2> QED
    BY <1>2, <1>5, <2>1, <2>2
<1> HIDE DEF G
<1>8. /\ G \o V \in Seq(Msgs) /\ Len(G \o V) = 3 + (Len(ms) - Cut(ms))
      /\ \A i \in 1..3 : (G \o V)[i] = G[i]
      /\ \A i \in 4..3 + (Len(ms) - Cut(ms)) : (G \o V)[i] = V[i - 3]
  <2>1. /\ G \o V \in Seq(Msgs) /\ Len(G \o V) = Len(G) + Len(V)
        /\ \A i \in 1..Len(G) + Len(V) :
             (G \o V)[i] = IF i <= Len(G) THEN G[i] ELSE V[i - Len(G)]
    BY <1>3, <1>7, ConcatProperties
  <2>2. \A i \in 1..3 : i \in 1..3 + (Len(ms) - Cut(ms)) /\ i <= 3
    BY <1>1
  <2>3. \A i \in 4..3 + (Len(ms) - Cut(ms)) :
          i \in 1..3 + (Len(ms) - Cut(ms)) /\ ~ (i <= 3)
    BY <1>1
  <2> QED
    BY <1>3, <1>7, <2>1, <2>2, <2>3
<1>9. ASSUME NEW i \in 4..3 + Len(ms) - Cut(ms)
      PROVE  (G \o V)[i] = ms[Cut(ms) + i - 3]
  <2>1. /\ i \in 4..3 + (Len(ms) - Cut(ms)) /\ i - 3 \in 1..Len(ms) - Cut(ms)
        /\ Cut(ms) + (i - 3) = Cut(ms) + i - 3
    BY <1>1
  <2> QED
    BY <1>3, <1>8, <2>1
<1>10. Len(G \o V) = 3 + Len(ms) - Cut(ms) /\ \A i \in 1..2 : (G \o V)[i] = ms[i]
  <2>1. 3 + (Len(ms) - Cut(ms)) = 3 + Len(ms) - Cut(ms)
    BY <1>1
  <2>2. \A i \in 1..2 : i \in 1..3 /\ G[i] = ms[i]
    BY <1>7
  <2> QED
    BY <1>8, <2>1, <2>2
<1>11. (G \o V)[3] = Summary(told)
  <2>1. 3 \in 1..3
    OBVIOUS
  <2> QED
    BY <2>1, <1>7, <1>8
<1>12. A!Applied(ms, told) = G \o V
  BY <1>6 DEF G
<1> QED
  BY <1>8, <1>9, <1>10, <1>11, <1>12

\* What is compressed: the messages from the opening to the cut.
LEMMA CompressibleList ==
  ASSUME NEW ms \in Seq(Msgs), Len(ms) >= 2
  PROVE  /\ A!Compressible(ms) \in Seq(Msgs)
         /\ \A i \in 3..Cut(ms) : \E j \in DOMAIN A!Compressible(ms) :
              A!Compressible(ms)[j] = ms[i]
<1>1. Len(ms) \in Nat /\ Cut(ms) \in 0..Len(ms) /\ Cut(ms) \in Nat
  BY CutInList, LenProperties
<1>2. A!Compressible(ms) = SubSeq(ms, 2 + 1, Cut(ms))
  BY DEF A!Compressible, A!Slice, A!Index, Cut
<1>3. CASE Cut(ms) < 2
  <2>1. SubSeq(ms, 2 + 1, Cut(ms)) = <<>>
    BY <1>1, <1>3
  <2> QED
    BY <1>1, <1>2, <1>3, <2>1
<1>4. CASE Cut(ms) >= 2
  <2> DEFINE U == SubSeq(ms, 2 + 1, Cut(ms))
  <2>1. /\ U \in Seq(Msgs) /\ Len(U) = Cut(ms) - 2
        /\ \A i \in 1..Cut(ms) - 2 : U[i] = ms[2 + i]
    BY <1>1, <1>4, PartOf
  <2> HIDE DEF U
  <2>2. ASSUME NEW i \in 3..Cut(ms)
        PROVE  i - 2 \in DOMAIN U /\ U[i - 2] = ms[i]
    <3>1. i - 2 \in 1..Cut(ms) - 2 /\ 2 + (i - 2) = i
      BY <1>1
    <3> QED
      BY <2>1, <3>1
  <2> QED
    BY <1>2, <2>1, <2>2 DEF U
<1> QED
  BY <1>1, <1>3, <1>4

-----------------------------------------------------------------------------
(* What a list tells of *)

Tells(m) == IF m.role = "summary" THEN m.told ELSE {m.round}

\* A round is told of by some message of the list (Told).
LEMMA ToldBy ==
  ASSUME NEW ms \in Seq(Msgs)
  PROVE  /\ \A r : r \in A!Told(ms) <=> \E i \in DOMAIN ms : r \in Tells(ms[i])
         /\ A!Told(ms) \subseteq 0..MaxIterations
<1>1. \A r : r \in A!Told(ms) <=> \E i \in DOMAIN ms : r \in Tells(ms[i])
  BY DEF A!Told, A!Range, Tells
<1>2. \A i \in DOMAIN ms : ms[i] \in Msgs
  BY LenProperties, ElementOfSeq
<1>3. \A i \in DOMAIN ms : Tells(ms[i]) \subseteq 0..MaxIterations
  BY <1>2 DEF Tells, Msgs
<1> QED
  BY <1>1, <1>3

\* A list that keeps every message tells of as much.
LEMMA ToldGrows ==
  ASSUME NEW ms \in Seq(Msgs), NEW ns \in Seq(Msgs),
         \A i \in DOMAIN ms : \E j \in DOMAIN ns : ns[j] = ms[i]
  PROVE  A!Told(ms) \subseteq A!Told(ns)
<1>1. ASSUME NEW r \in A!Told(ms)
      PROVE  r \in A!Told(ns)
  <2>1. PICK i \in DOMAIN ms : r \in Tells(ms[i])
    BY ToldBy
  <2>2. PICK j \in DOMAIN ns : ns[j] = ms[i]
    OBVIOUS
  <2>3. r \in Tells(ns[j])
    BY <2>1, <2>2
  <2> QED
    BY <2>3, ToldBy
<1> QED
  BY <1>1

\* A compression in place loses nothing: what is cut is in the summary
\* (compress_messages).
LEMMA CompressionTells ==
  ASSUME NEW ms \in Seq(Msgs), Len(ms) >= 2
  PROVE  A!Told(ms) \subseteq A!Told(A!Applied(ms, A!Told(A!Compressible(ms))))
<1> DEFINE cs == A!Compressible(ms)
           told == A!Told(cs)
           ns == A!Applied(ms, told)
<1>1. cs \in Seq(Msgs) /\ \A i \in 3..Cut(ms) : \E j \in DOMAIN cs : cs[j] = ms[i]
  BY CompressibleList
<1> HIDE DEF cs
<1>2. told \in SUBSET (0..MaxIterations)
  BY <1>1, ToldBy
<1> HIDE DEF told
<1>3. /\ ns \in Seq(Msgs) /\ Len(ns) = 3 + Len(ms) - Cut(ms)
      /\ \A i \in 1..2 : ns[i] = ms[i]
      /\ ns[3] = Summary(told)
      /\ \A i \in 4..3 + Len(ms) - Cut(ms) : ns[i] = ms[Cut(ms) + i - 3]
  BY <1>2, AppliedList
<1>4. Len(ms) \in Nat /\ Cut(ms) \in 0..Len(ms) /\ Cut(ms) \in Nat
  BY CutInList, LenProperties
<1>5. DOMAIN ns = 1..3 + Len(ms) - Cut(ms) /\ DOMAIN ms = 1..Len(ms)
  BY <1>3, LenProperties
<1> HIDE DEF ns
<1>6. ASSUME NEW r \in A!Told(ms)
      PROVE  r \in A!Told(ns)
  <2>1. PICK i \in DOMAIN ms : r \in Tells(ms[i])
    BY ToldBy
  <2>2. CASE i \in 1..2
    <3>1. i \in DOMAIN ns /\ ns[i] = ms[i]
      BY <1>3, <1>4, <1>5, <2>2
    <3> QED
      BY <1>3, <2>1, <3>1, ToldBy
  <2>3. CASE i \in 3..Cut(ms)
    <3>1. r \in told
      BY <1>1, <2>1, <2>3, ToldBy DEF told
    <3>2. Tells(ns[3]) = told
      BY <1>3 DEF Summary, A!Message, Tells
    <3>3. 3 \in DOMAIN ns
      BY <1>4, <1>5
    <3> QED
      BY <1>3, <3>1, <3>2, <3>3, ToldBy
  <2>4. CASE i > Cut(ms) /\ i >= 3
    <3> DEFINE j == i - Cut(ms) + 3
    <3>1. j \in 4..3 + Len(ms) - Cut(ms) /\ Cut(ms) + j - 3 = i /\ j \in DOMAIN ns
      BY <1>4, <1>5, <2>4
    <3>2. ns[j] = ms[i]
      BY <1>3, <3>1
    <3> QED
      BY <1>3, <2>1, <3>1, <3>2, ToldBy
  <2> QED
    BY <1>4, <1>5, <2>2, <2>3, <2>4
<1> QED
  BY <1>6 DEF ns, told, cs

-----------------------------------------------------------------------------
(* The shape of the list *)

\* The opening stands at the head.
Opening(ms) == Len(ms) >= 2 /\ ms[1].role = "system" /\ ms[2].role = "user"

\* Calls and results of a round stand together: between an assistant turn and
\* a result of its round there are only results.
Blocks(ms) ==
  \A j, i \in DOMAIN ms :
    j < i /\ ms[j].role = "assistant" /\ ms[i].role = "tool" /\ ms[i].round = ms[j].round
      => \A k \in j + 1..i : ms[k].role = "tool"

\* No turn or result is of a round after n.
Upto(ms, n) == \A i \in DOMAIN ms : ms[i].role \in {"assistant", "tool"} => ms[i].round <= n

\* A compression keeps the shape of the list (compress_messages).
LEMMA CompressionShape ==
  ASSUME NEW ms \in Seq(Msgs), NEW told \in SUBSET (0..MaxIterations), NEW n \in Nat,
         Opening(ms), Blocks(ms), Upto(ms, n)
  PROVE  /\ Opening(A!Applied(ms, told)) /\ Blocks(A!Applied(ms, told))
         /\ Upto(A!Applied(ms, told), n)
<1> DEFINE ns == A!Applied(ms, told)
           c == Cut(ms)
<1>1. /\ ns \in Seq(Msgs) /\ Len(ns) = 3 + Len(ms) - c
      /\ \A i \in 1..2 : ns[i] = ms[i]
      /\ ns[3] = Summary(told)
      /\ \A i \in 4..3 + Len(ms) - c : ns[i] = ms[c + i - 3]
  BY AppliedList DEF Opening
<1>2. Len(ms) \in Nat /\ c \in 0..Len(ms) /\ c \in Nat
  BY CutInList, LenProperties
<1>3. DOMAIN ns = 1..3 + Len(ms) - c /\ DOMAIN ms = 1..Len(ms)
  BY <1>1, LenProperties
<1> HIDE DEF ns, c
<1>4. ns[3].role = "summary"
  BY <1>1 DEF Summary, A!Message
<1>5. Opening(ns)
  <2>1. 1 \in 1..2 /\ 2 \in 1..2
    OBVIOUS
  <2> QED
    BY <1>1, <1>2, <2>1 DEF Opening
<1>6. ASSUME NEW i \in DOMAIN ns, ns[i].role \in {"assistant", "tool"}
      PROVE  i >= 4 /\ c + i - 3 \in DOMAIN ms /\ ns[i] = ms[c + i - 3]
  <2>1. i # 1 /\ i # 2 /\ i # 3
    BY <1>4, <1>5, <1>6 DEF Opening
  <2>2. i \in 4..3 + Len(ms) - c
    BY <1>2, <1>3, <2>1
  <2>3. c + i - 3 \in 1..Len(ms)
    BY <1>2, <2>2
  <2> QED
    BY <1>1, <1>3, <2>2, <2>3
<1>7. Upto(ns, n)
  BY <1>6 DEF Upto
<1>8. Blocks(ns)
  <2> SUFFICES ASSUME NEW j \in DOMAIN ns, NEW i \in DOMAIN ns, j < i,
                      ns[j].role = "assistant", ns[i].role = "tool",
                      ns[i].round = ns[j].round, NEW k \in j + 1..i
               PROVE  ns[k].role = "tool"
    BY DEF Blocks
  <2>1. /\ j >= 4 /\ c + j - 3 \in DOMAIN ms /\ ns[j] = ms[c + j - 3]
        /\ i >= 4 /\ c + i - 3 \in DOMAIN ms /\ ns[i] = ms[c + i - 3]
    BY <1>6
  <2>2. c + j - 3 < c + i - 3
    BY <1>2, <1>3
  <2>3. \A l \in (c + j - 3) + 1..c + i - 3 : ms[l].role = "tool"
    BY <2>1, <2>2 DEF Blocks
  <2>4. /\ c + k - 3 \in (c + j - 3) + 1..c + i - 3
        /\ k \in 4..3 + Len(ms) - c
    <3>1. i \in 1..3 + Len(ms) - c /\ j \in 1..3 + Len(ms) - c
      BY <1>3
    <3>2. j >= 4
      BY <2>1
    <3>3. k \in j + 1..i
      OBVIOUS
    <3> QED
      BY ONLY <1>2, <3>1, <3>2, <3>3
  <2> QED
    BY <1>1, <2>3, <2>4
<1> QED
  BY <1>5, <1>7, <1>8 DEF ns

\* In a long list a compression cuts no result from its call and repeats
\* nothing of the opening (_split_zones).
LEMMA CompressionWellFormed ==
  ASSUME NEW ms \in Seq(Msgs), NEW told \in SUBSET (0..MaxIterations),
         Opening(ms), Blocks(ms), Len(ms) >= ActiveZone + 2, A!WellFormed(ms)
  PROVE  A!WellFormed(A!Applied(ms, told))
<1> DEFINE ns == A!Applied(ms, told)
           c == Cut(ms)
<1>1. /\ ns \in Seq(Msgs) /\ Len(ns) = 3 + Len(ms) - c
      /\ \A i \in 1..2 : ns[i] = ms[i]
      /\ ns[3] = Summary(told)
      /\ \A i \in 4..3 + Len(ms) - c : ns[i] = ms[c + i - 3]
  BY AppliedList DEF Opening
<1>2. /\ Len(ms) \in Nat /\ c \in 0..Len(ms) /\ c \in Nat
      /\ c >= 2 /\ (c = 2 \/ ms[c + 1].role # "tool")
  BY CutInList, LenProperties
<1>3. DOMAIN ns = 1..3 + Len(ms) - c /\ DOMAIN ms = 1..Len(ms)
  BY <1>1, LenProperties
<1> HIDE DEF ns, c
<1>4. ns[3].role = "summary" /\ ns[1].role = "system" /\ ns[2].role = "user"
  <2>1. 1 \in 1..2 /\ 2 \in 1..2
    OBVIOUS
  <2> QED
    BY <1>1, <2>1 DEF Summary, A!Message, Opening
<1>5. ASSUME NEW i \in DOMAIN ns, i >= 4
      PROVE  c + i - 3 \in DOMAIN ms /\ c + i - 3 >= 3 /\ ns[i] = ms[c + i - 3]
  <2>1. i \in 4..3 + Len(ms) - c /\ c + i - 3 \in 1..Len(ms) /\ c + i - 3 >= 3
    BY <1>2, <1>3, <1>5
  <2> QED
    BY <1>1, <1>3, <2>1
<1>6. {i \in DOMAIN ns : ns[i].role = "system"} = {1}
  <2>1. \A l \in DOMAIN ms : ms[l].role = "system" => l = 1
    BY DEF A!WellFormed
  <2>2. ASSUME NEW i \in DOMAIN ns, ns[i].role = "system"
        PROVE  i = 1
    <3>1. i # 2 /\ i # 3
      BY <1>4, <2>2
    <3>2. ~ (i >= 4)
      <4>1. ASSUME i >= 4
            PROVE  FALSE
        <5>1. c + i - 3 \in DOMAIN ms /\ c + i - 3 >= 3 /\ ms[c + i - 3].role = "system"
          BY <1>5, <2>2, <4>1
        <5> QED
          BY <2>1, <5>1
      <4> QED
        BY <4>1
    <3> QED
      BY <1>2, <1>3, <3>1, <3>2
  <2>3. 1 \in DOMAIN ns
    BY <1>2, <1>3
  <2> QED
    BY <1>4, <2>2, <2>3
<1>7. ASSUME NEW i \in DOMAIN ns, ns[i].role = "tool"
      PROVE  \E j \in 1..i - 1 : ns[j].role = "assistant" /\ ns[j].round = ns[i].round
  <2>1. i # 1 /\ i # 2 /\ i # 3
    BY <1>4, <1>7
  <2>2. i >= 4 /\ i \in Nat
    BY <1>2, <1>3, <2>1
  <2> DEFINE p == c + i - 3
  <2>3. p \in DOMAIN ms /\ p >= 3 /\ ns[i] = ms[p] /\ ms[p].role = "tool"
    BY <1>5, <1>7, <2>2
  <2> HIDE DEF p
  <2>4. PICK q \in 1..p - 1 : ms[q].role = "assistant" /\ ms[q].round = ms[p].round
    BY <2>3 DEF A!WellFormed
  <2>5. q \in DOMAIN ms /\ q < p /\ q # 1 /\ q # 2
    BY <1>2, <1>3, <2>3, <2>4 DEF Opening
  <2>6. \A k \in q + 1..p : ms[k].role = "tool"
    BY <2>3, <2>4, <2>5 DEF Blocks
  <2>7. q > c
    <3>1. CASE c = 2
      BY <2>4, <2>5, <3>1
    <3>2. CASE c # 2
      <4>1. ms[c + 1].role # "tool"
        BY <1>2, <3>2
      <4>2. c + 1 \notin q + 1..p
        BY <2>6, <4>1
      <4>3. c + 1 <= p
        BY <1>2, <2>2 DEF p
      <4> QED
        BY <1>2, <1>3, <2>3, <2>5, <4>2, <4>3
    <3> QED
      BY <3>1, <3>2
  <2> DEFINE j == q - c + 3
  <2>8. j \in DOMAIN ns /\ j >= 4 /\ j \in 1..i - 1 /\ c + j - 3 = q
    <3>1. c \in Nat /\ i \in Nat /\ q \in Nat /\ q > c /\ q <= (c + i - 3) - 1
      BY <1>2, <1>3, <2>2, <2>4, <2>5, <2>7 DEF p
    <3>2. j >= 4 /\ j \in 1..i - 1 /\ c + j - 3 = q
      BY <3>1
    <3>3. i <= 3 + Len(ms) - c
      BY <1>3
    <3>4. j \in 1..3 + Len(ms) - c
      BY <1>2, <3>1, <3>2, <3>3
    <3> QED
      BY <1>3, <3>2, <3>4
  <2>9. ns[j] = ms[q]
    BY <1>5, <2>8
  <2> QED
    BY <2>3, <2>4, <2>8, <2>9
<1> QED
  BY <1>6, <1>7 DEF A!WellFormed, ns

\* A hint of the user leaves the shape as it is (run_agent_session).
LEMMA HintShape ==
  ASSUME NEW ms \in Seq(Msgs), NEW m \in Msgs, m.role = "user", NEW n \in Nat,
         Opening(ms), Blocks(ms), Upto(ms, n)
  PROVE  /\ Append(ms, m) \in Seq(Msgs)
         /\ Opening(Append(ms, m)) /\ Blocks(Append(ms, m)) /\ Upto(Append(ms, m), n)
         /\ A!WellFormed(ms) => A!WellFormed(Append(ms, m))
         /\ A!Told(ms) \subseteq A!Told(Append(ms, m))
<1> DEFINE ns == Append(ms, m)
           L == Len(ms)
<1>1. /\ ns \in Seq(Msgs) /\ Len(ns) = L + 1 /\ ns[L + 1] = m /\ L \in Nat
      /\ \A i \in 1..L : ns[i] = ms[i]
  BY AppendProperties, LenProperties
<1>2. DOMAIN ns = 1..L + 1 /\ DOMAIN ms = 1..L
  BY <1>1, LenProperties
<1> HIDE DEF ns, L
<1>3. L >= 2
  BY DEF Opening, L
<1>4. ASSUME NEW i \in DOMAIN ns, ns[i].role # "user"
      PROVE  i \in DOMAIN ms /\ ns[i] = ms[i]
  <2>1. i # L + 1
    BY <1>1, <1>4
  <2>2. i \in 1..L
    BY <1>1, <1>2, <2>1
  <2> QED
    BY <1>1, <1>2, <2>2
<1>5. Opening(ns)
  <2>1. 1 \in 1..L /\ 2 \in 1..L
    BY <1>1, <1>3
  <2>2. ns[1] = ms[1] /\ ns[2] = ms[2] /\ Len(ns) >= 2
    BY <1>1, <2>1
  <2> QED
    BY <2>2 DEF Opening
<1>6. Upto(ns, n)
  BY <1>4 DEF Upto
<1>7. Blocks(ns)
  <2> SUFFICES ASSUME NEW j \in DOMAIN ns, NEW i \in DOMAIN ns, j < i,
                      ns[j].role = "assistant", ns[i].role = "tool",
                      ns[i].round = ns[j].round, NEW k \in j + 1..i
               PROVE  ns[k].role = "tool"
    BY DEF Blocks
  <2>1. j \in DOMAIN ms /\ i \in DOMAIN ms /\ ns[j] = ms[j] /\ ns[i] = ms[i]
    BY <1>4
  <2>2. ms[k].role = "tool"
    BY <2>1 DEF Blocks
  <2>3. k \in 1..L
    BY <1>1, <1>2, <2>1
  <2> QED
    BY <1>1, <2>2, <2>3
<1>8. ASSUME A!WellFormed(ms)
      PROVE  A!WellFormed(ns)
  <2>1. {i \in DOMAIN ns : ns[i].role = "system"} = {1}
    <3>1. {i \in DOMAIN ms : ms[i].role = "system"} = {1}
      BY <1>8 DEF A!WellFormed
    <3>2. 1 \in DOMAIN ns /\ ns[1].role = "system"
      BY <1>1, <1>2, <1>5 DEF Opening
    <3> QED
      BY <1>4, <3>1, <3>2
  <2>2. ASSUME NEW i \in DOMAIN ns, ns[i].role = "tool"
        PROVE  \E j \in 1..i - 1 : ns[j].role = "assistant" /\ ns[j].round = ns[i].round
    <3>1. i \in DOMAIN ms /\ ns[i] = ms[i]
      BY <1>4, <2>2
    <3>2. PICK j \in 1..i - 1 : ms[j].role = "assistant" /\ ms[j].round = ms[i].round
      BY <1>8, <2>2, <3>1 DEF A!WellFormed
    <3>3. j \in 1..L
      BY <1>1, <1>2, <3>1
    <3> QED
      BY <1>1, <3>1, <3>2, <3>3
  <2> QED
    BY <2>1, <2>2 DEF A!WellFormed
<1>9. A!Told(ms) \subseteq A!Told(ns)
  <2>1. \A i \in DOMAIN ms : i \in DOMAIN ns /\ ns[i] = ms[i]
    BY <1>1, <1>2
  <2> QED
    BY <1>1, <2>1, ToldGrows
<1> QED
  BY <1>1, <1>5, <1>6, <1>7, <1>8, <1>9 DEF ns

\* The list after a turn: the call and its results, all of the new round.
LEMMA TurnList ==
  ASSUME NEW ms \in Seq(Msgs), NEW a \in Msgs, NEW t \in Msgs, NEW n \in Nat
  PROVE  /\ (ms \o <<a>>) \o [i \in 1..n |-> t] \in Seq(Msgs)
         /\ Len((ms \o <<a>>) \o [i \in 1..n |-> t]) = Len(ms) + 1 + n
         /\ \A i \in 1..Len(ms) : ((ms \o <<a>>) \o [j \in 1..n |-> t])[i] = ms[i]
         /\ ((ms \o <<a>>) \o [i \in 1..n |-> t])[Len(ms) + 1] = a
         /\ \A i \in Len(ms) + 2..Len(ms) + 1 + n :
              ((ms \o <<a>>) \o [j \in 1..n |-> t])[i] = t
<1> DEFINE ts == [i \in 1..n |-> t]
           L == Len(ms)
           G == ms \o <<a>>
<1>1. ts \in Seq(Msgs) /\ Len(ts) = n /\ \A i \in 1..n : ts[i] = t
  OBVIOUS
<1>2. <<a>> \in Seq(Msgs) /\ Len(<<a>>) = 1 /\ <<a>>[1] = a
  OBVIOUS
<1>3. L \in Nat
  BY LenProperties
<1>4. /\ G \in Seq(Msgs) /\ Len(G) = L + 1
      /\ \A i \in 1..L + 1 : G[i] = IF i <= L THEN ms[i] ELSE <<a>>[i - L]
  BY <1>2, <1>3, ConcatProperties
<1> HIDE DEF ts, L, G
<1>5. /\ G \o ts \in Seq(Msgs) /\ Len(G \o ts) = L + 1 + n
      /\ \A i \in 1..L + 1 + n :
           (G \o ts)[i] = IF i <= L + 1 THEN G[i] ELSE ts[i - (L + 1)]
  <2>1. /\ G \o ts \in Seq(Msgs) /\ Len(G \o ts) = Len(G) + Len(ts)
        /\ \A i \in 1..Len(G) + Len(ts) :
             (G \o ts)[i] = IF i <= Len(G) THEN G[i] ELSE ts[i - Len(G)]
    BY <1>1, <1>4, ConcatProperties
  <2> QED
    BY <1>1, <1>4, <2>1
<1>6. ASSUME NEW i \in 1..L
      PROVE  (G \o ts)[i] = ms[i]
  <2>1. i \in 1..L + 1 + n /\ i \in 1..L + 1 /\ i <= L /\ i <= L + 1
    BY <1>3
  <2> QED
    BY <1>4, <1>5, <2>1
<1>7. (G \o ts)[L + 1] = a
  <2>1. L + 1 \in 1..L + 1 + n /\ L + 1 \in 1..L + 1 /\ ~ (L + 1 <= L) /\ (L + 1) - L = 1
    BY <1>3
  <2>2. (G \o ts)[L + 1] = G[L + 1]
    BY <1>5, <2>1
  <2>3. G[L + 1] = <<a>>[(L + 1) - L]
    BY <1>4, <2>1
  <2> QED
    BY <1>2, <2>1, <2>2, <2>3
<1>8. ASSUME NEW i \in L + 2..L + 1 + n
      PROVE  (G \o ts)[i] = t
  <2>1. i \in 1..L + 1 + n /\ ~ (i <= L + 1) /\ i - (L + 1) \in 1..n
    BY <1>3
  <2> QED
    BY <1>1, <1>5, <2>1
<1> QED
  BY <1>5, <1>6, <1>7, <1>8 DEF ts, L, G

\* A turn of the agent adds one block of its own round (run_agent_session).
LEMMA TurnShape ==
  ASSUME NEW ms \in Seq(Msgs), NEW ns \in Seq(Msgs), NEW n \in Nat, NEW m \in Nat,
         Opening(ms), Blocks(ms), Upto(ms, n),
         Len(ns) = Len(ms) + 1 + m,
         \A i \in 1..Len(ms) : ns[i] = ms[i],
         ns[Len(ms) + 1].role = "assistant", ns[Len(ms) + 1].round = n + 1,
         \A i \in Len(ms) + 2..Len(ms) + 1 + m : ns[i].role = "tool" /\ ns[i].round = n + 1
  PROVE  /\ Opening(ns) /\ Blocks(ns) /\ Upto(ns, n + 1)
         /\ A!WellFormed(ms) => A!WellFormed(ns)
         /\ A!Told(ms) \subseteq A!Told(ns)
<1> DEFINE L == Len(ms)
<1>1. L \in Nat /\ L >= 2 /\ DOMAIN ms = 1..L /\ DOMAIN ns = 1..L + 1 + m
  BY LenProperties DEF Opening
<1>2. /\ Len(ns) = L + 1 + m
      /\ \A i \in 1..L : ns[i] = ms[i]
      /\ ns[L + 1].role = "assistant" /\ ns[L + 1].round = n + 1
      /\ \A i \in L + 2..L + 1 + m : ns[i].role = "tool" /\ ns[i].round = n + 1
  OBVIOUS
<1> HIDE DEF L
<1>3. ASSUME NEW i \in DOMAIN ns
      PROVE  \/ i \in DOMAIN ms /\ i <= L /\ ns[i] = ms[i]
             \/ i = L + 1
             \/ i \in L + 2..L + 1 + m
  <2>1. i \in 1..L \/ i = L + 1 \/ i \in L + 2..L + 1 + m
    BY <1>1
  <2> QED
    BY <1>1, <1>2, <2>1
<1>4. Opening(ns)
  <2>1. 1 \in 1..L /\ 2 \in 1..L /\ Len(ns) >= 2
    BY <1>1, <1>2
  <2>2. ns[1] = ms[1] /\ ns[2] = ms[2]
    BY <1>2, <2>1
  <2> QED
    BY <2>1, <2>2 DEF Opening
<1>5. Upto(ns, n + 1)
  <2> SUFFICES ASSUME NEW i \in DOMAIN ns, ns[i].role \in {"assistant", "tool"}
               PROVE  ns[i].round <= n + 1
    BY DEF Upto
  <2>1. CASE i \in DOMAIN ms /\ ns[i] = ms[i]
    <3>1. ms[i].round <= n /\ ms[i].round \in Nat
      <4>1. ms[i] \in Msgs
        BY <1>1, <2>1, ElementOfSeq DEF L
      <4>2. ms[i].round \in 0..MaxIterations
        BY <4>1 DEF Msgs
      <4>3. ms[i].round <= n
        BY <2>1 DEF Upto
      <4> QED
        BY <4>2, <4>3
    <3> QED
      BY <2>1, <3>1
  <2>2. CASE i = L + 1 \/ i \in L + 2..L + 1 + m
    BY <1>2, <2>2
  <2> QED
    BY <1>3, <2>1, <2>2
<1>6. Blocks(ns)
  <2> SUFFICES ASSUME NEW j \in DOMAIN ns, NEW i \in DOMAIN ns, j < i,
                      ns[j].role = "assistant", ns[i].role = "tool",
                      ns[i].round = ns[j].round, NEW k \in j + 1..i
               PROVE  ns[k].role = "tool"
    BY DEF Blocks
  <2>1. CASE i \in DOMAIN ms /\ i <= L /\ ns[i] = ms[i]
    <3>1. j \in 1..L /\ k \in 1..L
      BY <1>1, <2>1
    <3>2. /\ i \in DOMAIN ms /\ j \in DOMAIN ms /\ ns[j] = ms[j]
          /\ ms[j].role = "assistant" /\ ms[i].role = "tool"
          /\ ms[i].round = ms[j].round
      BY <1>1, <1>2, <2>1, <3>1
    <3>3. \A l \in j + 1..i : ms[l].role = "tool"
      BY ONLY Blocks(ms), j < i, <3>2 DEF Blocks
    <3>4. ms[k].role = "tool"
      BY ONLY <3>3, k \in j + 1..i
    <3> QED
      BY <1>2, <3>1, <3>4
  <2>2. CASE i \in L + 2..L + 1 + m
    <3>1. ns[j].round = n + 1
      BY <1>2, <2>2
    <3>2. j > L
      <4>1. ASSUME j \in DOMAIN ms, ns[j] = ms[j]
            PROVE  FALSE
        <5>1. ms[j].round <= n
          BY <4>1 DEF Upto
        <5> QED
          BY <3>1, <4>1, <5>1
      <4>2. j = L + 1 \/ j \in L + 2..L + 1 + m
        BY <1>3, <4>1
      <4> QED
        BY ONLY <1>1, <4>2, m \in Nat
    <3>3. k \in L + 2..L + 1 + m
      BY <1>1, <2>2, <3>2
    <3> QED
      BY <1>2, <3>3
  <2>3. CASE i = L + 1
    BY <1>2, <2>3
  <2> QED
    BY <1>3, <2>1, <2>2, <2>3
<1>7. ASSUME A!WellFormed(ms)
      PROVE  A!WellFormed(ns)
  <2>1. {i \in DOMAIN ns : ns[i].role = "system"} = {1}
    <3>1. {i \in DOMAIN ms : ms[i].role = "system"} = {1}
      BY <1>7 DEF A!WellFormed
    <3>2. 1 \in DOMAIN ns /\ ns[1].role = "system"
      BY <1>1, <1>4 DEF Opening
    <3>3. ASSUME NEW i \in DOMAIN ns, ns[i].role = "system"
          PROVE  i = 1
      <4>1. i \in DOMAIN ms /\ ns[i] = ms[i]
        BY <1>2, <1>3, <3>3
      <4> QED
        BY <3>1, <3>3, <4>1
    <3> QED
      BY <3>2, <3>3
  <2>2. ASSUME NEW i \in DOMAIN ns, ns[i].role = "tool"
        PROVE  \E j \in 1..i - 1 : ns[j].role = "assistant" /\ ns[j].round = ns[i].round
    <3>1. CASE i \in DOMAIN ms /\ i <= L /\ ns[i] = ms[i]
      <4>1. PICK j \in 1..i - 1 : ms[j].role = "assistant" /\ ms[j].round = ms[i].round
        BY <1>7, <2>2, <3>1 DEF A!WellFormed
      <4>2. j \in 1..L
        BY <1>1, <3>1
      <4> QED
        BY <1>2, <3>1, <4>1, <4>2
    <3>2. CASE i \in L + 2..L + 1 + m
      <4>1. L + 1 \in 1..i - 1
        BY <1>1, <3>2
      <4> QED
        BY <1>2, <3>2, <4>1
    <3>3. CASE i = L + 1
      BY <1>2, <2>2, <3>3
    <3> QED
      BY <1>3, <3>1, <3>2, <3>3
  <2> QED
    BY <2>1, <2>2 DEF A!WellFormed
<1>8. A!Told(ms) \subseteq A!Told(ns)
  <2>1. \A i \in DOMAIN ms : i \in DOMAIN ns /\ ns[i] = ms[i]
    BY <1>1, <1>2
  <2> QED
    BY <2>1, ToldGrows
<1> QED
  BY <1>4, <1>5, <1>6, <1>7, <1>8

-----------------------------------------------------------------------------
(* The invariant of the session *)

BgStates == {"none", "running", "ok", "empty", "failed"}

SessionTypes ==
  /\ messages \in Seq(Msgs)
  /\ it \in 0..MaxIterations - 1 /\ strikes \in 0..MaxEmpty + 1
  /\ at \notin A!Outs => strikes <= MaxEmpty
  /\ used \in Nat /\ stray \in Nat /\ failures \in 0..MaxFaults
  /\ grace \in BOOLEAN /\ late \in BOOLEAN
  /\ at \in {"top", "summing", "offer", "chat"} \cup A!Outs
  /\ bg \in [state : BgStates, told : SUBSET (0..MaxIterations)]
  /\ offered \in {"all", "closing"}
  /\ reason \in {"", "task_done", "grace_round", "empty_rounds_exceeded"}
  /\ state \in [done : BOOLEAN, failed : BOOLEAN]

\* The opening stands, rounds stand in blocks, and none is ahead of its time.
SessionShape ==
  /\ Opening(messages) /\ Blocks(messages)
  /\ Upto(messages, IF at \in A!Outs THEN it + 1 ELSE it)

\* While the model is asked a limit that was touched has brought the grace
\* round, and with it the two closing tools.
SessionGrace ==
  /\ at = "chat" => (A!Touched => grace) /\ (grace => offered = "closing")
  /\ A!LimitsGrace

SessionInv == SessionTypes /\ SessionShape /\ SessionGrace

\* A session starts with its opening (AgentSession Init).
LEMMA SessionInit ==
  ASSUME A!Init
  PROVE  SessionInv
<1> USE ServicesAssumption DEF A!SessionAssumption
<1>1. PICK size \in Openings :
        messages = <<A!Message("system", 0, 1, {}), A!Message("user", 0, size, {})>>
  BY Zenon DEF A!Init
<1>2. /\ it = 0 /\ strikes = 0 /\ used = 0 /\ stray = 0 /\ failures = 0
      /\ at = "top" /\ bg = A!NoBg /\ offered = "all" /\ reason = ""
      /\ state = [done |-> FALSE, failed |-> FALSE]
  BY Zenon DEF A!Init
<1>3. grace \in BOOLEAN /\ late \in BOOLEAN
  BY Zenon DEF A!Init
<1>4. /\ A!Message("system", 0, 1, {}) \in Msgs /\ A!Message("user", 0, size, {}) \in Msgs
  BY DEF A!Message, Msgs, A!Roles
<1>5. messages \in Seq(Msgs) /\ Len(messages) = 2
  BY <1>1, <1>4
<1>6. messages[1].role = "system" /\ messages[2].role = "user"
  BY <1>1 DEF A!Message
<1>7. DOMAIN messages = 1..2
  BY <1>5, LenProperties
<1>8. \A i \in DOMAIN messages : messages[i].role \notin {"assistant", "tool"}
  BY <1>6, <1>7
<1>9. SessionTypes
  <2>1. bg \in [state : BgStates, told : SUBSET (0..MaxIterations)]
    BY <1>2 DEF A!NoBg, BgStates
  <2>2. state \in [done : BOOLEAN, failed : BOOLEAN]
    BY <1>2
  <2>3. /\ it \in 0..MaxIterations - 1 /\ strikes \in 0..MaxEmpty + 1 /\ strikes <= MaxEmpty
        /\ used \in Nat /\ stray \in Nat /\ failures \in 0..MaxFaults
    <3>1. MaxIterations \in Nat \ {0} /\ MaxEmpty \in Nat /\ MaxFaults \in Nat
      OBVIOUS
    <3>2. it = 0 /\ strikes = 0 /\ used = 0 /\ stray = 0 /\ failures = 0
      BY <1>2
    <3> QED
      BY <3>1, <3>2
  <2> QED
    BY <1>2, <1>3, <1>5, <2>1, <2>2, <2>3 DEF SessionTypes
<1>10. SessionShape
  BY <1>5, <1>6, <1>8 DEF SessionShape, Opening, Blocks, Upto
<1>11. SessionGrace
  BY <1>2 DEF SessionGrace, A!LimitsGrace
<1> QED
  BY <1>9, <1>10, <1>11 DEF SessionInv

\* The grace round is offered in time (Offer, Turn, EmptyTurn).
LEMMA GraceStep ==
  ASSUME SessionInv, [A!Next]_avars
  PROVE  SessionGrace'
<1> USE DEF SessionInv, SessionGrace, SessionTypes, A!LimitsGrace, A!Touched, A!LastRound
<1>1. CASE A!CompressNow
  BY <1>1 DEF A!CompressNow
<1>2. CASE A!Compressed
  BY <1>2 DEF A!Compressed
<1>3. CASE A!Land
  BY <1>3 DEF A!Land
<1>4. CASE A!LandFailure
  BY <1>4 DEF A!LandFailure
<1>5. CASE A!CompressBehind
  BY <1>5 DEF A!CompressBehind
<1>6. CASE A!NothingToCompress
  BY <1>6 DEF A!NothingToCompress
<1>7. CASE A!Offer
  BY <1>7 DEF A!Offer
<1>8. CASE A!ChatFails
  BY <1>8 DEF A!ChatFails
<1>9. CASE A!EmptyTurn
  BY <1>9 DEF A!EmptyTurn, A!EndWith, A!NextRound
<1>10. CASE A!Turn
  BY <1>10 DEF A!Turn, A!EndWith, A!NextRound
<1>11. CASE A!BgEnds
  BY <1>11 DEF A!BgEnds
<1>12. CASE A!TimePasses
  BY <1>12 DEF A!TimePasses
<1>13. CASE UNCHANGED avars
  BY <1>13 DEF avars
<1> QED
  BY <1>1, <1>2, <1>3, <1>4, <1>5, <1>6, <1>7, <1>8, <1>9, <1>10, <1>11, <1>12, <1>13
     DEF A!Next, A!Step

\* Every step keeps the types; the reasons it may end for rest on the grace
\* round (AgentSession Next).
LEMMA TypesStep ==
  ASSUME SessionInv, [A!Next]_avars, messages' \in Seq(Msgs)
  PROVE  SessionTypes'
<1>1. MaxIterations \in Nat \ {0} /\ MaxEmpty \in Nat /\ MaxFaults \in Nat
  BY ServicesAssumption DEF A!SessionAssumption
<1> USE DEF SessionInv, SessionTypes, A!Outs
<1>2. A!Used(messages) \in Nat /\ A!Told(A!Compressible(messages)) \subseteq 0..MaxIterations
  BY UsedInNat, CompressibleList, ToldBy DEF SessionShape, Opening
<1>3. A!NoBg \in [state : BgStates, told : SUBSET (0..MaxIterations)]
  BY DEF A!NoBg, BgStates
<1>4. stray + (IF bg.state = "running" THEN 1 ELSE 0) \in Nat
  <2>1. stray \in Nat /\ (IF bg.state = "running" THEN 1 ELSE 0) \in Nat
    OBVIOUS
  <2> QED
    BY ONLY <2>1
<1>5. failures < MaxFaults => failures + 1 \in 0..MaxFaults
  <2>1. failures \in 0..MaxFaults
    OBVIOUS
  <2> QED
    BY ONLY <1>1, <2>1
<1>6. strikes \in 0..MaxEmpty + 1 /\ (~ (strikes + 1 > MaxEmpty) => strikes + 1 <= MaxEmpty)
       /\ (strikes <= MaxEmpty => strikes + 1 \in 0..MaxEmpty + 1)
  <2>1. strikes \in 0..MaxEmpty + 1
    OBVIOUS
  <2> QED
    BY ONLY <1>1, <2>1
<1>7. ~ A!LastRound => it + 1 \in 0..MaxIterations - 1
  <2>1. it \in 0..MaxIterations - 1
    OBVIOUS
  <2> QED
    BY ONLY <1>1, <2>1 DEF A!LastRound
<1>8. CASE A!CompressNow
  BY <1>2, <1>3, <1>4, <1>8 DEF A!CompressNow, A!Leave
<1>9. CASE A!Compressed
  <2>1. failures' \in 0..MaxFaults
    BY <1>9, <1>5 DEF A!Compressed
  <2>2. bg' \in [state : BgStates, told : SUBSET (0..MaxIterations)] /\ stray' \in Nat
    BY <1>3, <1>4, <1>9 DEF A!Compressed, A!Leave
  <2> QED
    BY <1>9, <2>1, <2>2 DEF A!Compressed
<1>10. CASE A!Land
  BY <1>2, <1>3, <1>10 DEF A!Land
<1>11. CASE A!LandFailure
  BY <1>11 DEF A!LandFailure
<1>12. CASE A!CompressBehind
  BY <1>2, <1>12 DEF A!CompressBehind, BgStates
<1>13. CASE A!NothingToCompress
  BY <1>2, <1>13 DEF A!NothingToCompress
<1>14. CASE A!Offer
  <2>1. grace' \in BOOLEAN
    BY <1>14, Zenon DEF A!Offer
  <2> QED
    BY <1>14, <2>1 DEF A!Offer
<1>15. CASE A!ChatFails
  BY <1>15, <1>5 DEF A!ChatFails
<1>16. CASE A!EmptyTurn
  <2>1. bg' \in [state : BgStates, told : SUBSET (0..MaxIterations)]
    BY <1>3, <1>16 DEF A!EmptyTurn, A!EndWith, A!NextRound
  <2>2. strikes' = strikes + 1 /\ strikes <= MaxEmpty
    BY <1>16 DEF A!EmptyTurn
  <2>3. CASE strikes + 1 > MaxEmpty
    BY <1>16, <1>6, <2>1, <2>2, <2>3 DEF A!EmptyTurn, A!EndWith
  <2>4. CASE ~ (strikes + 1 > MaxEmpty) /\ A!LastRound
    BY <1>16, <1>6, <2>1, <2>2, <2>4 DEF A!EmptyTurn, A!EndWith
  <2>5. CASE ~ (strikes + 1 > MaxEmpty) /\ ~ A!LastRound
    BY <1>16, <1>6, <1>7, <2>1, <2>2, <2>5 DEF A!EmptyTurn, A!NextRound
  <2> QED
    BY <2>3, <2>4, <2>5
<1>17. CASE A!Turn
  <2>1. state' \in [done : BOOLEAN, failed : BOOLEAN]
    <3>1. PICK calls \in A!SeqOf({"other", "DONE", "FAILED"}, MaxTools) :
            state' = [done   |-> A!Range(calls) \cap {"DONE", "FAILED"} # {},
                      failed |-> "FAILED" \in A!Range(calls)]
      BY <1>17, Zenon DEF A!Turn
    <3> QED
      BY ONLY <3>1
  <2>2. strikes' = 0 /\ 0 \in 0..MaxEmpty + 1 /\ 0 <= MaxEmpty
    <3>1. 0 \in 0..MaxEmpty + 1 /\ 0 <= MaxEmpty
      BY ONLY <1>1
    <3>2. strikes' = 0
      BY <1>17, Zenon DEF A!Turn
    <3> QED
      BY <3>1, <3>2
  <2>3. UNCHANGED <<grace, late, used, stray, offered, failures>>
    BY <1>17 DEF A!Turn
  <2>4. CASE state'.done \/ grace \/ late \/ A!LastRound
    <3>1. A!WhyEnd \in {"task_done", "grace_round"}
      BY <1>17, <2>4 DEF A!Turn, A!WhyEnd, SessionGrace, A!Touched
    <3> QED
      <4>1. A!EndWith(A!WhyEnd)
        BY <1>17, <2>4 DEF A!Turn
      <4>2. bg' \in [state : BgStates, told : SUBSET (0..MaxIterations)]
        BY <1>3, <4>1 DEF A!EndWith
      <4> QED
        BY <2>1, <2>2, <2>3, <3>1, <4>1, <4>2 DEF A!EndWith
  <2>5. CASE ~ (state'.done \/ grace \/ late \/ A!LastRound)
    <3>1. A!NextRound
      BY <1>17, <2>5 DEF A!Turn
    <3> QED
      BY <1>7, <2>1, <2>5, <2>2, <2>3, <3>1 DEF A!NextRound
  <2> QED
    BY <2>4, <2>5
<1>18. CASE A!BgEnds
  <2>1. failures' \in 0..MaxFaults
    BY <1>18, <1>5 DEF A!BgEnds
  <2>2. bg' \in [state : BgStates, told : SUBSET (0..MaxIterations)]
    BY <1>18 DEF A!BgEnds, BgStates
  <2> QED
    BY <1>18, <2>1, <2>2 DEF A!BgEnds
<1>19. CASE A!TimePasses
  <2>1. late' \in BOOLEAN
    BY <1>19, Zenon DEF A!TimePasses
  <2> QED
    BY <1>19, <2>1 DEF A!TimePasses
<1>20. CASE UNCHANGED avars
  BY <1>20 DEF avars
<1> QED
  BY <1>8, <1>9, <1>10, <1>11, <1>12, <1>13, <1>14, <1>15, <1>16, <1>17, <1>18, <1>19, <1>20
     DEF A!Next, A!Step

\* What a turn makes of the list (Turn, Results).
LEMMA TurnMessages ==
  ASSUME SessionInv, A!Turn
  PROVE  \E m \in Nat :
           /\ messages' \in Seq(Msgs) /\ Len(messages') = Len(messages) + 1 + m
           /\ \A i \in 1..Len(messages) : messages'[i] = messages[i]
           /\ messages'[Len(messages) + 1].role = "assistant"
           /\ messages'[Len(messages) + 1].round = it + 1
           /\ \A i \in Len(messages) + 2..Len(messages) + 1 + m :
                messages'[i].role = "tool" /\ messages'[i].round = it + 1
<1> DEFINE a == A!Message("assistant", it + 1, 1, {})
           t == A!Message("tool", it + 1, 1, {})
           ms == messages
<1>1. MaxIterations \in Nat \ {0} /\ MaxTools \in Nat
  BY ServicesAssumption DEF A!SessionAssumption
<1>2. ms \in Seq(Msgs) /\ it \in 0..MaxIterations - 1
  BY DEF SessionInv, SessionTypes
<1>3. a \in Msgs /\ t \in Msgs
  BY <1>1, <1>2 DEF A!Message, Msgs, A!Roles
<1>4. PICK calls \in A!SeqOf({"other", "DONE", "FAILED"}, MaxTools) :
        messages' = ms \o <<a>> \o A!Results(calls)
  BY DEF A!Turn
<1>5. PICK m \in 0..MaxTools : calls \in [1..m -> {"other", "DONE", "FAILED"}]
  BY <1>4 DEF A!SeqOf
<1>6. A!Results(calls) = [i \in 1..m |-> t]
  BY <1>5 DEF A!Results
<1>7. m \in Nat
  <2>1. m \in 0..MaxTools
    OBVIOUS
  <2> QED
    BY ONLY <1>1, <2>1
<1>8. messages' = (ms \o <<a>>) \o [i \in 1..m |-> t]
  BY <1>4, <1>6
<1>9. /\ a.role = "assistant" /\ a.round = it + 1
      /\ t.role = "tool" /\ t.round = it + 1
  BY DEF A!Message
<1> HIDE DEF a, t
<1>10. /\ messages' \in Seq(Msgs) /\ Len(messages') = Len(ms) + 1 + m
       /\ \A i \in 1..Len(ms) : messages'[i] = ms[i]
       /\ messages'[Len(ms) + 1] = a
       /\ \A i \in Len(ms) + 2..Len(ms) + 1 + m : messages'[i] = t
  <2> HIDE <1>8
  <2>1. ms \in Seq(Msgs)
    BY <1>2
  <2> DEFINE ns == (ms \o <<a>>) \o [i \in 1..m |-> t]
  <2>2. /\ ns \in Seq(Msgs) /\ Len(ns) = Len(ms) + 1 + m
        /\ \A i \in 1..Len(ms) : ns[i] = ms[i]
        /\ ns[Len(ms) + 1] = a
        /\ \A i \in Len(ms) + 2..Len(ms) + 1 + m : ns[i] = t
    BY ONLY <1>3, <1>7, <2>1, TurnList
  <2> HIDE DEF ns
  <2>3. messages' = ns
    BY <1>8 DEF ns
  <2> QED
    BY <2>2, <2>3
<1> QED
  BY <1>7, <1>9, <1>10

\* What every step does with the list: it stays, a hint or a turn is added,
\* or it is compressed.
LEMMA ListStep ==
  ASSUME SessionInv, [A!Next]_avars
  PROVE  \/ messages' = messages
         \/ /\ at \in {"offer", "chat"}
            /\ \E m \in Msgs : m.role = "user" /\ messages' = Append(messages, m)
         \/ A!Turn
         \/ messages' = A!Applied(messages, A!Told(A!Compressible(messages)))
         \/ /\ at = "top" /\ bg.state = "ok"
            /\ messages' = A!Applied(messages, bg.told)
<1>1. A!Message("user", it + 1, 1, {}) \in Msgs /\ A!Message("user", it + 1, 1, {}).role = "user"
  <2>1. MaxIterations \in Nat \ {0} /\ it \in 0..MaxIterations - 1
    BY ServicesAssumption DEF A!SessionAssumption, SessionInv, SessionTypes
  <2>2. it + 1 \in 0..MaxIterations
    BY <2>1
  <2> QED
    BY <2>2 DEF A!Message, Msgs, A!Roles
<1>2. CASE A!CompressNow
  BY <1>2 DEF A!CompressNow
<1>3. CASE A!Compressed
  BY <1>3 DEF A!Compressed
<1>4. CASE A!Land
  BY <1>4 DEF A!Land
<1>5. CASE A!LandFailure
  BY <1>5 DEF A!LandFailure
<1>6. CASE A!CompressBehind
  BY <1>6 DEF A!CompressBehind
<1>7. CASE A!NothingToCompress
  BY <1>7 DEF A!NothingToCompress
<1>8. CASE A!Offer
  BY <1>1, <1>8 DEF A!Offer
<1>9. CASE A!ChatFails
  BY <1>9 DEF A!ChatFails
<1>10. CASE A!EmptyTurn
  BY <1>1, <1>10 DEF A!EmptyTurn
<1>11. CASE A!BgEnds
  BY <1>11 DEF A!BgEnds
<1>12. CASE A!TimePasses
  BY <1>12 DEF A!TimePasses
<1>13. CASE UNCHANGED avars
  BY <1>13 DEF avars
<1> QED
  BY <1>2, <1>3, <1>4, <1>5, <1>6, <1>7, <1>8, <1>9, <1>10, <1>11, <1>12, <1>13
     DEF A!Next, A!Step

\* What the list and the round are, for the steps below.
LEMMA SessionFacts ==
  ASSUME SessionInv
  PROVE  /\ messages \in Seq(Msgs) /\ Len(messages) >= 2
         /\ it \in Nat /\ (IF at \in A!Outs THEN it + 1 ELSE it) \in Nat
         /\ Opening(messages) /\ Blocks(messages)
         /\ Upto(messages, IF at \in A!Outs THEN it + 1 ELSE it)
<1>1. MaxIterations \in Nat \ {0}
  BY ServicesAssumption DEF A!SessionAssumption
<1>2. messages \in Seq(Msgs) /\ it \in 0..MaxIterations - 1
  BY DEF SessionInv, SessionTypes
<1>3. it \in Nat
  BY ONLY <1>1, <1>2
<1>4. (IF at \in A!Outs THEN it + 1 ELSE it) \in Nat
  BY ONLY <1>3
<1> QED
  BY <1>2, <1>3, <1>4 DEF SessionInv, SessionShape, Opening

\* What a turn does to the shape and to what is told (Turn).
LEMMA TurnKeeps ==
  ASSUME SessionInv, A!Turn
  PROVE  /\ messages' \in Seq(Msgs)
         /\ Opening(messages') /\ Blocks(messages') /\ Upto(messages', it + 1)
         /\ A!WellFormed(messages) => A!WellFormed(messages')
         /\ A!Told(messages) \subseteq A!Told(messages')
         /\ at = "chat"
<1>1. at = "chat"
  BY DEF A!Turn
<1>2. /\ messages \in Seq(Msgs) /\ it \in Nat
      /\ Opening(messages) /\ Blocks(messages) /\ Upto(messages, it)
  BY <1>1, SessionFacts DEF A!Outs
<1>3. PICK m \in Nat :
        /\ messages' \in Seq(Msgs) /\ Len(messages') = Len(messages) + 1 + m
        /\ \A i \in 1..Len(messages) : messages'[i] = messages[i]
        /\ messages'[Len(messages) + 1].role = "assistant"
        /\ messages'[Len(messages) + 1].round = it + 1
        /\ \A i \in Len(messages) + 2..Len(messages) + 1 + m :
             messages'[i].role = "tool" /\ messages'[i].round = it + 1
  BY TurnMessages
<1>4. ASSUME NEW ns, ns = messages'
      PROVE  /\ Opening(ns) /\ Blocks(ns) /\ Upto(ns, it + 1)
             /\ A!WellFormed(messages) => A!WellFormed(ns)
             /\ A!Told(messages) \subseteq A!Told(ns)
  <2>1. /\ ns \in Seq(Msgs) /\ Len(ns) = Len(messages) + 1 + m
        /\ \A i \in 1..Len(messages) : ns[i] = messages[i]
        /\ ns[Len(messages) + 1].role = "assistant"
        /\ ns[Len(messages) + 1].round = it + 1
        /\ \A i \in Len(messages) + 2..Len(messages) + 1 + m :
             ns[i].role = "tool" /\ ns[i].round = it + 1
    BY <1>3, <1>4
  <2> QED
    BY ONLY <1>2, <2>1, m \in Nat, TurnShape
<1> QED
  BY <1>1, <1>3, <1>4

\* Rounds do not go back, and a round that has begun an end stays (NextRound,
\* EndWith).
LEMMA RoundStep ==
  ASSUME SessionInv, [A!Next]_avars
  PROVE  \/ it' = it /\ (at \in A!Outs <=> at' \in A!Outs)
         \/ it' = it /\ at' \in A!Outs
         \/ it' = it + 1 /\ at = "chat" /\ at' = "top"
<1>1. CASE A!CompressNow
  BY <1>1 DEF A!CompressNow, A!Outs
<1>2. CASE A!Compressed
  BY <1>2 DEF A!Compressed, A!Outs
<1>3. CASE A!Land
  BY <1>3 DEF A!Land, A!Outs
<1>4. CASE A!LandFailure
  BY <1>4 DEF A!LandFailure, A!Outs
<1>5. CASE A!CompressBehind
  BY <1>5 DEF A!CompressBehind, A!Outs
<1>6. CASE A!NothingToCompress
  BY <1>6 DEF A!NothingToCompress, A!Outs
<1>7. CASE A!Offer
  BY <1>7 DEF A!Offer, A!Outs
<1>8. CASE A!ChatFails
  BY <1>8 DEF A!ChatFails, A!Outs
<1>9. CASE A!EmptyTurn
  BY <1>9 DEF A!EmptyTurn, A!EndWith, A!NextRound, A!Outs
<1>10. CASE A!Turn
  BY <1>10 DEF A!Turn, A!EndWith, A!NextRound, A!Outs
<1>11. CASE A!BgEnds
  BY <1>11 DEF A!BgEnds
<1>12. CASE A!TimePasses
  BY <1>12 DEF A!TimePasses
<1>13. CASE UNCHANGED avars
  BY <1>13 DEF avars
<1> QED
  BY <1>1, <1>2, <1>3, <1>4, <1>5, <1>6, <1>7, <1>8, <1>9, <1>10, <1>11, <1>12, <1>13
     DEF A!Next, A!Step

\* A later bound holds as well.
LEMMA UptoLater ==
  ASSUME NEW ms \in Seq(Msgs), NEW n \in Nat, Upto(ms, n)
  PROVE  Upto(ms, n + 1)
<1>1. \A i \in DOMAIN ms : ms[i] \in Msgs
  BY LenProperties, ElementOfSeq
<1>2. \A i \in DOMAIN ms : ms[i].round \in 0..MaxIterations
  BY <1>1 DEF Msgs
<1>3. ASSUME NEW i \in DOMAIN ms, ms[i].role \in {"assistant", "tool"}
      PROVE  ms[i].round <= n + 1
  <2>1. ms[i].round <= n
    BY <1>3 DEF Upto
  <2>2. ms[i].round \in Nat
    BY <1>2
  <2> QED
    BY ONLY <2>1, <2>2, n \in Nat
<1> QED
  BY <1>3 DEF Upto

\* Every step keeps the shape of the list (AgentSession Next).
LEMMA ShapeStep ==
  ASSUME SessionInv, [A!Next]_avars
  PROVE  messages' \in Seq(Msgs) /\ SessionShape'
<1> DEFINE n == IF at \in A!Outs THEN it + 1 ELSE it
<1>1. /\ messages \in Seq(Msgs) /\ it \in Nat /\ n \in Nat
      /\ Opening(messages) /\ Blocks(messages) /\ Upto(messages, n)
      /\ Len(messages) >= 2
  BY SessionFacts
<1> HIDE DEF n
<1>2. CASE A!Turn
  <2>1. /\ messages' \in Seq(Msgs)
        /\ Opening(messages') /\ Blocks(messages') /\ Upto(messages', it + 1)
    BY <1>2, TurnKeeps
  <2>2. (IF at' \in A!Outs THEN it' + 1 ELSE it') = it + 1
    BY <1>2 DEF A!Turn, A!EndWith, A!NextRound, A!Outs
  <2> QED
    BY <2>1, <2>2 DEF SessionShape
<1>3. ASSUME ~ A!Turn, NEW ns, ns = messages'
      PROVE  /\ ns \in Seq(Msgs)
             /\ Opening(ns) /\ Blocks(ns) /\ Upto(ns, n)
  <2>1. CASE ns = messages
    BY <1>1, <2>1
  <2>2. CASE \E m \in Msgs : m.role = "user" /\ ns = Append(messages, m)
    <3>1. PICK m \in Msgs : m.role = "user" /\ ns = Append(messages, m)
      BY <2>2
    <3> QED
      BY <1>1, <3>1, HintShape
  <2>3. CASE ns = A!Applied(messages, A!Told(A!Compressible(messages)))
    <3>1. A!Told(A!Compressible(messages)) \in SUBSET (0..MaxIterations)
      BY <1>1, CompressibleList, ToldBy
    <3>2. A!Applied(messages, A!Told(A!Compressible(messages))) \in Seq(Msgs)
      BY <1>1, <3>1, AppliedList
    <3> QED
      BY <1>1, <2>3, <3>1, <3>2, CompressionShape
  <2>4. CASE ns = A!Applied(messages, bg.told)
    <3>1. bg.told \in SUBSET (0..MaxIterations)
      BY DEF SessionInv, SessionTypes
    <3>2. A!Applied(messages, bg.told) \in Seq(Msgs)
      BY <1>1, <3>1, AppliedList
    <3> QED
      BY <1>1, <2>4, <3>1, <3>2, CompressionShape
  <2> QED
    BY <1>3, <2>1, <2>2, <2>3, <2>4, ListStep
<1>4. CASE ~ A!Turn
  <2>1. /\ messages' \in Seq(Msgs)
        /\ Opening(messages') /\ Blocks(messages') /\ Upto(messages', n)
    BY <1>3, <1>4
  <2>2. \/ (IF at' \in A!Outs THEN it' + 1 ELSE it') = n
        \/ (IF at' \in A!Outs THEN it' + 1 ELSE it') = n + 1
    BY RoundStep DEF n, A!Outs
  <2>3. Upto(messages', n + 1)
    <3>1. ASSUME NEW ns, ns = messages'
          PROVE  Upto(ns, n + 1)
      BY <1>1, <2>1, <3>1, UptoLater
    <3> QED
      BY <3>1
  <2> QED
    BY <2>1, <2>2, <2>3 DEF SessionShape
<1> QED
  BY <1>2, <1>4

\* The invariant of the session holds throughout (run_agent_session).
LEMMA SessionCorrect == Spec => []SessionInv
<1>1. Init => SessionInv
  BY SessionInit DEF Init
<1>2. SessionInv /\ [Next]_vars => SessionInv'
  BY StepOfParts, ShapeStep, TypesStep, GraceStep DEF SessionInv
<1> QED
  BY <1>1, <1>2, PTL DEF Spec

\* A session that stops by a limit has offered the closing tools first, for
\* any limits, turns and moment the clock runs out (the grace round).
THEOREM LimitsBringGrace == Spec => []LimitsGrace
<1>1. SessionInv => LimitsGrace
  BY DEF SessionInv, SessionGrace, LimitsGrace
<1> QED
  BY <1>1, SessionCorrect, PTL

\* No step cuts a result from its call in a long list, and what was told is
\* lost by a background summary that lands only.
LEMMA KeepsStep ==
  ASSUME SessionInv, [A!Next]_avars
  PROVE  /\ Len(messages) >= ActiveZone + 2 /\ A!WellFormed(messages) => A!WellFormed(messages')
         /\ A!Told(messages) \subseteq A!Told(messages') \/ (at = "top" /\ bg.state = "ok")
<1>1. /\ messages \in Seq(Msgs) /\ it \in Nat
      /\ Opening(messages) /\ Blocks(messages) /\ Len(messages) >= 2
      /\ Upto(messages, IF at \in A!Outs THEN it + 1 ELSE it)
      /\ (IF at \in A!Outs THEN it + 1 ELSE it) \in Nat
  BY SessionFacts
<1>2. CASE A!Turn
  BY <1>2, TurnKeeps
<1>3. ASSUME ~ A!Turn, NEW ns, ns = messages'
      PROVE  /\ Len(messages) >= ActiveZone + 2 /\ A!WellFormed(messages) => A!WellFormed(ns)
             /\ A!Told(messages) \subseteq A!Told(ns) \/ (at = "top" /\ bg.state = "ok")
  <2>1. CASE ns = messages
    BY <2>1
  <2>2. CASE \E m \in Msgs : m.role = "user" /\ ns = Append(messages, m)
    <3>1. PICK m \in Msgs : m.role = "user" /\ ns = Append(messages, m)
      BY <2>2
    <3> QED
      BY <1>1, <3>1, HintShape
  <2>3. CASE ns = A!Applied(messages, A!Told(A!Compressible(messages)))
    <3>1. A!Told(A!Compressible(messages)) \in SUBSET (0..MaxIterations)
      BY <1>1, CompressibleList, ToldBy
    <3> QED
      BY <1>1, <2>3, <3>1, CompressionTells, CompressionWellFormed
  <2>4. CASE at = "top" /\ bg.state = "ok" /\ ns = A!Applied(messages, bg.told)
    <3>1. bg.told \in SUBSET (0..MaxIterations)
      BY DEF SessionInv, SessionTypes
    <3> QED
      BY <1>1, <2>4, <3>1, CompressionWellFormed
  <2> QED
    BY <1>3, <2>1, <2>2, <2>3, <2>4, ListStep
<1> QED
  BY <1>2, <1>3

\* Compressions keep results with their calls, and only a background summary
\* that lands loses anything (_split_zones, compress_messages).
THEOREM CompressionsKeep == Spec => SessionKeeps
<1>1. ASSUME SessionInv, [Next]_vars
      PROVE  /\ [Len(messages) >= ActiveZone + 2 /\ A!WellFormed(messages)
                   => A!WellFormed(messages')]_avars
             /\ [A!Told(messages) \subseteq A!Told(messages')
                   \/ (at = "top" /\ bg.state = "ok")]_avars
  BY <1>1, StepOfParts, KeepsStep
<1> QED
  BY <1>1, SessionCorrect, PTL
     DEF Spec, SessionKeeps, A!CutKeepsPairs, A!LossOnlyByLanding, avars, A!vars

\* The types of the five components and how their parts agree, for any
\* constants that the assumptions allow.
THEOREM ServicesTypes == Spec => []TypeOK
<1>1. ScheduleInv => S!TypeOK
  BY DEF ScheduleInv
<1>2. PollInv => P!TypeOK
  BY DEF PollInv
<1>3. CloneInv => C!TypeOK
  BY DEF CloneInv
<1>4. ASSUME SessionInv
      PROVE  A!TypeOK
  <2>1. \A i \in DOMAIN messages : messages[i] \in Msgs
    <3>1. messages \in Seq(Msgs)
      BY <1>4, SessionFacts
    <3>2. DOMAIN messages = 1..Len(messages)
      BY <3>1, LenProperties
    <3> QED
      BY <3>1, <3>2, ElementOfSeq
  <2>2. \A m \in A!Range(messages) :
          m.role \in A!Roles /\ m.round \in 0..MaxIterations /\ m.told \subseteq 0..MaxIterations
    BY <2>1 DEF A!Range, Msgs
  <2> QED
    BY <1>4, <2>2 DEF SessionInv, SessionTypes, BgStates, A!TypeOK
<1>5. ReviewInv => R!TypeOK
  BY SameCardinality, ServicesAssumption
     DEF ReviewInv, ReviewTypes, ResultsOfReview, Sessions, R!TypeOK, R!ReviewAssumption
<1>6. ScheduleInv /\ PollInv /\ CloneInv /\ SessionInv /\ ReviewInv => TypeOK
  BY <1>1, <1>2, <1>3, <1>4, <1>5 DEF TypeOK
<1> QED
  BY <1>6, ScheduleCorrect, PollCorrect, CloneCorrect, SessionCorrect, ReviewCorrect, PTL

=============================================================================
