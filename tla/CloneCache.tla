----------------------------- MODULE CloneCache -----------------------------
(***************************************************************************)
(* The cached clone of one repository: its directory, its lock file and    *)
(* its row.  Reviews bring it up to date and then read it; pruning rounds  *)
(* and administrators remove it.  The lock is an advisory lock on the file *)
(* that the lock path names when it is opened, and whoever removes the     *)
(* clone unlinks that path after giving the lock back.  Where the lock     *)
(* cannot be had the thread goes on without it.                            *)
(*                                                                         *)
(* Every step of a thread that the file system, git or the database sees   *)
(* is an action.  git runs with a timeout, so it ends.                     *)
(***************************************************************************)
EXTENDS Integers, FiniteSets

CONSTANTS
  Reviews, Removers,  \* threads
  Inodes,             \* identities of lock files
  None,
  Writes,             \* whether a diff brings files to materialise
  MaxRuns, MaxFaults  \* bounds

CloneCacheAssumption ==
  /\ Reviews \cap Removers = {} /\ None \notin Inodes \cup Reviews \cup Removers
  /\ None \notin [id : Nat, age : {"fresh", "old"}]
  /\ Writes \subseteq BOOLEAN
  /\ MaxRuns \in Nat /\ MaxFaults \in Nat

Procs == Reviews \cup Removers

VARIABLES
  dir,     \* the directory: "none", "partial", "valid"
  path,    \* the file the lock path names, None when there is none
  holder,  \* the process that has locked a file, by inode
  fd,      \* the lock file a process has open
  bare,    \* the processes that went on without the lock
  row,     \* the row of the clone: id and age ("fresh" or "old"), None without
  ids,     \* the next id
  pc,
  seen,    \* the row a remover has listed
  orphan,  \* ghost: a fresh row was deleted, or recording one failed
  runs, faults

locks == <<holder, fd, bare>>
files == <<dir, path, locks>>
table == <<row, ids>>
vars  == <<files, table, pc, seen, orphan, runs, faults>>

Goto(p, l) == pc' = [pc EXCEPT ![p] = l]

-----------------------------------------------------------------------------
(* _FileLock *)

\* An inode that nothing refers to, for a new lock file.
NewInode(i) == i # path /\ holder[i] = None /\ \A p \in Procs : fd[p] # i

\* Creates the file where it is missing.
Ensure == IF path # None THEN UNCHANGED path
          ELSE \E i \in Inodes : NewInode(i) /\ path' = i

Touch(p) ==
  /\ pc[p] = "touch"
  /\ Ensure
  /\ Goto(p, "stat")
  /\ UNCHANGED <<dir, locks, table, seen, orphan, runs, faults>>

\* stat raises when the file has gone again; nothing is locked yet.
Stat(p) ==
  /\ pc[p] = "stat"
  /\ Goto(p, IF path = None THEN "failed" ELSE "open")
  /\ UNCHANGED <<files, table, seen, orphan, runs, faults>>

\* open in append mode makes the file once more where it has gone.
Open(p) ==
  /\ pc[p] = "open"
  /\ Ensure
  /\ fd' = [fd EXCEPT ![p] = path']
  /\ Goto(p, "flock")
  /\ UNCHANGED <<dir, holder, bare, table, seen, orphan, runs, faults>>

Flock(p) ==
  /\ pc[p] = "flock"
  /\ holder[fd[p]] = None
  /\ holder' = [holder EXCEPT ![fd[p]] = p]
  /\ Goto(p, "locked")
  /\ UNCHANGED <<dir, path, fd, bare, table, seen, orphan, runs, faults>>

\* No lock primitive, or the call fails: swallowed, so as not to block.
FlockFails(p) ==
  /\ pc[p] = "flock"
  /\ faults < MaxFaults /\ faults' = faults + 1
  /\ bare' = bare \cup {p}
  /\ Goto(p, "locked")
  /\ UNCHANGED <<dir, path, holder, fd, table, seen, orphan, runs>>

\* __exit__, on every way out of the block.
Unlock(p) == /\ holder' = [i \in Inodes |-> IF holder[i] = p THEN None ELSE holder[i]]
             /\ fd' = [fd EXCEPT ![p] = None]
             /\ bare' = bare \ {p}

-----------------------------------------------------------------------------
(* A review: sync_to, the record of the fetch, and the agent *)

Sync(p) ==
  /\ runs < MaxRuns
  /\ pc[p] = "idle" /\ p \in Reviews
  /\ runs' = runs + 1
  /\ Goto(p, "touch")
  /\ UNCHANGED <<files, table, seen, orphan, faults>>

\* Mutant: the lock is given back before the fetch.
LookUnlocks(p) ==
  /\ pc[p] = "locked" /\ p \in Reviews
  /\ IF dir = "valid" THEN Goto(p, "fetch") /\ Unlock(p) /\ UNCHANGED dir
     ELSE dir' = "none" /\ Goto(p, "clone") /\ UNCHANGED locks
  /\ UNCHANGED <<path, table, seen, orphan, runs, faults>>

\* A valid clone is fetched into, anything else is cleared away for a new one.
Look(p) ==
  /\ pc[p] = "locked" /\ p \in Reviews
  /\ IF dir = "valid" THEN Goto(p, "fetch") /\ UNCHANGED dir
     ELSE dir' = "none" /\ Goto(p, "clone")
  /\ UNCHANGED <<path, locks, table, seen, orphan, runs, faults>>

\* git clone creates the directory, refuses one that is not empty, ...
CloneBegins(p) ==
  /\ pc[p] = "clone" /\ dir = "none"
  /\ dir' = "partial"
  /\ Goto(p, "cloning")
  /\ UNCHANGED <<path, locks, table, seen, orphan, runs, faults>>

\* ... and completes it where nobody has taken it away.
CloneEnds(p) ==
  /\ pc[p] = "cloning" /\ dir = "partial"
  /\ dir' = "valid"
  /\ Unlock(p)
  /\ Goto(p, "record")
  /\ UNCHANGED <<path, table, seen, orphan, runs, faults>>

FetchEnds(p) ==
  /\ pc[p] = "fetch" /\ dir = "valid"
  /\ Unlock(p)
  /\ Goto(p, "record")
  /\ UNCHANGED <<dir, path, table, seen, orphan, runs, faults>>

\* git fails: the directory is not what it should be, the remote refuses, the
\* commit is unreachable, or time is up.  What has been cloned stays.
GitFails(p) ==
  /\ \/ pc[p] = "clone" /\ dir # "none" /\ UNCHANGED faults
     \/ pc[p] = "cloning" /\ dir # "partial" /\ UNCHANGED faults
     \/ pc[p] = "fetch" /\ dir # "valid" /\ UNCHANGED faults
     \/ /\ pc[p] \in {"clone", "cloning", "fetch"}
        /\ faults < MaxFaults /\ faults' = faults + 1
  /\ Unlock(p)
  /\ Goto(p, "failed")
  /\ UNCHANGED <<dir, path, table, seen, orphan, runs>>

\* Mutant: only a row that is there is brought up to date.
RecordKnown(p) ==
  /\ pc[p] = "record"
  /\ row' = IF row = None THEN None ELSE [row EXCEPT !.age = "fresh"]
  /\ Goto(p, "materialise")
  /\ UNCHANGED <<files, ids, seen, orphan, runs, faults>>

\* upsert_fetched; a failure is a warning only.
Record(p) ==
  /\ pc[p] = "record"
  /\ \/ /\ row' = [id |-> IF row = None THEN ids ELSE row.id, age |-> "fresh"]
        /\ ids' = IF row = None THEN ids + 1 ELSE ids
        /\ UNCHANGED <<orphan, faults>>
     \/ /\ faults < MaxFaults /\ faults' = faults + 1
        /\ orphan' = TRUE
        /\ UNCHANGED table
  /\ Goto(p, "materialise")
  /\ UNCHANGED <<files, seen, runs>>

\* Files of the diff are written to the directory, without the lock; where
\* the clone has gone that makes a directory that is no clone.
Materialise(p) ==
  /\ pc[p] = "materialise"
  /\ \E w \in Writes : dir' = IF w /\ dir = "none" THEN "partial" ELSE dir
  /\ Goto(p, "idle")
  /\ UNCHANGED <<path, locks, table, seen, orphan, runs, faults>>

\* The error goes up through LocalCloneRuntime.start and fails the review: only
\* a refusal of the sandbox itself lets it go on as a plain diff review.
ReviewFails(p) ==
  /\ pc[p] = "failed" /\ p \in Reviews
  /\ Goto(p, "idle")
  /\ UNCHANGED <<files, table, seen, orphan, runs, faults>>

-----------------------------------------------------------------------------
(* Removal: a pruning round, which lists old rows, or a request for a row *)

\* Time passes for a row nobody has fetched lately.
Age ==
  /\ row # None /\ row.age = "fresh"
  /\ row' = [row EXCEPT !.age = "old"]
  /\ UNCHANGED <<files, ids, pc, seen, orphan, runs, faults>>

\* Pruning takes old rows only, an administrator any.
Choose(p, any) ==
  /\ runs < MaxRuns
  /\ pc[p] = "idle" /\ p \in Removers
  /\ row # None /\ (any \/ row.age = "old")
  /\ runs' = runs + 1
  /\ seen' = [seen EXCEPT ![p] = row.id]
  /\ Goto(p, "touch")
  /\ UNCHANGED <<files, table, orphan, faults>>

RmTree(p) ==
  /\ pc[p] = "locked" /\ p \in Removers
  /\ dir' = "none"
  /\ Unlock(p)
  /\ Goto(p, "check")
  /\ UNCHANGED <<path, table, seen, orphan, runs, faults>>

\* Something is there again: the row stays.
Occupied(p) ==
  /\ pc[p] = "check"
  /\ Goto(p, IF dir = "none" THEN "unlink" ELSE "failed")
  /\ UNCHANGED <<files, table, seen, orphan, runs, faults>>

\* The path is unlinked, whatever file it names and whoever has it locked; an
\* error is swallowed.
Unlink(p) ==
  /\ pc[p] = "unlink"
  /\ path' \in {None, path}
  /\ Goto(p, "delete")
  /\ UNCHANGED <<dir, locks, table, seen, orphan, runs, faults>>

\* The row goes by its id, whatever it says by now.
DeleteRow(p) ==
  /\ pc[p] = "delete"
  /\ IF row # None /\ row.id = seen[p]
     THEN row' = None /\ orphan' = (orphan \/ dir = "valid")
     ELSE UNCHANGED <<row, orphan>>
  /\ seen' = [seen EXCEPT ![p] = None]
  /\ Goto(p, "idle")
  /\ UNCHANGED <<files, ids, runs, faults>>

GiveUp(p) ==
  /\ pc[p] = "failed" /\ p \in Removers
  /\ seen' = [seen EXCEPT ![p] = None]
  /\ Goto(p, "idle")
  /\ UNCHANGED <<files, table, orphan, runs, faults>>

\* rebuild_index: a clone without a row gets one.
Rebuild ==
  /\ dir = "valid" /\ row = None /\ runs < MaxRuns
  /\ runs' = runs + 1
  /\ \E age \in {"fresh", "old"} : row' = [id |-> ids, age |-> age]
  /\ ids' = ids + 1
  /\ orphan' = FALSE
  /\ UNCHANGED <<files, pc, seen, faults>>

\* The service dies and comes back: locks go with it, files and rows stay.
Crash ==
  /\ faults < MaxFaults /\ faults' = faults + 1
  /\ \E p \in Procs : pc[p] # "idle"
  /\ holder' = [i \in Inodes |-> None]
  /\ fd' = [p \in Procs |-> None]
  /\ bare' = {}
  /\ pc' = [p \in Procs |-> "idle"]
  /\ seen' = [p \in Procs |-> None]
  /\ orphan' = (orphan \/ \E r \in Reviews : pc[r] = "record" /\ row = None)
  /\ UNCHANGED <<dir, path, table, runs>>

\* Nothing has been cloned yet, or a clone is there from an earlier run.
Init ==
  /\ \/ dir = "none" /\ row = None
     \/ dir = "valid" /\ row = [id |-> 0, age |-> "old"]
  /\ path = None
  /\ holder = [i \in Inodes |-> None]
  /\ fd = [p \in Procs |-> None]
  /\ bare = {}
  /\ ids = 1
  /\ pc = [p \in Procs |-> "idle"]
  /\ seen = [p \in Procs |-> None]
  /\ orphan = FALSE
  /\ runs = 0 /\ faults = 0

Work(p) == \/ Touch(p) \/ Stat(p) \/ Open(p) \/ Flock(p)
           \/ Look(p) \/ CloneBegins(p) \/ CloneEnds(p) \/ FetchEnds(p) \/ GitFails(p)
           \/ Record(p) \/ Materialise(p) \/ ReviewFails(p)
           \/ RmTree(p) \/ Occupied(p) \/ Unlink(p) \/ DeleteRow(p) \/ GiveUp(p)

Next == \/ \E p \in Procs : Work(p) \/ FlockFails(p) \/ Sync(p) \/ \E any \in BOOLEAN : Choose(p, any)
        \/ Age \/ Rebuild \/ Crash

Spec == Init /\ [][Next]_vars

\* Threads run and git ends; a lock that is free again and again is got.
FairSpec == Spec /\ \A p \in Procs : WF_vars(Work(p)) /\ SF_vars(Flock(p))

-----------------------------------------------------------------------------
(* Properties *)

Critical(p) == pc[p] \in {"locked", "clone", "cloning", "fetch"}

\* Types; who is inside the critical section has the lock file open and holds
\* a lock on it, unless the call failed, and nobody else holds one.
TypeOK ==
  /\ dir \in {"none", "partial", "valid"}
  /\ path \in Inodes \cup {None}
  /\ \A p \in bare : p \in Procs /\ Critical(p)
  /\ \A p \in Procs : Critical(p) => fd[p] # None /\ (p \in bare \/ holder[fd[p]] = p)
  /\ \A i \in Inodes : holder[i] # None => Critical(holder[i])

\* The directory is as the thread inside left it, and its git expects it.
AsLeft(p) == /\ pc[p] = "fetch"   => dir = "valid"
             /\ pc[p] = "clone"   => dir = "none"
             /\ pc[p] = "cloning" => dir = "partial"

\* How two threads come to be inside at once: one without the lock, or by a
\* lock file that has been unlinked since.
Breaches(p) == p \in bare \/ fd[p] \notin {None, path}

\* The lock is to keep clones of one repository from running into each other
\* (syncer.py:118: what comes without it repeats work and is safe).  A thread at
\* its git loses the directory it works on to another in two ways only: the
\* other is inside as well, and one of them came by a breach of the lock; or
\* files of a diff are written, outside the lock, where it is about to clone.
SpoiledByBreach ==
  [][\A p \in Procs : Critical(p) /\ pc'[p] = pc[p] /\ AsLeft(p) /\ ~AsLeft(p)' =>
       \E q \in Procs :
         /\ pc'[q] # pc[q]   \* the one that takes the step
         /\ \/ Critical(q) /\ (Breaches(p) \/ Breaches(q))
            \/ pc[q] = "materialise" /\ pc[p] = "clone"]_vars

\* When all is quiet a clone has a row, so that pruning finds it; unless its
\* record failed or was lost, or a row was deleted that a review had refreshed.
CloneIsRegistered ==
  (\A p \in Procs : pc[p] = "idle") /\ dir = "valid" => row # None \/ orphan

\* A thread has left the lock and what it was called for.
Settled(p) == pc[p] = "idle"
=============================================================================
