------------------------------ MODULE Services ------------------------------
(***************************************************************************)
(* What the worker relies on: the scheduler, the poll control, the clone   *)
(* cache, the session of the agent, and the review that starts sessions.   *)
(* They share no state and none waits for another while it is in one of    *)
(* its own steps (a job that fires is a caller of the poll control or of a *)
(* pruning round, a review sees of a session only how it ends), so a       *)
(* behaviour follows one of them, the one in focus, among all that its own *)
(* environment does, while the others rest.                                *)
(***************************************************************************)
EXTENDS Integers, Sequences, FiniteSets

CONSTANTS
  Ids, Intervals, Crons, Hourly, Nine, Bad, Seeds, Validators,
  MaxEdits, MaxExternal,                                              \* Schedules
  Admins, Timers, Done, Conflict, Failed, Projects, Found,
  MaxAsks, MaxRounds,                                                 \* PollControl
  Reviews, Removers, Inodes, Writes, MaxRuns,                         \* CloneCache
  MaxIterations, MaxPrompt, MaxEmpty, ActiveZone, MaxTools, Openings, \* AgentSession
  Plans, Concurrency, Scores, Budget, MaxGroups,                      \* ReviewRun
  None, MaxFaults

VARIABLES
  focus,
  table, owed, changed, loop, first, snap, jobs, fp, edits, external, breaks,
  stage, lock, todo, left, progress, report, running, last, error, asks, rounds, errors,
  dir, path, holder, fd, bare, row, ids, pc, seen, orphan, runs, faults,
  messages, it, strikes, grace, late, at, used, bg, stray, offered, reason, state, failures,
  phase, plan, again, session, raised, short, live, reports, partial, result, raises

S == INSTANCE Schedules
P == INSTANCE PollControl
C == INSTANCE CloneCache
A == INSTANCE AgentSession WITH pc <- at, faults <- failures
R == INSTANCE ReviewRun WITH breaks <- raises

ASSUME ServicesAssumption ==
  /\ S!SchedulesAssumption /\ P!PollControlAssumption /\ C!CloneCacheAssumption
  /\ A!SessionAssumption /\ R!ReviewAssumption

svars == <<table, owed, changed, loop, first, snap, jobs, fp, edits, external, breaks>>
pvars == <<stage, lock, todo, left, progress, report, running, last, error, asks, rounds, errors>>
cvars == <<dir, path, holder, fd, bare, row, ids, pc, seen, orphan, runs, faults>>
avars == <<messages, it, strikes, grace, late, at, used, bg, stray, offered, reason, state, failures>>
rvars == <<phase, plan, again, session, raised, short, live, reports, partial, result, raises>>
vars  == <<focus, svars, pvars, cvars, avars, rvars>>

In(component) == focus = component /\ UNCHANGED focus

Scheduling(step) == In("schedules") /\ step /\ UNCHANGED <<pvars, cvars, avars, rvars>>
Polling(step)    == In("poll control") /\ step /\ UNCHANGED <<svars, cvars, avars, rvars>>
Cloning(step)    == In("clone cache") /\ step /\ UNCHANGED <<svars, pvars, avars, rvars>>
Talking(step)    == In("session") /\ step /\ UNCHANGED <<svars, pvars, cvars, rvars>>
Reviewing(step)  == In("review") /\ step /\ UNCHANGED <<svars, pvars, cvars, avars>>

Init == /\ focus \in {"schedules", "poll control", "clone cache", "session", "review"}
        /\ S!Init /\ P!Init /\ C!Init /\ A!Init /\ R!Init
        /\ focus = "clone cache" \/ dir = "none"
        /\ focus = "session" \/ \A m \in Openings : messages[2].size <= m

Next == Scheduling(S!Next) \/ Polling(P!Next) \/ Cloning(C!Next)
        \/ Talking(A!Next) \/ Reviewing(R!Next)

\* The fairness of the component in focus: its own threads and tasks go on,
\* a waiter for a lock gets it when it is free again and again; what comes
\* from outside is not owed.
Forward == Scheduling(S!Start \/ S!Loop) \/ Talking(A!Step) \/ Reviewing(R!Track)
Beside  == \/ Scheduling(S!Notify) \/ Talking(A!BgEnds)
           \/ Reviewing(\E g \in R!Groups : R!Sessions(g))

Fairness ==
  /\ WF_vars(Forward) /\ WF_vars(Beside)
  /\ \A c \in P!Callers : WF_vars(Polling(P!Ahead(c)))
  /\ \A p \in C!Procs : WF_vars(Cloning(C!Work(p))) /\ SF_vars(Cloning(C!Flock(p)))

Spec == Init /\ [][Next]_vars /\ Fairness

-----------------------------------------------------------------------------
\* The types of the five, and that their parts agree: jobs with the rows
\* they were built from, the poll lock with its holder, the clone lock with
\* the threads inside, a review's runtime and semaphore with its sessions.
TypeOK == S!TypeOK /\ P!TypeOK /\ C!TypeOK /\ A!TypeOK /\ R!TypeOK

\* Every accepted manual poll leaves a report or an error on the status
\* page, whatever the rounds beside it do (pull.py _background_poll).
AskedIsAnswered == P!AskedIsAnswered

\* A thread that clones or fetches loses its directory only to a thread that is
\* inside too, one of them without the lock or by an unlinked lock file, or to
\* the files of a diff (syncer.py sync_to, remove, _FileLock).
SpoiledByBreach == C!SpoiledByBreach

\* When all is quiet a clone has a row, except where its record failed or a
\* fresh row was deleted (clone_cache.py remove_cache_dir, upsert_fetched).
CloneIsRegistered == C!CloneIsRegistered

\* No compression cuts a tool result from its call in a list longer than the
\* opening and the active zone, and what a round found leaves the
\* conversation only when a background summary lands on a list that has
\* grown since (llmloop.py _split_zones, compress_messages).
SessionKeeps == A!CutKeepsPairs /\ A!LossOnlyByLanding

\* A session that stops by a limit has first offered code_comment and
\* task_done alone (run_agent_session, the grace round).
LimitsGrace == A!LimitsGrace

\* An agentic result tells of every grouped file: a session ended on it or
\* skipped_files names it (run_agentic_review).
FilesAccounted == R!FilesAccounted

\* The sessions of a review share its semaphore as Gate promises: nobody
\* comes in at the limit, nobody is put out, and the limit stays
\* (run_agentic_review: asyncio.Semaphore(cfg.group_concurrency)).
Slots == INSTANCE Gate WITH Workers <- R!Groups, holders <- R!Running, limit <- Concurrency
ImplementsGate == Slots!Spec

Settled ==
  /\ focus = "schedules"    => S!Settled
  /\ focus = "poll control" => P!Settled
  /\ focus = "session"      => A!Settled
  /\ focus = "review"       => R!Settled

\* What was begun ends: the jobs come to agree with the table, however a
\* change and its event fall into a reconcile, while the manager lives; the
\* status page does not say "running" for ever; a session ends whatever the
\* LLM answers, and a review whatever its sessions do; and no thread is left
\* waiting for the lock of a clone or inside it.
EverythingEnds == []<>Settled /\ \A p \in C!Procs : []<>C!Settled(p)
=============================================================================
