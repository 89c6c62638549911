----------------------------- MODULE Schedules -----------------------------
(***************************************************************************)
(* The table of scheduled jobs and the manager that keeps the running jobs *)
(* equal to it.  Administrators commit a change and then set an event; the *)
(* reconcile loop waits for the event or for a fallback period, reads the  *)
(* table and adds and removes jobs.  Rows may also be edited in the        *)
(* database itself, without an event and without validation.               *)
(*                                                                         *)
(* What a job does when it fires is in PollControl.                        *)
(***************************************************************************)
EXTENDS Integers, FiniteSets

CONSTANTS
  Ids,               \* ids of rows, numbers
  Intervals, Crons,  \* times of day or periods a row may hold
  Hourly, Nine,      \* the defaults of the two types
  Bad,               \* what neither parser accepts
  None,
  Seeds,             \* the rows of an empty table: [type, on, params] by id
  Validators,        \* the types a PUT is validated as
  MaxEdits, MaxExternal, MaxFaults   \* bounds

Types   == {"poll", "daily"}
Params  == Intervals \cup Crons \cup {Bad}
Rows    == [type : Types, on : BOOLEAN, params : Params]
Times   == Intervals \cup Crons \cup {Hourly, Nine}

SchedulesAssumption ==
  /\ Ids \subseteq Nat /\ Ids # {} /\ IsFiniteSet(Ids)
  /\ Hourly \in Intervals /\ Nine \in Crons
  /\ Intervals \cap Crons = {} /\ Bad \notin Times
  /\ None \notin Times
  /\ Seeds \in [Ids -> Rows \cup {None}]
  /\ Validators \subseteq Types
  /\ MaxEdits \in Nat /\ MaxExternal \in Nat /\ MaxFaults \in Nat

VARIABLES
  table,    \* schedule_job: row or None by id
  owed,     \* committed changes whose event is not set yet
  changed,  \* the event _changed
  loop,     \* the manager: "down", "list", "remove", "apply", "wait", "dead", "stopped"
  first,    \* this reconcile is the one of start()
  snap,     \* the rows it has read
  jobs,     \* the jobs of the scheduler by id: type and trigger
  fp,       \* the row each job was built from
  edits, external, breaks

vars == <<table, owed, changed, loop, first, snap, jobs, fp, edits, external, breaks>>

-----------------------------------------------------------------------------
(* The manager *)

\* _trigger_for; for a row of type poll, a value that is no number raises.
Raises(row)  == row.type = "poll" /\ row.params = Bad
Trigger(row) ==
  IF row.type = "poll"
  THEN IF row.params \in Intervals THEN row.params ELSE Hourly
  ELSE IF row.params \in Crons THEN row.params ELSE Nine

\* The job a row asks for.
Wanted(row) == IF row # None /\ row.on
               THEN [type |-> row.type, trigger |-> Trigger(row)] ELSE None

\* _fingerprint_of, without the row's name.
Fingerprint(row) == row

Desired   == {i \in Ids : snap[i] # None /\ snap[i].on}
Stale     == {i \in Ids : fp[i] # None
                /\ (i \notin Desired \/ fp[i] # Fingerprint(snap[i]))}
ToBuild   == {i \in Desired : fp[i] # Fingerprint(snap[i])}

NoRows == [i \in Ids |-> None]

\* start: seed an empty table, then reconcile once before the loop runs.
Start ==
  /\ loop = "down"
  /\ table' = IF table = NoRows THEN Seeds ELSE table
  /\ loop' = "list" /\ first' = TRUE
  /\ UNCHANGED <<owed, changed, snap, jobs, fp, edits, external, breaks>>

\* reconcile: read the table ...
ReadRows ==
  /\ loop = "list"
  /\ snap' = table
  /\ loop' = "remove"
  /\ UNCHANGED <<table, owed, changed, first, jobs, fp, edits, external, breaks>>

\* Mutant: the scheduler keeps the job.
RemoveFromTable ==
  /\ loop = "remove"
  /\ fp'   = [i \in Ids |-> IF i \in Stale THEN None ELSE fp[i]]
  /\ loop' = "apply"
  /\ UNCHANGED <<table, owed, changed, first, snap, jobs, edits, external, breaks>>

\* ... remove what is gone or has changed ...
RemoveJobs ==
  /\ loop = "remove"
  /\ jobs' = [i \in Ids |-> IF i \in Stale THEN None ELSE jobs[i]]
  /\ fp'   = [i \in Ids |-> IF i \in Stale THEN None ELSE fp[i]]
  /\ loop' = "apply"
  /\ UNCHANGED <<table, owed, changed, first, snap, edits, external, breaks>>

\* ... and build what is new, in the order of the ids, one at a time.
Next1 == CHOOSE i \in ToBuild : \A j \in ToBuild : i <= j

AddJob ==
  /\ loop = "apply" /\ ToBuild # {}
  /\ ~Raises(snap[Next1])
  /\ jobs' = [jobs EXCEPT ![Next1] = Wanted(snap[Next1])]
  /\ fp'   = [fp EXCEPT ![Next1] = Fingerprint(snap[Next1])]
  /\ UNCHANGED <<table, owed, changed, loop, first, snap, edits, external, breaks>>

\* The top of the loop clears the event, whoever has set it meanwhile.
Rest ==
  /\ loop = "apply" /\ ToBuild = {}
  /\ loop' = "wait" /\ first' = FALSE
  /\ changed' = FALSE
  /\ UNCHANGED <<table, owed, snap, jobs, fp, edits, external, breaks>>

WakeByChange ==
  /\ loop = "wait" /\ changed
  /\ loop' = "list"
  /\ UNCHANGED <<table, owed, changed, first, snap, jobs, fp, edits, external, breaks>>

\* Mutant: without the fallback period.
WakeByTimerNever == loop = "wait" /\ changed /\ WakeByChange

\* wait_for times out after the fallback period.
WakeByTimer ==
  /\ loop = "wait"
  /\ loop' = "list"
  /\ UNCHANGED <<table, owed, changed, first, snap, jobs, fp, edits, external, breaks>>

\* An exception in reconcile: of the database, or of a row no trigger can be
\* made for.  Only cancellation is suppressed: start fails, or the loop ends.
Die ==
  /\ \/ loop = "list" /\ breaks < MaxFaults /\ breaks' = breaks + 1
     \/ /\ loop = "apply" /\ ToBuild # {} /\ Raises(snap[Next1])
        /\ UNCHANGED breaks
  /\ loop' = "dead"
  /\ UNCHANGED <<table, owed, changed, first, snap, jobs, fp, edits, external>>

Stop ==
  /\ loop \notin {"down", "stopped"}
  /\ loop' = "stopped"
  /\ jobs' = NoRows /\ fp' = NoRows
  /\ UNCHANGED <<table, owed, changed, first, snap, edits, external, breaks>>

-----------------------------------------------------------------------------
(* Administrators *)

\* Every one of these commits; the event is set by Notify.
Committed == /\ edits < MaxEdits /\ edits' = edits + 1
             /\ owed' = owed + 1
             /\ UNCHANGED <<changed, loop, first, snap, jobs, fp, external, breaks>>

\* _validate: what is stored for a body of that type.
Normalised(type) == IF type = "poll" THEN Intervals ELSE Crons

\* create_schedule; a new row gets the smallest id that is free (the largest
\* plus one, which reuses the id of a deleted last row).
Free == CHOOSE i \in Ids : table[i] = None /\ \A j \in Ids : table[j] = None => i <= j

Create ==
  /\ \E i \in Ids : table[i] = None
  /\ \E type \in Types, on \in BOOLEAN : \E p \in Normalised(type) :
       table' = [table EXCEPT ![Free] = [type |-> type, on |-> on, params |-> p]]
  /\ Committed

\* update_schedule: validated as the type in the body, the row keeps its own.
Update(i) ==
  /\ table[i] # None
  /\ \E type \in Validators, on \in BOOLEAN : \E p \in Normalised(type) :
       table' = [table EXCEPT ![i] = [@ EXCEPT !.on = on, !.params = p]]
  /\ Committed

Delete(i) ==
  /\ table[i] # None
  /\ table' = [table EXCEPT ![i] = None]
  /\ Committed

\* notify_config_changed, where there is a manager to notify.
Notify ==
  /\ owed > 0
  /\ owed' = owed - 1
  /\ changed' = (changed \/ (loop # "down" /\ ~first))
  /\ UNCHANGED <<table, loop, first, snap, jobs, fp, edits, external, breaks>>

\* Somebody edits the database.
External(i) ==
  /\ external < MaxExternal
  /\ table[i] # None
  /\ \E p \in Params : table' = [table EXCEPT ![i].params = p]
  /\ external' = external + 1
  /\ UNCHANGED <<owed, changed, loop, first, snap, jobs, fp, edits, breaks>>

-----------------------------------------------------------------------------
Init ==
  /\ table = NoRows
  /\ owed = 0 /\ changed = FALSE
  /\ loop = "down" /\ first = FALSE
  /\ snap = NoRows
  /\ jobs = NoRows /\ fp = NoRows
  /\ edits = 0 /\ external = 0 /\ breaks = 0

Reconcile == ReadRows \/ RemoveJobs \/ AddJob \/ Die \/ Rest
Loop      == Reconcile \/ WakeByChange \/ WakeByTimer

Next == \/ Start \/ Loop \/ Stop
        \/ Create \/ Notify
        \/ \E i \in Ids : Update(i) \/ Delete(i) \/ External(i)

Spec == Init /\ [][Next]_vars

\* The event loop runs what is ready and timers fire; nobody has to edit.
Fairness == WF_vars(Start) /\ WF_vars(Reconcile) /\ WF_vars(WakeByChange)
            /\ WF_vars(WakeByTimer) /\ WF_vars(Notify)

FairSpec == Spec /\ Fairness

-----------------------------------------------------------------------------
(* Properties *)

\* Types; a job is there exactly when the row it was built from is recorded,
\* and a stopped manager has no jobs.
TypeOK ==
  /\ table \in [Ids -> Rows \cup {None}]
  /\ snap \in [Ids -> Rows \cup {None}]
  /\ fp \in [Ids -> Rows \cup {None}]
  /\ \A i \in Ids : jobs[i] = Wanted(fp[i])
  /\ loop \in {"down", "list", "remove", "apply", "wait", "dead", "stopped"}
  /\ owed \in 0..MaxEdits /\ changed \in BOOLEAN /\ first \in BOOLEAN
  /\ loop = "stopped" => jobs = NoRows

\* The jobs are those of the table.
Applied == \A i \in Ids : jobs[i] = Wanted(table[i])
Settled == Applied \/ loop \in {"dead", "stopped"}
=============================================================================
