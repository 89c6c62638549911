---------------------------- MODULE PollControl ----------------------------
(***************************************************************************)
(* Rounds of the poller and what the status page says of them.  A round is *)
(* started by an administrator (a background task behind a request) or by  *)
(* the scheduler (a job, or a job run now).  One lock keeps two rounds     *)
(* from overlapping; a round that meets another is skipped.  The daily     *)
(* report runs beside them and has no lock.                                *)
(*                                                                         *)
(* Which pull requests a round takes up is in MrTrack; here a round is a   *)
(* number of pull requests that are done one after the other.              *)
(***************************************************************************)
EXTENDS Integers, FiniteSets

CONSTANTS
  Admins, Timers,   \* who may start a round
  None, Done, Conflict, Failed,
  Projects,         \* how many projects are enabled
  Found,            \* how many pull requests a project may list
  MaxAsks, MaxRounds, MaxFaults   \* bounds

PollControlAssumption ==
  /\ Admins \cap Timers = {} /\ None \notin Admins \cup Timers
  /\ None \notin {Done, Conflict, Failed}
  /\ Projects \in Nat /\ Found \subseteq Nat
  /\ MaxAsks \in Nat /\ MaxRounds \in Nat /\ MaxFaults \in Nat

Callers == Admins \cup Timers

VARIABLES
  stage,        \* a caller: "idle", "accepted", "ready", "inside", "over"
  lock,      \* _run_lock: its holder
  todo,      \* projects the round has not listed yet
  left,      \* pull requests of the listed ones it has not done yet
  progress,  \* pull requests done and found so far in the last round
  report,    \* what run_once returned to a caller, None so far
  running, last, error,   \* poll_running, poll_last, poll_error
  asks, rounds, errors

vars == <<stage, lock, todo, left, progress, report, running, last, error, asks, rounds, errors>>

Zero     == [done |-> 0, total |-> 0]

Goto(c, l) == stage' = [stage EXCEPT ![c] = l]

-----------------------------------------------------------------------------
(* A request and its background task *)

\* start_poll: refused while poll_running says so.
Ask(a) ==
  /\ asks < MaxAsks
  /\ stage[a] = "idle" /\ ~running
  /\ asks' = asks + 1
  /\ Goto(a, "accepted")
  /\ UNCHANGED <<lock, todo, left, progress, report, running, last, error, rounds, errors>>

\* _background_poll, which starts when the event loop gets to it.
Begin(a) ==
  /\ stage[a] = "accepted"
  /\ running' = TRUE /\ last' = None /\ error' = None
  /\ Goto(a, "ready")
  /\ UNCHANGED <<lock, todo, left, progress, report, asks, rounds, errors>>

\* A job of type poll fires, or is run now.
Fire(t) ==
  /\ rounds < MaxRounds
  /\ stage[t] = "idle"
  /\ rounds' = rounds + 1
  /\ Goto(t, "ready")
  /\ UNCHANGED <<lock, todo, left, progress, report, running, last, error, asks, errors>>

-----------------------------------------------------------------------------
(* run_once *)

\* The lock is free: nothing comes between the test and taking it.
Enter(c) ==
  /\ stage[c] = "ready" /\ lock = None
  /\ lock' = c
  /\ progress' = Zero
  /\ todo' = Projects /\ left' = 0
  /\ Goto(c, "inside")
  /\ UNCHANGED <<report, running, last, error, asks, rounds, errors>>

Skip(c) ==
  /\ stage[c] = "ready" /\ lock # None
  /\ report' = [report EXCEPT ![c] = Conflict]
  /\ Goto(c, "over")
  /\ UNCHANGED <<lock, todo, left, progress, running, last, error, asks, rounds, errors>>

\* A project is listed, its pull requests add to the total; one that cannot
\* be listed is passed over.
List(c) ==
  /\ stage[c] = "inside" /\ left = 0 /\ todo > 0
  /\ todo' = todo - 1
  /\ \E n \in Found : /\ left' = n
                      /\ progress' = [progress EXCEPT !.total = @ + n]
  /\ UNCHANGED <<stage, lock, report, running, last, error, asks, rounds, errors>>

\* One pull request: skipped, enqueued, or failed: it counts as done.
One(c) ==
  /\ stage[c] = "inside" /\ left > 0
  /\ left' = left - 1
  /\ progress' = [progress EXCEPT !.done = @ + 1]
  /\ UNCHANGED <<stage, lock, todo, report, running, last, error, asks, rounds, errors>>

Leave(c) ==
  /\ stage[c] = "inside" /\ left = 0 /\ todo = 0
  /\ lock' = None
  /\ report' = [report EXCEPT ![c] = Done]
  /\ Goto(c, "over")
  /\ UNCHANGED <<todo, left, progress, running, last, error, asks, rounds, errors>>

\* An exception outside the loops (the database): the lock is given back.
Break(c) ==
  /\ stage[c] = "inside" /\ left = 0 /\ todo = Projects
  /\ errors < MaxFaults /\ errors' = errors + 1
  /\ lock' = None
  /\ report' = [report EXCEPT ![c] = Failed]
  /\ Goto(c, "over")
  /\ UNCHANGED <<todo, left, progress, running, last, error, asks, rounds>>

-----------------------------------------------------------------------------
(* After the round *)

Return(c) == /\ Goto(c, "idle")
             /\ report' = [report EXCEPT ![c] = None]
             /\ UNCHANGED <<lock, todo, left, progress, asks, rounds, errors>>

\* Mutant: a conflict leaves no trace.
EndSilently(a) ==
  /\ stage[a] = "over"
  /\ IF report[a] = Conflict THEN UNCHANGED <<last, error>>
     ELSE IF report[a] = Failed THEN error' = Failed /\ UNCHANGED last
     ELSE last' = report[a] /\ UNCHANGED error
  /\ running' = FALSE
  /\ Return(a)

\* _background_poll: a report, or an error, and the flag is taken back.
End(a) ==
  /\ stage[a] = "over"
  /\ IF report[a] \in {Conflict, Failed}
     THEN error' = report[a] /\ UNCHANGED last
     ELSE last' = report[a] /\ UNCHANGED error
  /\ running' = FALSE
  /\ Return(a)

\* The scheduler has no use for the report.
EndTimer(t) ==
  /\ stage[t] = "over"
  /\ Return(t)
  /\ UNCHANGED <<running, last, error>>

Init ==
  /\ stage = [c \in Callers |-> "idle"]
  /\ lock = None /\ todo = 0 /\ left = 0
  /\ progress = Zero
  /\ report = [c \in Callers |-> None]
  /\ running = FALSE /\ last = None /\ error = None
  /\ asks = 0 /\ rounds = 0 /\ errors = 0

Round(c) == Enter(c) \/ Skip(c) \/ List(c) \/ One(c) \/ Leave(c) \/ Break(c)
Ahead(c) == \/ c \in Admins /\ (Begin(c) \/ End(c))
            \/ c \in Timers /\ EndTimer(c)
            \/ Round(c)

Next == \/ \E a \in Admins : Ask(a) \/ Begin(a) \/ End(a)
        \/ \E t \in Timers : Fire(t) \/ EndTimer(t)
        \/ \E c \in Callers : Round(c)

Spec == Init /\ [][Next]_vars

\* A round goes on: requests to the platforms time out.
FairSpec == Spec /\ \A c \in Callers : WF_vars(Ahead(c))

-----------------------------------------------------------------------------
(* Properties *)

Counts  == [done : Nat, total : Nat]
Results == {Done, Conflict, Failed}

\* Types; the lock is held by the one caller that is inside, and outside a
\* round the progress says that all that was found has been done.
TypeOK ==
  /\ \A c \in Callers : stage[c] = "inside" <=> lock = c
  /\ stage \in [Callers -> {"idle", "accepted", "ready", "inside", "over"}]
  /\ progress \in Counts
  /\ lock = None => progress.done = progress.total
  /\ report \in [Callers -> Results \cup {None}]
  /\ last \in {None, Done} /\ error \in {None, Conflict, Failed}

\* Every accepted request leaves an answer on the status page, whatever the
\* other rounds do: once all is quiet there is a report or an error.
AskedIsAnswered ==
  asks > 0 /\ (\A a \in Admins : stage[a] = "idle") => last # None \/ error # None

\* A new round can be asked for.
Settled == ~running
=============================================================================
