------------------------------ MODULE Console ------------------------------
(***************************************************************************)
(* The console and what it leads to: users and their rights, the           *)
(* configuration and what of it is in force, the notices and the messages  *)
(* that reach people, the pages that count, and the algorithms of the      *)
(* reviews they show.  The parts meet in rows only, and none reads what    *)
(* another one is about to write, so a behaviour follows one of them, the  *)
(* one in focus.  Safety only: nothing here waits.                         *)
(***************************************************************************)
EXTENDS Integers, Sequences, FiniteSets

CONSTANTS
  Users, Root, Custom, Pids, Repos, Tasks, Clients, Databases, Grants, Operations, MaxAsks, \* Access
  Providers, Models, Secrets, Forms, Priorities, Limits, Default, Admins, Masked,
  MaxSaves, MaxFaults, MaxStarts,                                               \* Configuration
  Callers, Titles, Pages, ListLimit, MaxNotices, MaxClock, MaxLosses,           \* SystemNotices
  RouteIds, PersonIds, Channels, Unknown, Projects, Kinds, Editors, Attempts, MaxEdits,   \* Pushes
  SmallFiles, SmallChurn, MaxFiles, GroupBudget, LinesMax, FoundMax, NoPath,    \* ReviewCases
  PageMax, RowsMax, ValuesMax,                                                  \* PageCases
  None

VARIABLES
  focus,
  boot, permissions, roles, users, projects, members, moved, req, asked,
  env, envmodel, forge, model, conc, up, registry, late, bootlock, replayed, poller,
  schedulers, worker, raced, job, saves, failed, starts,
  notices, clock, report, page, phantoms, losses,
  route, person, bound, edit, push, edits,
  kind, given,
  shape, input

A == INSTANCE Access
C == INSTANCE Configuration
N == INSTANCE SystemNotices
P == INSTANCE Pushes WITH MaxAsks <- MaxEdits
R == INSTANCE ReviewCases
T == INSTANCE PageCases WITH Nil <- None

ASSUME ConsoleAssumption ==
  /\ A!AccessAssumption /\ C!ConfigurationAssumption /\ N!NoticesAssumption
  /\ P!PushesAssumption /\ R!CasesAssumption /\ T!PageAssumption

avars == <<boot, permissions, roles, users, projects, members, moved, req, asked>>
cvars == <<env, envmodel, forge, model, conc, up, registry, late, bootlock, replayed, poller,
           schedulers, worker, raced, job, saves, failed, starts>>
nvars == <<notices, clock, report, page, phantoms, losses>>
pvars == <<route, person, bound, edit, push, edits>>
tvars == <<kind, given, shape, input>>
vars  == <<focus, avars, cvars, nvars, pvars, tvars>>

In(component) == focus = component /\ UNCHANGED focus

\* The first state of a component that is not in focus says nothing: one is
\* as good as another.
Init ==
  /\ focus \in {"access", "configuration", "notices", "pushes", "reviews", "pages"}
  /\ A!Init /\ C!Init /\ N!Init /\ P!Init /\ R!Init /\ T!Init
  /\ focus = "access" \/ permissions = {}
  /\ focus = "configuration" \/ (env = {} /\ ~envmodel /\ forge = C!NoAdapter
                                 /\ \A m \in Models : model[m] = None)

Next ==
  \/ In("access")        /\ A!Next /\ UNCHANGED <<cvars, nvars, pvars, tvars>>
  \/ In("configuration") /\ C!Next /\ UNCHANGED <<avars, nvars, pvars, tvars>>
  \/ In("notices")       /\ N!Next /\ UNCHANGED <<avars, cvars, pvars, tvars>>
  \/ In("pushes")        /\ P!Next /\ UNCHANGED <<avars, cvars, nvars, tvars>>
  \/ In("reviews")       /\ R!Next /\ UNCHANGED <<avars, cvars, nvars, pvars, shape, input>>
  \/ In("pages")         /\ T!Next /\ UNCHANGED <<avars, cvars, nvars, pvars, kind, given>>

Spec == Init /\ [][Next]_vars

-----------------------------------------------------------------------------
\* Types, and that the rows of each part refer to rows that exist: roles of
\* users, members of projects, the lock and the pool of a boot, bindings.
TypeOK ==
  /\ focus = "access"        => A!TypeOK
  /\ focus = "configuration" => C!TypeOK
  /\ focus = "notices"       => N!TypeOK
  /\ focus = "pushes"        => P!TypeOK

\* No write undoes what its guard is there for: the last administrator goes
\* only by losing the role or to a request another one has overtaken; a role
\* that may edit may view, but for overlapping writes; a secret changes only
\* by a form in which it was typed (users.py, roles.py, forges.py, models.py).
WritesGuarded == A!LastAdminGuarded /\ A!EditSeesView /\ C!MaskKeepsSecret

\* The list of reviews, the page of one and the permission agree for every
\* user and row, also for rows without a project (deps.py).
ScopesAgree == focus = "access" => A!ScopesAgree

\* What is saved is in force when all saves are done: adapters, the worker
\* and its limit, but for saves that overlap (registry.py, bootstrap.py).
SavedInForce == focus = "configuration" => C!RegistryCurrent /\ C!WorkerServes

\* A notice is on every page that listens; a message is tried on every route,
\* unless a lookup fails, and names who was meant (system_notification_repo.py, dispatch.py).
MessagesReach ==
  /\ focus = "notices" => N!NoticesTold
  /\ focus = "pushes"  => P!NamesMeant /\ P!EachRouteTried

\* A review loses nothing on its way: files on the way to a group, comments
\* on the way from an answer, findings between two rounds (grouping.py,
\* sandbox.py, review_filter.py, compare.py).
NothingLost == R!GroupsCover /\ R!BucketsBalance /\ R!AnswersKept

\* An anchor names lines that read as the quoted snippet, on the side and at
\* the numbers the platform counts (location.py, relocation.py).
AnchorsRead == R!AnchorsRead

\* The numbers of a page add up, with each other and with the rows
\* (reviews.py, stats.py, workrate.py).
ReportsAddUp == T!ReportsAddUp

\* A message about a project is tried on the routes that are that project's
\* own (models.py: project_id NULL is for all, another one for the project).
ProjectRouteTold == focus = "pushes" => P!ProjectRouteTold
=============================================================================
