------------------------------- MODULE Access -------------------------------
(***************************************************************************)
(* Users, roles, permissions, projects and their members: what the start   *)
(* of the program seeds, what the admin API changes, and what a user may   *)
(* see and do.                                                             *)
(*                                                                         *)
(* Every request is served by a coroutine with a session of its own: it    *)
(* authenticates and reads, then awaits, then commits what follows from    *)
(* what it has read.  Two requests overlap at will; a request that another *)
(* one has overtaken since its reads is called stale.                      *)
(***************************************************************************)
EXTENDS Integers, FiniteSets

CONSTANTS
  Users,       \* names of users; Root is the one that is seeded
  Root,
  Custom,      \* names of roles that are not built in
  Pids,        \* ids of projects, numbers: SQLite reuses the largest
  Repos,       \* what a project is about: provider and repo_id
  Tasks,       \* review rows: [project |-> id or None, repo |-> Repos]
  Clients,     \* requests in flight at a time
  Databases,   \* what the program may find at its start
  Grants,      \* sets of codes an administrator may tick
  Operations,  \* kinds of requests that are followed
  None,
  MaxAsks      \* bound on requests

\* PERMISSION_TREE, one module for each scope and each page that is
\* modelled; Obsolete is a code of an earlier version.
Modules    == {"projects", "reviews", "users", "roles"}
View(m)    == <<m, "view">>
Edit(m)    == <<m, "edit">>
Catalog    == Modules \X {"view", "edit"}
GlobalCode == {"users", "roles"} \X {"view", "edit"}
Obsolete   == <<"tasks", "manage">>

\* with_implied_view
WithImpliedView(codes) ==
  codes \cup {View(m) : m \in {n \in Modules : Edit(n) \in codes}}

\* DEFAULT_ROLES; the technical lead is the one with all_projects.
Builtin == {"admin", "tech_lead", "viewer"}
DefaultRole(code) ==
  [is_super |-> code = "admin", all_projects |-> code # "viewer",
   is_system |-> TRUE,
   codes |-> CASE code = "admin"     -> Catalog
               [] code = "tech_lead" -> {"projects", "reviews"} \X {"view", "edit"}
               [] OTHER              -> {View("projects"), View("reviews")}]

RoleNames == Builtin \cup Custom
RoleRow   == [is_super : BOOLEAN, all_projects : BOOLEAN, is_system : BOOLEAN,
              codes : SUBSET (Catalog \cup {Obsolete})]
UserRow   == [role : RoleNames, enabled : BOOLEAN]
\* What a form holds: a repository or nothing, with blanks around it or not.
Raw       == [repo : Repos \cup {None}, blanks : BOOLEAN]
Stripped(raw) == [raw EXCEPT !.blanks = FALSE]

\* What the tables hold at a start: rows of these types, with the foreign keys
\* and the unique indexes of storage/models.py.
Consistent(d) ==
  /\ d.permissions \subseteq Catalog \cup {Obsolete}
  /\ d.roles \in [RoleNames -> RoleRow \cup {None}]
  /\ d.users \in [Users -> UserRow \cup {None}]
  /\ d.projects \in [Pids -> Raw \cup {None}]
  /\ d.members \subseteq Pids \X Users
  /\ \A u \in Users : d.users[u] # None => d.roles[d.users[u].role] # None
  /\ \A m \in d.members : d.projects[m[1]] # None /\ d.users[m[2]] # None
  /\ \A p, q \in Pids : p # q /\ d.projects[p] # None => d.projects[p] # d.projects[q]

AccessAssumption ==
  /\ Root \in Users /\ None \notin Users /\ None \notin Repos /\ None \notin Pids
  /\ Pids \subseteq Nat /\ IsFiniteSet(Pids)
  /\ Custom \cap Builtin = {} /\ None \notin RoleNames
  /\ None \notin RoleRow /\ None \notin UserRow /\ None \notin Raw
  /\ \A d \in Databases : Consistent(d)
  /\ \A g \in Grants : g \subseteq Catalog
  /\ \A t \in Tasks : t.repo \in Repos /\ t.project \in Pids \cup {None}
  /\ MaxAsks \in Nat

VARIABLES
  boot,         \* "down", the steps of a start, then "up"
  permissions,  \* the codes that have a row
  roles, users, projects,   \* rows or None
  members,      \* project_member: pairs of a project and a user
  moved,        \* ids of projects that were deleted or renamed
  req,          \* the request of a client, or None
  asked

db   == <<permissions, roles, users, projects, members, moved>>
vars == <<boot, permissions, roles, users, projects, members, moved, req, asked>>

-----------------------------------------------------------------------------
(* Who may do what: deps.py *)

\* get_current_user reads the row at every request.
SignedIn(u) == users[u] # None /\ users[u].enabled
RoleOf(u)   == roles[users[u].role]

\* resolved_permission_codes
Codes(u) == IF RoleOf(u).is_super THEN Catalog ELSE RoleOf(u).codes

UserCan(u, code, p) ==
  \/ RoleOf(u).is_super
  \/ /\ code \in Codes(u)
     /\ \/ code \in GlobalCode
        \/ RoleOf(u).all_projects
        \/ p # None /\ <<p, u>> \in members

\* require_permission: one of the codes, without a project.
Permitted(u, codes) == \E code \in codes : UserCan(u, code, None)

\* require_code: one of the codes in the set of the role, no project asked.
HasCode(u, codes) == codes \cap Codes(u) # {}

\* allowed_project_ids: the first component says that nothing is filtered.
AllowedProjects(u) ==
  IF RoleOf(u).is_super \/ RoleOf(u).all_projects THEN <<TRUE, {}>>
  ELSE <<FALSE, {p \in Pids : <<p, u>> \in members}>>

\* allowed_review_scope
ReviewScope(u) ==
  IF View("reviews") \in Codes(u) THEN AllowedProjects(u) ELSE <<FALSE, {}>>

ProjectOfRepo(repo) == {p \in Pids : projects[p] = [repo |-> repo, blanks |-> FALSE]}

\* Mutant: rows of earlier versions, which have no project, are not found.
InScopeById(scope, t) == scope[1] \/ t.project \in scope[2]

\* review_scope_clause, the filter of the lists
InScope(scope, t) ==
  \/ scope[1]
  \/ t.project \in scope[2]
  \/ t.project = None /\ ProjectOfRepo(t.repo) \cap scope[2] # {}

\* review_task_project_id and review_task_allowed, the guard of the details
TaskProject(t) ==
  IF t.project # None THEN {t.project} ELSE ProjectOfRepo(t.repo)
TaskAllowed(u, t) == ReviewScope(u)[1] \/ TaskProject(t) \cap ReviewScope(u)[2] # {}

\* list_projects and list_menus
ListedProjects(u) ==
  {p \in Pids : projects[p] # None /\ (AllowedProjects(u)[1] \/ p \in AllowedProjects(u)[2])}
MenuNames(u) == {m \in Modules : View(m) \in Codes(u)}

-----------------------------------------------------------------------------
(* A start: catalogue, built-in roles, pruning, seed; each commits.        *)

AtBoot(step, next) == boot = step /\ boot' = next /\ UNCHANGED <<moved, req, asked>>

\* sync_permission_catalog
SyncCatalog ==
  /\ AtBoot("catalogue", "defaults")
  /\ permissions' = permissions \cup Catalog
  /\ UNCHANGED <<roles, users, projects, members>>

\* sync_default_role_permissions only adds.
SyncDefaults ==
  /\ AtBoot("defaults", "prune")
  /\ roles' = [r \in RoleNames |->
                 IF r \in Builtin /\ roles[r] # None
                 THEN [roles[r] EXCEPT !.codes = @ \cup (DefaultRole(r).codes \cap permissions)]
                 ELSE roles[r]]
  /\ UNCHANGED <<permissions, users, projects, members>>

\* Mutant: the roles keep what is no longer in the catalogue.
PruneCatalogOnly ==
  /\ AtBoot("prune", "seed")
  /\ permissions' = permissions \cap Catalog
  /\ UNCHANGED <<roles, users, projects, members>>

\* prune_obsolete_permissions
Prune ==
  /\ AtBoot("prune", "seed")
  /\ permissions' = permissions \cap Catalog
  /\ roles' = [r \in RoleNames |-> IF roles[r] = None THEN None
                                   ELSE [roles[r] EXCEPT !.codes = @ \cap Catalog]]
  /\ UNCHANGED <<users, projects, members>>

\* seed_rbac: nothing where there is a user, whatever the user may do.
Seed ==
  /\ AtBoot("seed", "up")
  /\ IF \E u \in Users : users[u] # None
     THEN UNCHANGED <<permissions, roles, users>>
     ELSE /\ permissions' = permissions \cup Catalog
          /\ roles' = [r \in RoleNames |->
                         IF r \notin Builtin THEN roles[r]
                         ELSE IF roles[r] = None THEN DefaultRole(r)
                         ELSE [roles[r] EXCEPT !.codes = @ \cup DefaultRole(r).codes]]
          /\ users' = [users EXCEPT ![Root] = [role |-> "admin", enabled |-> TRUE]]
  /\ UNCHANGED <<projects, members>>

Boot == SyncCatalog \/ SyncDefaults \/ Prune \/ Seed

\* The process ends and starts anew; what was in flight is gone.
Restart ==
  /\ boot # "catalogue"
  /\ asked < MaxAsks /\ asked' = asked + 1
  /\ boot' = "catalogue"
  /\ req' = [c \in Clients |-> None]
  /\ UNCHANGED db

-----------------------------------------------------------------------------
(* A request: what it reads, and what it leaves to be committed.           *)

Asks(c, r) ==
  /\ r.op \in Operations
  /\ asked' = asked + 1
  /\ req' = [req EXCEPT ![c] = r]
  /\ UNCHANGED <<boot, db>>

\* _enabled_super_count
Supers == {u \in Users : SignedIn(u) /\ RoleOf(u).is_super}

AskCreateUser(c, by) ==
  /\ Permitted(by, {Edit("users")})
  /\ \E u \in Users, r \in RoleNames, on \in BOOLEAN :
       /\ roles[r] # None
       /\ Asks(c, [op |-> "create_user", user |-> u, row |-> [role |-> r, enabled |-> on],
                   stale |-> FALSE])

\* Mutant: the count may reach one.
MayLoseAny(u) == roles[users[u].role].is_super => Supers # {}

\* The guard of a disabling and of a deletion: not the last administrator.
MayLose(u) == roles[users[u].role].is_super => Cardinality(Supers) > 1

\* update_user writes what differs from the row it has loaded.
AskUpdateUser(c, by) ==
  /\ Permitted(by, {Edit("users")})
  /\ \E u \in Users, r \in RoleNames, on \in BOOLEAN :
       /\ users[u] # None /\ roles[r] # None
       /\ ~on => MayLose(u)
       /\ Asks(c, [op |-> "update_user", user |-> u, loaded |-> users[u],
                   row |-> [role |-> r, enabled |-> on], stale |-> FALSE])

AskDeleteUser(c, by) ==
  /\ Permitted(by, {Edit("users")})
  /\ \E u \in Users \ {by} :
       /\ users[u] # None /\ MayLose(u)
       /\ Asks(c, [op |-> "delete_user", user |-> u, stale |-> FALSE])

AskCreateRole(c, by) ==
  /\ Permitted(by, {Edit("roles")})
  /\ \E r \in RoleNames, all \in BOOLEAN, codes \in Grants :
       Asks(c, [op |-> "create_role", role |-> r, all |-> all, codes |-> codes, made |-> FALSE,
                stale |-> FALSE])

AskUpdateRole(c, by) ==
  /\ Permitted(by, {Edit("roles")})
  /\ \E r \in Custom, all \in BOOLEAN :
       /\ roles[r] # None
       /\ Asks(c, [op |-> "update_role", role |-> r, loaded |-> roles[r].all_projects,
                   all |-> all, stale |-> FALSE])

AskSetPermissions(c, by) ==
  /\ Permitted(by, {Edit("roles")})
  /\ \E r \in RoleNames, codes \in Grants :
       /\ roles[r] # None
       /\ Asks(c, [op |-> "set_permissions", role |-> r, loaded |-> roles[r].codes,
                   codes |-> WithImpliedView(codes), stale |-> FALSE])

AskDeleteRole(c, by) ==
  /\ Permitted(by, {Edit("roles")})
  /\ \E r \in RoleNames :
       /\ roles[r] # None /\ ~roles[r].is_system
       /\ \A u \in Users : users[u] # None => users[u].role # r
       /\ Asks(c, [op |-> "delete_role", role |-> r, codes |-> roles[r].codes, stale |-> FALSE])

\* _duplicate_project compares the stripped form with the rows as they are.
Duplicate(raw, except) == \E p \in Pids \ except : projects[p] = Stripped(raw)

\* Without a project only all_projects lets a user pass.
AskCreateProject(c, by) ==
  /\ UserCan(by, Edit("projects"), None)
  /\ \E raw \in Raw :
       /\ raw.repo # None /\ ~Duplicate(raw, {})
       /\ Asks(c, [op |-> "create_project", by |-> by, raw |-> raw, made |-> None, stale |-> FALSE])

\* update_project: an empty form passes as the row's own, and is written.
AskUpdateProject(c, by) ==
  \E p \in Pids, raw \in Raw :
    /\ projects[p] # None /\ UserCan(by, Edit("projects"), p)
    /\ ~Duplicate(IF raw.repo # None THEN raw ELSE projects[p], {p})
    /\ Asks(c, [op |-> "update_project", project |-> p, loaded |-> projects[p], raw |-> raw,
                stale |-> FALSE])

AskDeleteProject(c, by) ==
  \E p \in Pids :
    /\ projects[p] # None /\ UserCan(by, Edit("projects"), p)
    /\ Asks(c, [op |-> "delete_project", project |-> p, stale |-> FALSE])

\* set_project_members drops names that do not exist.
AskSetMembers(c, by) ==
  \E p \in Pids, us \in SUBSET Users :
    /\ projects[p] # None /\ UserCan(by, Edit("projects"), p)
    /\ Asks(c, [op |-> "set_members", project |-> p, users |-> {u \in us : users[u] # None},
                stale |-> FALSE])

Ask(c) ==
  /\ boot = "up" /\ req[c] = None /\ asked < MaxAsks
  /\ \E by \in {u \in Users : SignedIn(u)} :
     \/ AskCreateUser(c, by) \/ AskUpdateUser(c, by) \/ AskDeleteUser(c, by)
     \/ AskCreateRole(c, by) \/ AskUpdateRole(c, by)
     \/ AskSetPermissions(c, by) \/ AskDeleteRole(c, by)
     \/ AskCreateProject(c, by) \/ AskUpdateProject(c, by)
     \/ AskDeleteProject(c, by) \/ AskSetMembers(c, by)

-----------------------------------------------------------------------------
(* The commits.  The constraints of the tables refuse what no longer fits, *)
(* and the request fails with nothing written.                             *)

Op(c, op) == req[c] # None /\ req[c].op = op /\ UNCHANGED <<boot, permissions, asked>>

Overtake(c, mine) ==
  req' = [d \in Clients |-> IF d = c THEN mine
                            ELSE IF req[d] = None THEN None ELSE [req[d] EXCEPT !.stale = TRUE]]

Refused(c) == req' = [req EXCEPT ![c] = None] /\ UNCHANGED <<roles, users, projects, members, moved>>
Ends(c)    == Overtake(c, None)

CreateUser(c) ==
  /\ Op(c, "create_user")
  /\ IF users[req[c].user] = None /\ roles[req[c].row.role] # None
     THEN /\ users' = [users EXCEPT ![req[c].user] = req[c].row]
          /\ UNCHANGED <<roles, projects, members, moved>> /\ Ends(c)
     ELSE Refused(c)

Changed(new, loaded, now) == IF new = loaded THEN now ELSE new

UpdateUser(c) ==
  LET r == req[c] IN
  /\ Op(c, "update_user")
  /\ IF users[r.user] # None /\ (r.row.role = r.loaded.role \/ roles[r.row.role] # None)
     THEN /\ users' = [users EXCEPT ![r.user] =
                         [role    |-> Changed(r.row.role, r.loaded.role, @.role),
                          enabled |-> Changed(r.row.enabled, r.loaded.enabled, @.enabled)]]
          /\ UNCHANGED <<roles, projects, members, moved>> /\ Ends(c)
     ELSE Refused(c)

\* The members cascade.
DeleteUser(c) ==
  /\ Op(c, "delete_user")
  /\ users' = [users EXCEPT ![req[c].user] = None]
  /\ members' = {m \in members : m[2] # req[c].user}
  /\ UNCHANGED <<roles, projects, moved>> /\ Ends(c)

\* create_role commits the row first and its permissions after.
CreateRole(c) ==
  LET r == req[c] IN
  /\ Op(c, "create_role") /\ ~r.made
  /\ IF roles[r.role] = None
     THEN /\ roles' = [roles EXCEPT ![r.role] = [is_super |-> FALSE, all_projects |-> r.all,
                                                 is_system |-> FALSE, codes |-> {}]]
          /\ Overtake(c, IF r.codes = {} THEN None ELSE [r EXCEPT !.made = TRUE])
          /\ UNCHANGED <<users, projects, members, moved>>
     ELSE Refused(c)

GrantRole(c) ==
  LET r == req[c]
      codes == WithImpliedView(r.codes)
  IN
  /\ Op(c, "create_role") /\ r.made
  /\ IF roles[r.role] # None /\ roles[r.role].codes \cap codes = {}
     THEN /\ roles' = [roles EXCEPT ![r.role].codes = @ \cup codes]
          /\ UNCHANGED <<users, projects, members, moved>> /\ Ends(c)
     ELSE Refused(c)

UpdateRole(c) ==
  LET r == req[c] IN
  /\ Op(c, "update_role")
  /\ IF roles[r.role] # None
     THEN /\ roles' = [roles EXCEPT ![r.role].all_projects = Changed(r.all, r.loaded, @)]
          /\ UNCHANGED <<users, projects, members, moved>> /\ Ends(c)
     ELSE Refused(c)

\* set_role_permissions writes the difference to what the request has loaded;
\* a row that is there already, or gone already, fails the commit.
SetPermissions(c) ==
  LET r == req[c]
      drop == r.loaded \ r.codes
      add  == r.codes \ r.loaded
  IN
  /\ Op(c, "set_permissions")
  /\ IF roles[r.role] # None /\ drop \subseteq roles[r.role].codes
        /\ add \cap roles[r.role].codes = {}
     THEN /\ roles' = [roles EXCEPT ![r.role].codes = (@ \ drop) \cup add]
          /\ UNCHANGED <<users, projects, members, moved>> /\ Ends(c)
     ELSE Refused(c)

\* The foreign key of user.role_id refuses a role in use.
DeleteRole(c) ==
  LET r == req[c] IN
  /\ Op(c, "delete_role")
  /\ IF /\ roles[r.role] # None /\ r.codes \subseteq roles[r.role].codes
        /\ \A u \in Users : users[u] # None => users[u].role # r.role
     THEN /\ roles' = [roles EXCEPT ![r.role] = None]
          /\ UNCHANGED <<users, projects, members, moved>> /\ Ends(c)
     ELSE Refused(c)

\* SQLite gives the largest id plus one.
FreshPid == CHOOSE p \in Pids : /\ \A q \in Pids : q >= p => projects[q] = None
                                /\ \A q \in Pids : q < p =>
                                     \E s \in Pids : s >= q /\ projects[s] # None

\* The unique index compares what is stored, blanks and all.
Taken(raw, except) == \E q \in Pids \ except : projects[q] = raw

CreateProject(c) ==
  LET r == req[c] IN
  /\ Op(c, "create_project") /\ r.made = None
  /\ \E p \in Pids : \A q \in Pids : q >= p => projects[q] = None
  /\ IF ~Taken(r.raw, {})
     THEN /\ projects' = [projects EXCEPT ![FreshPid] = r.raw]
          /\ Overtake(c, [r EXCEPT !.made = FreshPid])
          /\ UNCHANGED <<roles, users, members, moved>>
     ELSE Refused(c)

\* The second commit makes the creator a member.
JoinProject(c) ==
  LET r == req[c] IN
  /\ Op(c, "create_project") /\ r.made # None
  /\ IF projects[r.made] # None /\ users[r.by] # None /\ <<r.made, r.by>> \notin members
     THEN /\ members' = members \cup {<<r.made, r.by>>}
          /\ UNCHANGED <<roles, users, projects, moved>> /\ Ends(c)
     ELSE Refused(c)

UpdateProject(c) ==
  LET r == req[c] IN
  /\ Op(c, "update_project")
  /\ IF projects[r.project] # None /\ ~Taken(r.raw, {r.project})
     THEN /\ projects' = [projects EXCEPT ![r.project] = Changed(r.raw, r.loaded, @)]
          /\ moved' = moved \cup (IF r.raw = r.loaded THEN {} ELSE {r.project})
          /\ UNCHANGED <<roles, users, members>> /\ Ends(c)
     ELSE Refused(c)

\* The members cascade, the review rows keep the id.
DeleteProject(c) ==
  /\ Op(c, "delete_project")
  /\ projects' = [projects EXCEPT ![req[c].project] = None]
  /\ members' = {m \in members : m[1] # req[c].project}
  /\ moved' = moved \cup {req[c].project}
  /\ UNCHANGED <<roles, users>> /\ Ends(c)

SetMembers(c) ==
  LET r == req[c] IN
  /\ Op(c, "set_members")
  /\ IF r.users = {} \/ (projects[r.project] # None /\ \A u \in r.users : users[u] # None)
     THEN /\ members' = {m \in members : m[1] # r.project} \cup {<<r.project, u>> : u \in r.users}
          /\ UNCHANGED <<roles, users, projects, moved>> /\ Ends(c)
     ELSE Refused(c)

Commit(c) ==
  \/ CreateUser(c) \/ UpdateUser(c) \/ DeleteUser(c)
  \/ CreateRole(c) \/ GrantRole(c) \/ UpdateRole(c) \/ SetPermissions(c) \/ DeleteRole(c)
  \/ CreateProject(c) \/ JoinProject(c) \/ UpdateProject(c) \/ DeleteProject(c) \/ SetMembers(c)

-----------------------------------------------------------------------------
Init ==
  /\ boot = "catalogue"
  /\ \E d \in Databases :
       /\ permissions = d.permissions /\ roles = d.roles /\ users = d.users
       /\ projects = d.projects /\ members = d.members
  \* A review row may outlive its project.
  /\ moved = {p \in Pids : \E t \in Tasks : t.project = p /\ p \notin ProjectOfRepo(t.repo)}
  /\ req = [c \in Clients |-> None]
  /\ asked = 0

Next == Boot \/ Restart \/ \E c \in Clients : Ask(c) \/ Commit(c)

Spec == Init /\ [][Next]_vars

-----------------------------------------------------------------------------
(* Properties *)

\* Types and references: users have a role that exists, members a project and
\* a user; when the program is up nobody holds a code that is not in the
\* catalogue, and every code of the catalogue can be given.
TypeOK ==
  /\ roles \in [RoleNames -> RoleRow \cup {None}]
  /\ users \in [Users -> UserRow \cup {None}]
  /\ \A u \in Users : users[u] # None => roles[users[u].role] # None
  /\ \A m \in members : projects[m[1]] # None /\ users[m[2]] # None
  /\ boot = "up" => /\ permissions = Catalog
                    /\ \A r \in RoleNames : roles[r] # None => roles[r].codes \subseteq Catalog
  /\ \A p, q \in Pids : p # q /\ projects[p] # None => projects[p] # projects[q]

\* The last enabled administrator is lost only by taking the role from them,
\* or by a request that counted before another one committed (users.py guards
\* disabling and deletion).
LastAdminGuarded ==
  [][Supers # {} /\ Supers' = {} =>
       \E c \in Clients :
         /\ req[c] # None /\ req[c].op \in {"update_user", "delete_user"}
         /\ \/ req[c].stale
            \/ req[c].op = "update_user" /\ ~roles[req[c].row.role].is_super]_vars

Paired(codes) == \A m \in Modules : Edit(m) \in codes => View(m) \in codes

\* A role that may edit may view, and what one request writes keeps it so;
\* only a write of permissions overtaken by another one breaks the pair
\* (roles.py set_role_permissions, a difference to what was loaded).
EditSeesView ==
  [][\A r \in RoleNames :
       /\ roles'[r] # None /\ ~Paired(roles'[r].codes)
       /\ roles[r] # None => Paired(roles[r].codes)
       => \E c \in Clients : /\ req[c] # None /\ req[c].op = "set_permissions"
                             /\ req[c].role = r /\ req[c].stale]_vars

\* The list of reviews and the page of one agree for every user and row, also
\* for rows without a project; where the project is known they agree with the
\* permission on that project; a member sees reviews of the repository of one
\* of their projects, except under the id of a project that was deleted or
\* renamed; and a page whose menu item a user lacks is a page whose permission
\* they lack.
ScopesAgree ==
  boot = "up" =>
  \A u \in Users : SignedIn(u) =>
    /\ \A t \in Tasks :
         /\ InScope(ReviewScope(u), t) <=> TaskAllowed(u, t)
         /\ \A p \in TaskProject(t) : TaskAllowed(u, t) <=> UserCan(u, View("reviews"), p)
         /\ InScope(ReviewScope(u), t) /\ ~ReviewScope(u)[1] =>
              \E p \in ReviewScope(u)[2] : p \in ProjectOfRepo(t.repo) \cup moved
    /\ \A p \in ListedProjects(u) :
         View("projects") \in Codes(u) => UserCan(u, View("projects"), p)
    /\ \A m \in {"users", "roles"} :
         Paired(Codes(u)) =>
           (m \in MenuNames(u) <=> Permitted(u, {View(m), Edit(m)}))
=============================================================================
