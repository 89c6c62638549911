--------------------------- MODULE Console_proofs ---------------------------
(***************************************************************************)
(* Theorems about the console: users and their rights, the configuration,  *)
(* the notices and the messages, for any number of users, roles, projects, *)
(* platforms, models, pages, routes and overlapping requests.  Each part   *)
(* has an inductive invariant of its own; a step of Console is a step of   *)
(* one part or leaves its variables alone.                                 *)
(***************************************************************************)
EXTENDS Console, FiniteSetTheorems, WellFoundedInduction, TLAPS

-----------------------------------------------------------------------------
(* Every step of the whole is a step of each part, or leaves it alone. *)

\* Console: In and the UNCHANGED of the other components.
LEMMA StepOfParts ==
  ASSUME [Next]_vars
  PROVE  [A!Next]_avars /\ [C!Next]_cvars /\ [N!Next]_nvars /\ [P!Next]_pvars
<1>1. CASE Next
  BY <1>1 DEF Next
<1>2. CASE UNCHANGED vars
  BY <1>2 DEF vars
<1> QED
  BY <1>1, <1>2

-----------------------------------------------------------------------------
(* Facts about the library *)

\* The library's Cardinality is the same in every instance.
LEMMA SameCardinality ==
  ASSUME NEW S0
  PROVE  /\ A!Cardinality(S0) = Cardinality(S0)
         /\ C!Cardinality(S0) = Cardinality(S0)
         /\ N!Cardinality(S0) = Cardinality(S0)
         /\ P!Cardinality(S0) = Cardinality(S0)
BY DEF A!Cardinality, C!Cardinality, N!Cardinality, P!Cardinality, Cardinality

\* A set of numbers that is not empty has a least one.
LEMMA LeastNat ==
  ASSUME NEW S0 \in SUBSET Nat, S0 # {}
  PROVE  \E m \in S0 : \A n \in S0 : m <= n
<1> DEFINE R1 == {ss \in Nat \X Nat : ss[1] < ss[2]}
<1>1. IsWellFoundedOn(R1, Nat)
  BY NatLessThanWellFounded DEF OpToRel
<1>2. \A x, y \in Nat : y < x => <<y, x>> \in R1
  OBVIOUS
<1> HIDE DEF R1
<1>3. \E x \in S0 : \A y \in S0 : ~ (<<y, x>> \in R1)
  BY <1>1, WFMin
<1>4. PICK x \in S0 : \A y \in S0 : ~ (<<y, x>> \in R1)
  BY <1>3
<1>5. ASSUME NEW n \in S0
      PROVE  x <= n
  <2>1. x \in Nat /\ n \in Nat
    OBVIOUS
  <2>2. ~ (n < x)
    BY <2>1, <1>2, <1>4
  <2> QED
    BY <2>1, <2>2
<1> QED
  BY <1>5

-----------------------------------------------------------------------------
(* Users, roles, projects: Access *)

\* What a request in flight has read and is about to write.
UserRequest ==
  [op : {"create_user"}, user : Users, row : A!UserRow, stale : BOOLEAN] \cup
  [op : {"update_user"}, user : Users, loaded : A!UserRow, row : A!UserRow, stale : BOOLEAN] \cup
  [op : {"delete_user"}, user : Users, stale : BOOLEAN]
RoleRequest ==
  [op : {"create_role"}, role : A!RoleNames, all : BOOLEAN, codes : SUBSET A!Catalog,
   made : BOOLEAN, stale : BOOLEAN] \cup
  [op : {"update_role"}, role : A!RoleNames, loaded : BOOLEAN, all : BOOLEAN, stale : BOOLEAN] \cup
  [op : {"set_permissions"}, role : A!RoleNames, loaded : SUBSET A!Catalog,
   codes : SUBSET A!Catalog, stale : BOOLEAN] \cup
  [op : {"delete_role"}, role : A!RoleNames, codes : SUBSET A!Catalog, stale : BOOLEAN]
ProjectRequest ==
  [op : {"create_project"}, by : Users, raw : A!Raw, made : Pids \cup {None}, stale : BOOLEAN] \cup
  [op : {"update_project"}, project : Pids, loaded : A!Raw, raw : A!Raw, stale : BOOLEAN] \cup
  [op : {"delete_project"}, project : Pids, stale : BOOLEAN] \cup
  [op : {"set_members"}, project : Pids, users : SUBSET Users, stale : BOOLEAN]
Request == UserRequest \cup RoleRequest \cup ProjectRequest

RowTypes ==
  /\ permissions \subseteq A!Catalog \cup {A!Obsolete}
  /\ roles \in [A!RoleNames -> A!RoleRow \cup {None}]
  /\ users \in [Users -> A!UserRow \cup {None}]
  /\ projects \in [Pids -> A!Raw \cup {None}]
  /\ members \subseteq Pids \X Users

\* The foreign keys and the unique index hold.
RowKeys ==
  /\ \A u \in Users : users[u] # None => roles[users[u].role] # None
  /\ \A m \in members : projects[m[1]] # None /\ users[m[2]] # None
  /\ \A p, q \in Pids : p # q /\ projects[p] # None => projects[p] # projects[q]

\* How far the start of the program has come; requests begin when it is up.
Booted ==
  /\ boot \in {"catalogue", "defaults", "prune", "seed", "up"}
  /\ boot # "catalogue" => A!Catalog \subseteq permissions
  /\ boot \in {"seed", "up"} =>
       /\ permissions \subseteq A!Catalog
       /\ \A r \in A!RoleNames : roles[r] # None => roles[r].codes \subseteq A!Catalog
  /\ boot # "up" => \A c \in Clients : req[c] = None

\* A row of reviews names the project of its repository, or one that was
\* deleted or renamed.
RowsMoved ==
  /\ moved \subseteq Pids
  /\ \A t \in Tasks : t.project # None => t.project \in A!ProjectOfRepo(t.repo) \cup moved

ReqTypes == req \in [Clients -> Request \cup {None}]

\* What a request that nobody has overtaken has read is still so.
Current(r) ==
  /\ r.op = "update_user" =>
       /\ users[r.user] # None /\ users[r.user] = r.loaded
       /\ ~r.row.enabled => A!MayLose(r.user)
  /\ r.op = "delete_user" => users[r.user] # None /\ A!MayLose(r.user)
  /\ r.op = "set_permissions" => roles[r.role] # None /\ r.loaded = roles[r.role].codes
ReadIsCurrent == \A c \in Clients : req[c] # None /\ ~req[c].stale => Current(req[c])

\* What is to be written lets no one edit without seeing.
PairsAsked ==
  \A c \in Clients : req[c] # None /\ req[c].op = "set_permissions" => A!Paired(req[c].codes)

AccessRows == RowTypes /\ RowKeys /\ Booted /\ RowsMoved
AccessReqs == ReqTypes /\ ReadIsCurrent /\ PairsAsked
AccessInv  == AccessRows /\ AccessReqs

\* What a row of a role is and does not hold (RoleRow, UserRow, Raw).
LEMMA Rows ==
  /\ None \notin A!RoleRow /\ None \notin A!UserRow /\ None \notin A!Raw
  /\ Root \in Users /\ None \notin Pids /\ A!Obsolete \notin A!Catalog
  /\ "admin" \in A!RoleNames
BY ConsoleAssumption DEF A!AccessAssumption, A!Obsolete, A!Catalog, A!Modules, A!RoleNames,
                         A!Builtin

\* DEFAULT_ROLES are rows, and their codes let no one edit without seeing
\* (storage/seed.py).
LEMMA DefaultRows ==
  ASSUME NEW code \in A!RoleNames
  PROVE  /\ A!DefaultRole(code) \in A!RoleRow
         /\ A!DefaultRole(code).codes \subseteq A!Catalog
         /\ A!Paired(A!DefaultRole(code).codes)
<1> DEFINE codes == CASE code = "admin" -> A!Catalog
                      [] code = "tech_lead" -> {"projects", "reviews"} \X {"view", "edit"}
                      [] OTHER -> {A!View("projects"), A!View("reviews")}
<1>1. A!DefaultRole(code).codes = codes
  BY DEF A!DefaultRole
<1>2. codes \subseteq A!Catalog /\ A!Paired(codes)
  BY DEF A!Catalog, A!Modules, A!View, A!Edit, A!Paired
<1>3. A!DefaultRole(code) \in A!RoleRow
  <2> HIDE DEF codes
  <2>1. A!DefaultRole(code) = [is_super |-> code = "admin", all_projects |-> code # "viewer",
                               is_system |-> TRUE, codes |-> codes]
    BY Zenon DEF A!DefaultRole, codes
  <2>2. codes \in SUBSET (A!Catalog \cup {A!Obsolete})
    BY <1>2
  <2>3. (code = "admin") \in BOOLEAN /\ (code # "viewer") \in BOOLEAN
    OBVIOUS
  <2> QED
    BY <2>1, <2>2, <2>3 DEF A!RoleRow
<1> QED
  BY <1>1, <1>2, <1>3

\* The tables that a start finds are consistent (Access Init).
LEMMA AccessInit ==
  ASSUME A!Init
  PROVE  AccessInv
<1>1. PICK d \in Databases : /\ permissions = d.permissions /\ roles = d.roles /\ users = d.users
                             /\ projects = d.projects /\ members = d.members
  BY DEF A!Init
<1>2. A!Consistent(d)
  BY ConsoleAssumption DEF A!AccessAssumption
<1>3. RowTypes /\ RowKeys
  BY <1>1, <1>2 DEF A!Consistent, RowTypes, RowKeys
<1>4. \A c \in Clients : req[c] = None
  BY DEF A!Init
<1>5. Booted
  BY <1>4 DEF Booted, A!Init
<1>6. RowsMoved
  <2>1. \A t \in Tasks : t.project # None => t.project \in Pids
    BY ConsoleAssumption DEF A!AccessAssumption
  <2> QED
    BY <2>1 DEF A!Init, RowsMoved
<1>7. AccessReqs
  BY <1>4 DEF A!Init, AccessReqs, ReqTypes, ReadIsCurrent, PairsAsked
<1> QED
  BY <1>3, <1>5, <1>6, <1>7 DEF AccessInv, AccessRows

-----------------------------------------------------------------------------
(* The start of the program *)

\* sync_permission_catalog, sync_default_role_permissions,
\* prune_obsolete_permissions and seed_rbac keep rows and keys.
LEMMA BootStep ==
  ASSUME AccessInv, A!Boot
  PROVE  AccessInv'
<1> USE Rows DEF AccessInv, AccessRows
<1>1. boot # "up" /\ \A c \in Clients : req[c] = None
  BY DEF A!Boot, A!SyncCatalog, A!SyncDefaults, A!Prune, A!Seed, A!AtBoot, Booted
<1>2. UNCHANGED <<req, moved, projects, members>>
  BY DEF A!Boot, A!SyncCatalog, A!SyncDefaults, A!Prune, A!Seed, A!AtBoot
<1>3. AccessReqs'
  BY <1>1, <1>2 DEF AccessReqs, ReqTypes, ReadIsCurrent, PairsAsked
<1>4. RowsMoved'
  BY <1>2 DEF RowsMoved, A!ProjectOfRepo
<1>5. CASE A!SyncCatalog
  BY <1>1, <1>2, <1>3, <1>4, <1>5 DEF A!SyncCatalog, A!AtBoot, RowTypes, RowKeys, Booted
<1>6. CASE A!SyncDefaults
  <2> DEFINE new(r) == IF r \in A!Builtin /\ roles[r] # None
                       THEN [roles[r] EXCEPT !.codes = @ \cup (A!DefaultRole(r).codes \cap permissions)]
                       ELSE roles[r]
  <2>1. roles' = [r \in A!RoleNames |-> new(r)]
    BY <1>6 DEF A!SyncDefaults
  <2>2. \A r \in A!RoleNames : /\ new(r) \in A!RoleRow \cup {None}
                               /\ new(r) = None <=> roles[r] = None
    BY DEF RowTypes, A!RoleRow
  <2> HIDE DEF new
  <2>3. RowTypes' /\ RowKeys'
    <3>1. users' = users /\ permissions' \subseteq A!Catalog \cup permissions
      BY <1>6 DEF A!SyncDefaults
    <3>2. RowTypes'
      BY <1>2, <2>1, <2>2, <3>1 DEF RowTypes
    <3>3. \A u \in Users : users[u] # None => users[u].role \in A!RoleNames
      BY DEF RowTypes, A!UserRow
    <3>4. RowKeys'
      BY <1>2, <2>1, <2>2, <3>1, <3>3 DEF RowKeys
    <3> QED
      BY <3>2, <3>4
  <2>4. Booted'
    BY <1>1, <1>2, <1>6 DEF A!SyncDefaults, A!AtBoot, Booted
  <2> QED
    BY <1>3, <1>4, <2>3, <2>4
<1>7. CASE A!Prune
  <2> DEFINE new(r) == IF roles[r] = None THEN None
                       ELSE [roles[r] EXCEPT !.codes = @ \cap A!Catalog]
  <2>1. roles' = [r \in A!RoleNames |-> new(r)]
    BY <1>7 DEF A!Prune
  <2>2. \A r \in A!RoleNames : /\ new(r) \in A!RoleRow \cup {None}
                               /\ new(r) = None <=> roles[r] = None
                               /\ new(r) # None => new(r).codes \subseteq A!Catalog
    BY DEF RowTypes, A!RoleRow
  <2> HIDE DEF new
  <2>3. RowTypes' /\ RowKeys'
    <3>1. users' = users /\ permissions' \subseteq A!Catalog \cup permissions
      BY <1>7 DEF A!Prune
    <3>2. RowTypes'
      BY <1>2, <2>1, <2>2, <3>1 DEF RowTypes
    <3>3. \A u \in Users : users[u] # None => users[u].role \in A!RoleNames
      BY DEF RowTypes, A!UserRow
    <3>4. RowKeys'
      BY <1>2, <2>1, <2>2, <3>1, <3>3 DEF RowKeys
    <3> QED
      BY <3>2, <3>4
  <2>4. Booted'
    BY <1>1, <1>2, <1>7, <2>1, <2>2 DEF A!Prune, A!AtBoot, Booted
  <2> QED
    BY <1>3, <1>4, <2>3, <2>4
<1>8. CASE A!Seed
  <2>1. CASE \E u \in Users : users[u] # None
    BY <1>1, <1>2, <1>3, <1>4, <1>8, <2>1 DEF A!Seed, A!AtBoot, RowTypes, RowKeys, Booted
  <2>2. CASE ~ \E u \in Users : users[u] # None
    <3> DEFINE new(r) == IF r \notin A!Builtin THEN roles[r]
                         ELSE IF roles[r] = None THEN A!DefaultRole(r)
                         ELSE [roles[r] EXCEPT !.codes = @ \cup A!DefaultRole(r).codes]
    <3>1. /\ roles' = [r \in A!RoleNames |-> new(r)]
          /\ permissions' = permissions \cup A!Catalog
          /\ users' = [users EXCEPT ![Root] = [role |-> "admin", enabled |-> TRUE]]
          /\ boot = "seed" /\ boot' = "up"
      BY <1>8, <2>2 DEF A!Seed, A!AtBoot
    <3>2. \A r \in A!RoleNames : /\ new(r) \in A!RoleRow \cup {None}
                                 /\ new(r) = None => r \notin A!Builtin
                                 /\ new(r) # None => new(r).codes \subseteq A!Catalog
      BY <3>1, DefaultRows DEF RowTypes, A!RoleRow, Booted
    <3> HIDE DEF new
    <3>3. [role |-> "admin", enabled |-> TRUE] \in A!UserRow
      BY DEF A!UserRow
    <3>4. RowTypes'
      BY <1>2, <3>1, <3>2, <3>3 DEF RowTypes
    <3>5. RowKeys'
      <4>1. \A u \in Users : users'[u] # None => u = Root
        BY <2>2, <3>1 DEF RowTypes
      <4>2. users'[Root].role = "admin" /\ roles'["admin"] # None
        BY <3>1, <3>2 DEF RowTypes, A!Builtin
      <4>3. members = {}
        BY <2>2 DEF RowKeys, RowTypes
      <4> QED
        BY <1>2, <4>1, <4>2, <4>3 DEF RowKeys
    <3>6. Booted'
      BY <1>1, <1>2, <3>1, <3>2 DEF Booted
    <3> QED
      BY <1>3, <1>4, <3>4, <3>5, <3>6
  <2> QED
    BY <2>1, <2>2
<1> QED
  BY <1>5, <1>6, <1>7, <1>8 DEF A!Boot

\* The process starts anew: the tables stay, the requests are gone.
LEMMA RestartStep ==
  ASSUME AccessInv, A!Restart
  PROVE  AccessInv'
BY DEF AccessInv, AccessRows, AccessReqs, A!Restart, A!db, RowTypes, RowKeys, Booted, RowsMoved,
       ReqTypes, ReadIsCurrent, PairsAsked, A!ProjectOfRepo

-----------------------------------------------------------------------------
(* Requests begin and are overtaken *)

\* Who may lose a right is a question to users and roles alone.
LEMMA SameLoss ==
  ASSUME UNCHANGED <<users, roles>>, NEW u \in Users
  PROVE  A!MayLose(u)' = A!MayLose(u)
<1>1. A!Supers' = A!Supers
  BY DEF A!Supers, A!SignedIn, A!RoleOf
<1>2. A!Cardinality(A!Supers') = A!Cardinality(A!Supers)
  BY <1>1
<1> QED
  BY <1>2 DEF A!MayLose

\* What a request has read stays as long as users and roles do.
LEMMA StillCurrent ==
  ASSUME UNCHANGED <<users, roles>>, NEW r \in Request, Current(r)
  PROVE  Current(r)'
<1>1. r.op \in {"update_user", "delete_user"} => r.user \in Users
  BY DEF Request, UserRequest, RoleRequest, ProjectRequest
<1> QED
  BY <1>1, SameLoss DEF Current

\* A set of permissions that is completed lets no one edit without seeing
\* (with_implied_view).
LEMMA Implied ==
  ASSUME NEW codes \in SUBSET A!Catalog
  PROVE  /\ A!WithImpliedView(codes) \subseteq A!Catalog
         /\ A!Paired(A!WithImpliedView(codes))
<1>1. \A m \in A!Modules : A!View(m) \in A!Catalog
  BY DEF A!View, A!Catalog
<1>2. \A m \in A!Modules : \A n \in A!Modules : A!Edit(m) # A!View(n)
  BY DEF A!View, A!Edit
<1> QED
  BY <1>1, <1>2 DEF A!WithImpliedView, A!Paired

\* A request begins: it reads, and writes nothing (Ask).
LEMMA AskStep ==
  ASSUME AccessInv, NEW c \in Clients, A!Ask(c)
  PROVE  AccessInv'
<1> USE DEF AccessInv, AccessRows, AccessReqs
<1>1. PICK by \in Users :
        \/ A!AskCreateUser(c, by) \/ A!AskUpdateUser(c, by) \/ A!AskDeleteUser(c, by)
        \/ A!AskCreateRole(c, by) \/ A!AskUpdateRole(c, by)
        \/ A!AskSetPermissions(c, by) \/ A!AskDeleteRole(c, by)
        \/ A!AskCreateProject(c, by) \/ A!AskUpdateProject(c, by)
        \/ A!AskDeleteProject(c, by) \/ A!AskSetMembers(c, by)
  BY DEF A!Ask
<1>2. boot = "up"
  BY DEF A!Ask
<1>u. /\ \A u \in Users : users[u] # None => users[u] \in A!UserRow
      /\ \A r \in A!RoleNames : roles[r] # None =>
           roles[r].all_projects \in BOOLEAN /\ roles[r].codes \in SUBSET A!Catalog
      /\ \A p \in Pids : projects[p] # None => projects[p] \in A!Raw
      /\ \A r \in A!RoleNames, on \in BOOLEAN : [role |-> r, enabled |-> on] \in A!UserRow
  BY <1>2 DEF RowTypes, A!RoleRow, Booted, A!UserRow
<1>g. \A codes \in Grants : codes \in SUBSET A!Catalog
  BY ConsoleAssumption DEF A!AccessAssumption
<1>3. \E r \in Request :
        /\ A!Asks(c, r) /\ Current(r)
        /\ r.op = "set_permissions" => A!Paired(r.codes)
  <2>1. CASE A!AskCreateUser(c, by)
    <3>1. PICK u \in Users, r \in A!RoleNames, on \in BOOLEAN :
            A!Asks(c, [op |-> "create_user", user |-> u, row |-> [role |-> r, enabled |-> on],
                       stale |-> FALSE])
      BY <2>1 DEF A!AskCreateUser
    <3>2. [op |-> "create_user", user |-> u, row |-> [role |-> r, enabled |-> on],
           stale |-> FALSE] \in Request
      BY <1>u DEF Request, UserRequest
    <3> QED
      BY <3>1, <3>2 DEF Current
  <2>2. CASE A!AskUpdateUser(c, by)
    <3>1. PICK u \in Users, r \in A!RoleNames, on \in BOOLEAN :
            /\ users[u] # None /\ roles[r] # None
            /\ ~on => A!MayLose(u)
            /\ A!Asks(c, [op |-> "update_user", user |-> u, loaded |-> users[u],
                          row |-> [role |-> r, enabled |-> on], stale |-> FALSE])
      BY <2>2 DEF A!AskUpdateUser
    <3>2. [op |-> "update_user", user |-> u, loaded |-> users[u],
           row |-> [role |-> r, enabled |-> on], stale |-> FALSE] \in Request
      BY <1>u, <3>1 DEF Request, UserRequest
    <3> QED
      BY <3>1, <3>2 DEF Current
  <2>3. CASE A!AskDeleteUser(c, by)
    <3>1. PICK u \in Users :
            /\ users[u] # None /\ A!MayLose(u)
            /\ A!Asks(c, [op |-> "delete_user", user |-> u, stale |-> FALSE])
      BY <2>3 DEF A!AskDeleteUser
    <3>2. [op |-> "delete_user", user |-> u, stale |-> FALSE] \in Request
      BY DEF Request, UserRequest
    <3> QED
      BY <3>1, <3>2 DEF Current
  <2>4. CASE A!AskCreateRole(c, by)
    <3>1. PICK r \in A!RoleNames, all \in BOOLEAN, codes \in Grants :
            A!Asks(c, [op |-> "create_role", role |-> r, all |-> all, codes |-> codes,
                       made |-> FALSE, stale |-> FALSE])
      BY <2>4 DEF A!AskCreateRole
    <3>2. [op |-> "create_role", role |-> r, all |-> all, codes |-> codes,
           made |-> FALSE, stale |-> FALSE] \in Request
      BY <1>g DEF Request, RoleRequest
    <3> QED
      BY <3>1, <3>2 DEF Current
  <2>5. CASE A!AskUpdateRole(c, by)
    <3>1. PICK r \in Custom, all \in BOOLEAN :
            /\ roles[r] # None
            /\ A!Asks(c, [op |-> "update_role", role |-> r, loaded |-> roles[r].all_projects,
                          all |-> all, stale |-> FALSE])
      BY <2>5 DEF A!AskUpdateRole
    <3>2. [op |-> "update_role", role |-> r, loaded |-> roles[r].all_projects,
           all |-> all, stale |-> FALSE] \in Request
      BY <1>u, <3>1 DEF Request, RoleRequest, A!RoleNames
    <3> QED
      BY <3>1, <3>2 DEF Current
  <2>6. CASE A!AskSetPermissions(c, by)
    <3>1. PICK r \in A!RoleNames, codes \in Grants :
            /\ roles[r] # None
            /\ A!Asks(c, [op |-> "set_permissions", role |-> r, loaded |-> roles[r].codes,
                          codes |-> A!WithImpliedView(codes), stale |-> FALSE])
      BY <2>6 DEF A!AskSetPermissions
    <3>2. A!WithImpliedView(codes) \in SUBSET A!Catalog /\ A!Paired(A!WithImpliedView(codes))
      BY <1>g, Implied
    <3>3. [op |-> "set_permissions", role |-> r, loaded |-> roles[r].codes,
           codes |-> A!WithImpliedView(codes), stale |-> FALSE] \in Request
      BY <1>u, <3>1, <3>2 DEF Request, RoleRequest
    <3> QED
      BY <3>1, <3>2, <3>3 DEF Current
  <2>7. CASE A!AskDeleteRole(c, by)
    <3>1. PICK r \in A!RoleNames :
            /\ roles[r] # None
            /\ A!Asks(c, [op |-> "delete_role", role |-> r, codes |-> roles[r].codes,
                          stale |-> FALSE])
      BY <2>7 DEF A!AskDeleteRole
    <3>2. [op |-> "delete_role", role |-> r, codes |-> roles[r].codes, stale |-> FALSE] \in Request
      BY <1>u, <3>1 DEF Request, RoleRequest
    <3> QED
      BY <3>1, <3>2 DEF Current
  <2>8. CASE A!AskCreateProject(c, by)
    <3>1. PICK raw \in A!Raw :
            A!Asks(c, [op |-> "create_project", by |-> by, raw |-> raw, made |-> None,
                       stale |-> FALSE])
      BY <2>8 DEF A!AskCreateProject
    <3>2. [op |-> "create_project", by |-> by, raw |-> raw, made |-> None, stale |-> FALSE] \in Request
      BY DEF Request, ProjectRequest
    <3> QED
      BY <3>1, <3>2 DEF Current
  <2>9. CASE A!AskUpdateProject(c, by)
    <3>1. PICK p \in Pids, raw \in A!Raw :
            /\ projects[p] # None
            /\ A!Asks(c, [op |-> "update_project", project |-> p, loaded |-> projects[p],
                          raw |-> raw, stale |-> FALSE])
      BY <2>9 DEF A!AskUpdateProject
    <3>2. [op |-> "update_project", project |-> p, loaded |-> projects[p], raw |-> raw,
           stale |-> FALSE] \in Request
      BY <1>u, <3>1 DEF Request, ProjectRequest
    <3> QED
      BY <3>1, <3>2 DEF Current
  <2>10. CASE A!AskDeleteProject(c, by)
    <3>1. PICK p \in Pids : A!Asks(c, [op |-> "delete_project", project |-> p, stale |-> FALSE])
      BY <2>10 DEF A!AskDeleteProject
    <3>2. [op |-> "delete_project", project |-> p, stale |-> FALSE] \in Request
      BY DEF Request, ProjectRequest
    <3> QED
      BY <3>1, <3>2 DEF Current
  <2>11. CASE A!AskSetMembers(c, by)
    <3>1. PICK p \in Pids, us \in SUBSET Users :
            A!Asks(c, [op |-> "set_members", project |-> p,
                       users |-> {u \in us : users[u] # None}, stale |-> FALSE])
      BY <2>11 DEF A!AskSetMembers
    <3>2. [op |-> "set_members", project |-> p, users |-> {u \in us : users[u] # None},
           stale |-> FALSE] \in Request
      BY DEF Request, ProjectRequest
    <3> QED
      BY <3>1, <3>2 DEF Current
  <2> QED
    BY <1>1, <2>1, <2>2, <2>3, <2>4, <2>5, <2>6, <2>7, <2>8, <2>9, <2>10, <2>11
<1>4. PICK r \in Request : /\ A!Asks(c, r) /\ Current(r)
                           /\ r.op = "set_permissions" => A!Paired(r.codes)
  BY <1>3
<1>5. UNCHANGED <<boot, A!db>> /\ req' = [req EXCEPT ![c] = r]
  BY <1>4 DEF A!Asks
<1>6. AccessRows'
  BY <1>2, <1>5 DEF A!db, RowTypes, RowKeys, Booted, RowsMoved, A!ProjectOfRepo
<1>7. ReqTypes'
  BY <1>5 DEF ReqTypes
<1>8. ReadIsCurrent'
  <2> SUFFICES ASSUME NEW d \in Clients, req'[d] # None, ~req'[d].stale
               PROVE  Current(req[d])'
    BY DEF ReadIsCurrent
  <2>1. CASE d = c
    <3>1. req'[d] = r
      BY <1>5, <2>1 DEF ReqTypes
    <3>2. Current(r)'
      BY <1>4, <1>5, StillCurrent DEF A!db
    <3> QED
      BY <3>1, <3>2 DEF Current
  <2>2. CASE d # c
    <3>1. PICK q \in Request : q = req[d] /\ q = req'[d]
      BY <1>5, <2>2 DEF ReqTypes
    <3>2. Current(q)
      BY <3>1 DEF ReadIsCurrent
    <3>3. Current(q)'
      BY <1>5, <3>2, StillCurrent DEF A!db
    <3> QED
      BY <3>1, <3>3 DEF Current
  <2> QED
    BY <2>1, <2>2
<1>9. PairsAsked'
  BY <1>4, <1>5 DEF PairsAsked, ReqTypes
<1> QED
  BY <1>6, <1>7, <1>8, <1>9

-----------------------------------------------------------------------------
(* Requests commit *)

\* A commit overtakes the other requests, and ends or is half of its own
\* (Overtake).
LEMMA OvertakenReqs ==
  ASSUME AccessReqs, NEW c \in Clients, NEW mine \in Request \cup {None}, A!Overtake(c, mine),
         mine # None => mine.op \in {"create_role", "create_project"}
  PROVE  AccessReqs'
<1> USE DEF AccessReqs
<1>1. req' = [d \in Clients |-> IF d = c THEN mine
                                ELSE IF req[d] = None THEN None
                                ELSE [req[d] EXCEPT !.stale = TRUE]]
  BY DEF A!Overtake
<1>2. \A d \in Clients \ {c} : req[d] # None =>
        /\ req'[d] \in Request /\ req'[d].stale
        /\ req'[d].op = req[d].op
        /\ req[d].op = "set_permissions" => req'[d].codes = req[d].codes
  <2> SUFFICES ASSUME NEW d \in Clients \ {c}, req[d] # None
               PROVE  /\ req'[d] \in Request /\ req'[d].stale
                      /\ req'[d].op = req[d].op
                      /\ req[d].op = "set_permissions" => req'[d].codes = req[d].codes
    OBVIOUS
  <2>1. PICK q \in Request : q = req[d] /\ req'[d] = [q EXCEPT !.stale = TRUE]
    BY <1>1 DEF ReqTypes
  <2>2. CASE q \in UserRequest
    BY <2>1, <2>2 DEF Request, UserRequest
  <2>3. CASE q \in RoleRequest
    BY <2>1, <2>3 DEF Request, RoleRequest
  <2>4. CASE q \in ProjectRequest
    BY <2>1, <2>4 DEF Request, ProjectRequest
  <2> QED
    BY <2>2, <2>3, <2>4 DEF Request
<1>3. req'[c] = mine /\ \A d \in Clients \ {c} : req[d] = None => req'[d] = None
  BY <1>1
<1>4. ReqTypes'
  BY <1>1, <1>2 DEF ReqTypes
<1>5. ReadIsCurrent'
  BY <1>2, <1>3 DEF ReadIsCurrent, Current
<1>6. PairsAsked'
  BY <1>2, <1>3 DEF PairsAsked
<1> QED
  BY <1>4, <1>5, <1>6

\* A request that is refused leaves everything as it is (Refused).
LEMMA RefusedStep ==
  ASSUME AccessInv, NEW c \in Clients, A!Refused(c), UNCHANGED <<boot, permissions>>
  PROVE  AccessInv'
<1> USE DEF AccessInv, AccessRows, AccessReqs
<1>1. req' = [req EXCEPT ![c] = None] /\ UNCHANGED <<roles, users, projects, members, moved>>
  BY DEF A!Refused
<1>2. AccessRows'
  BY <1>1 DEF RowTypes, RowKeys, Booted, RowsMoved, A!ProjectOfRepo, ReqTypes
<1>3. ReqTypes' /\ PairsAsked'
  BY <1>1 DEF ReqTypes, PairsAsked
<1>4. ReadIsCurrent'
  <2> SUFFICES ASSUME NEW d \in Clients, req'[d] # None, ~req'[d].stale
               PROVE  Current(req[d])'
    BY DEF ReadIsCurrent
  <2>1. PICK q \in Request : q = req[d] /\ q = req'[d]
    BY <1>1 DEF ReqTypes
  <2>2. Current(q)'
    BY <1>1, <2>1, StillCurrent DEF ReadIsCurrent
  <2> QED
    BY <2>1, <2>2 DEF Current
<1> QED
  BY <1>2, <1>3, <1>4

\* The parts of Current, user by user (users.py).
LEMMA UserCommits ==
  ASSUME AccessInv, NEW c \in Clients,
         A!CreateUser(c) \/ A!UpdateUser(c) \/ A!DeleteUser(c)
  PROVE  AccessInv'
<1> USE Rows DEF AccessInv, AccessRows
<1>1. boot = "up" /\ UNCHANGED <<boot, permissions>>
  BY DEF Booted, A!CreateUser, A!UpdateUser, A!DeleteUser, A!Op
<1>2. CASE A!CreateUser(c)
  <2>1. PICK r \in UserRequest : r = req[c] /\ r.op = "create_user"
    BY <1>2 DEF A!CreateUser, A!Op, AccessReqs, ReqTypes, Request, RoleRequest, ProjectRequest
  <2>2. r.user \in Users /\ r.row \in A!UserRow
    BY <2>1 DEF UserRequest
  <2>3. CASE users[r.user] = None /\ roles[r.row.role] # None
    <3>1. /\ users' = [users EXCEPT ![r.user] = r.row]
          /\ UNCHANGED <<roles, projects, members, moved>> /\ A!Overtake(c, None)
      BY <1>2, <2>1, <2>3 DEF A!CreateUser, A!Ends
    <3>2. AccessReqs'
      BY <3>1, OvertakenReqs
    <3>3. RowTypes' /\ Booted' /\ RowsMoved'
      BY <1>1, <2>2, <3>1 DEF RowTypes, Booted, RowsMoved, A!ProjectOfRepo
    <3>4. RowKeys'
      BY <2>2, <2>3, <3>1 DEF RowTypes, RowKeys
    <3> QED
      BY <3>2, <3>3, <3>4
  <2>4. CASE ~(users[r.user] = None /\ roles[r.row.role] # None)
    BY <1>1, <1>2, <2>1, <2>4, RefusedStep DEF A!CreateUser
  <2> QED
    BY <2>3, <2>4
<1>3. CASE A!UpdateUser(c)
  <2>1. PICK r \in UserRequest : r = req[c] /\ r.op = "update_user"
    BY <1>3 DEF A!UpdateUser, A!Op, AccessReqs, ReqTypes, Request, RoleRequest, ProjectRequest
  <2>2. r.user \in Users /\ r.row \in A!UserRow /\ r.loaded \in A!UserRow
    BY <2>1 DEF UserRequest
  <2>3. CASE users[r.user] # None /\ (r.row.role = r.loaded.role \/ roles[r.row.role] # None)
    <3> DEFINE row == [role    |-> A!Changed(r.row.role, r.loaded.role, users[r.user].role),
                       enabled |-> A!Changed(r.row.enabled, r.loaded.enabled, users[r.user].enabled)]
    <3>1. /\ users' = [users EXCEPT ![r.user] = row]
          /\ UNCHANGED <<roles, projects, members, moved>> /\ A!Overtake(c, None)
      BY <1>3, <2>1, <2>2, <2>3 DEF A!UpdateUser, A!Ends, RowTypes
    <3>2. AccessReqs'
      BY <3>1, OvertakenReqs
    <3>3. row \in A!UserRow /\ roles[row.role] # None
      BY <2>2, <2>3 DEF A!UserRow, A!Changed, RowTypes, RowKeys
    <3> HIDE DEF row
    <3>4. RowTypes' /\ Booted' /\ RowsMoved'
      BY <1>1, <2>2, <3>1, <3>3 DEF RowTypes, Booted, RowsMoved, A!ProjectOfRepo
    <3>5. RowKeys'
      BY <2>2, <2>3, <3>1, <3>3 DEF RowTypes, RowKeys
    <3> QED
      BY <3>2, <3>4, <3>5
  <2>4. CASE ~(users[r.user] # None /\ (r.row.role = r.loaded.role \/ roles[r.row.role] # None))
    BY <1>1, <1>3, <2>1, <2>4, RefusedStep DEF A!UpdateUser
  <2> QED
    BY <2>3, <2>4
<1>4. CASE A!DeleteUser(c)
  <2>1. PICK r \in UserRequest : r = req[c] /\ r.op = "delete_user"
    BY <1>4 DEF A!DeleteUser, A!Op, AccessReqs, ReqTypes, Request, RoleRequest, ProjectRequest
  <2>2. r.user \in Users
    BY <2>1 DEF UserRequest
  <2>3. /\ users' = [users EXCEPT ![r.user] = None]
        /\ members' = {m \in members : m[2] # r.user}
        /\ UNCHANGED <<roles, projects, moved>> /\ A!Overtake(c, None)
    BY <1>4, <2>1 DEF A!DeleteUser, A!Ends
  <2>4. AccessReqs'
    BY <2>3, OvertakenReqs
  <2>5. RowTypes' /\ Booted' /\ RowsMoved'
    BY <1>1, <2>3 DEF RowTypes, Booted, RowsMoved, A!ProjectOfRepo
  <2>6. RowKeys'
    BY <2>2, <2>3 DEF RowTypes, RowKeys
  <2> QED
    BY <2>4, <2>5, <2>6
<1> QED
  BY <1>2, <1>3, <1>4

\* The commits about roles (roles.py).
LEMMA RoleCommits ==
  ASSUME AccessInv, NEW c \in Clients,
         \/ A!CreateRole(c) \/ A!GrantRole(c) \/ A!UpdateRole(c)
         \/ A!SetPermissions(c) \/ A!DeleteRole(c)
  PROVE  AccessInv'
<1> USE Rows DEF AccessInv, AccessRows
<1>1. boot = "up" /\ UNCHANGED <<boot, permissions>> /\ req[c] # None
  BY DEF Booted, A!CreateRole, A!GrantRole, A!UpdateRole, A!SetPermissions, A!DeleteRole, A!Op
<1>2. \A r \in A!RoleNames : roles[r] # None =>
        roles[r] \in A!RoleRow /\ roles[r].codes \subseteq A!Catalog
  BY <1>1 DEF RowTypes, Booted
\* A role changes and stays, and holds codes of the catalogue.
<1>k. ASSUME NEW r \in A!RoleNames, NEW row \in A!RoleRow, row.codes \subseteq A!Catalog,
             roles' = [roles EXCEPT ![r] = row],
             UNCHANGED <<users, projects, members, moved>>
      PROVE  AccessRows'
  <2>1. RowTypes'
    BY <1>1, <1>k DEF RowTypes
  <2>2. RowKeys'
    BY <1>k DEF RowTypes, RowKeys
  <2>3. Booted'
    BY <1>1, <1>k DEF Booted, RowTypes
  <2>4. RowsMoved'
    BY <1>k DEF RowsMoved, A!ProjectOfRepo
  <2> QED
    BY <2>1, <2>2, <2>3, <2>4
<1>3. CASE A!CreateRole(c)
  <2>1. PICK r \in RoleRequest : r = req[c] /\ r.op = "create_role"
    BY <1>3 DEF A!CreateRole, A!Op, AccessReqs, ReqTypes, Request, UserRequest, ProjectRequest
  <2>2. /\ r.role \in A!RoleNames /\ r.all \in BOOLEAN
        /\ [r EXCEPT !.made = TRUE] \in Request /\ [r EXCEPT !.made = TRUE].op = "create_role"
    BY <2>1 DEF RoleRequest, Request
  <2>3. CASE roles[r.role] = None
    <3> DEFINE row == [is_super |-> FALSE, all_projects |-> r.all, is_system |-> FALSE,
                       codes |-> {}]
               mine == IF r.codes = {} THEN None ELSE [r EXCEPT !.made = TRUE]
    <3>1. /\ roles' = [roles EXCEPT ![r.role] = row]
          /\ UNCHANGED <<users, projects, members, moved>> /\ A!Overtake(c, mine)
      BY <1>3, <2>1, <2>3 DEF A!CreateRole
    <3>2. mine \in Request \cup {None} /\ (mine # None => mine.op = "create_role")
      BY <2>2
    <3>3. row \in A!RoleRow /\ row.codes \subseteq A!Catalog
      BY <2>2 DEF A!RoleRow
    <3> HIDE DEF row, mine
    <3>4. AccessReqs'
      BY <3>1, <3>2, OvertakenReqs
    <3> QED
      BY <1>k, <2>2, <3>1, <3>3, <3>4
  <2>4. CASE roles[r.role] # None
    BY <1>1, <1>3, <2>1, <2>4, RefusedStep DEF A!CreateRole
  <2> QED
    BY <2>3, <2>4
<1>4. CASE A!GrantRole(c)
  <2>1. PICK r \in RoleRequest : r = req[c] /\ r.op = "create_role"
    BY <1>4 DEF A!GrantRole, A!Op, AccessReqs, ReqTypes, Request, UserRequest, ProjectRequest
  <2>2. r.role \in A!RoleNames /\ r.codes \in SUBSET A!Catalog
    BY <2>1 DEF RoleRequest
  <2> DEFINE codes == A!WithImpliedView(r.codes)
             fits == roles[r.role] # None /\ roles[r.role].codes \cap codes = {}
  <2>3. CASE fits
    <3> DEFINE row == [roles[r.role] EXCEPT !.codes = @ \cup codes]
    <3>1. /\ roles' = [roles EXCEPT ![r.role] = row]
          /\ UNCHANGED <<users, projects, members, moved>> /\ A!Overtake(c, None)
      BY <1>4, <2>1, <2>2, <2>3 DEF A!GrantRole, A!Ends, RowTypes
    <3>2. row \in A!RoleRow /\ row.codes \subseteq A!Catalog
      BY <1>2, <2>2, <2>3, Implied DEF A!RoleRow
    <3> HIDE DEF row
    <3> QED
      BY <1>k, <2>2, <3>1, <3>2, OvertakenReqs
  <2>4. CASE ~fits
    BY <1>1, <1>4, <2>1, <2>4, RefusedStep DEF A!GrantRole
  <2> QED
    BY <2>3, <2>4
<1>5. CASE A!UpdateRole(c)
  <2>1. PICK r \in RoleRequest : r = req[c] /\ r.op = "update_role"
    BY <1>5 DEF A!UpdateRole, A!Op, AccessReqs, ReqTypes, Request, UserRequest, ProjectRequest
  <2>2. r.role \in A!RoleNames /\ r.all \in BOOLEAN /\ r.loaded \in BOOLEAN
    BY <2>1 DEF RoleRequest
  <2>3. CASE roles[r.role] # None
    <3> DEFINE row == [roles[r.role] EXCEPT !.all_projects = A!Changed(r.all, r.loaded, @)]
    <3>1. /\ roles' = [roles EXCEPT ![r.role] = row]
          /\ UNCHANGED <<users, projects, members, moved>> /\ A!Overtake(c, None)
      BY <1>5, <2>1, <2>2, <2>3 DEF A!UpdateRole, A!Ends, RowTypes
    <3>2. row \in A!RoleRow /\ row.codes \subseteq A!Catalog
      BY <1>2, <2>2, <2>3 DEF A!RoleRow, A!Changed
    <3> HIDE DEF row
    <3> QED
      BY <1>k, <2>2, <3>1, <3>2, OvertakenReqs
  <2>4. CASE roles[r.role] = None
    BY <1>1, <1>5, <2>1, <2>4, RefusedStep DEF A!UpdateRole
  <2> QED
    BY <2>3, <2>4
<1>6. CASE A!SetPermissions(c)
  <2>1. PICK r \in RoleRequest : r = req[c] /\ r.op = "set_permissions"
    BY <1>6 DEF A!SetPermissions, A!Op, AccessReqs, ReqTypes, Request, UserRequest, ProjectRequest
  <2>2. r.role \in A!RoleNames /\ r.codes \in SUBSET A!Catalog /\ r.loaded \in SUBSET A!Catalog
    BY <2>1 DEF RoleRequest
  <2> DEFINE drop == r.loaded \ r.codes
             add  == r.codes \ r.loaded
             fits == /\ roles[r.role] # None /\ drop \subseteq roles[r.role].codes
                     /\ add \cap roles[r.role].codes = {}
  <2>3. CASE fits
    <3> DEFINE row == [roles[r.role] EXCEPT !.codes = (@ \ drop) \cup add]
    <3>1. /\ roles' = [roles EXCEPT ![r.role] = row]
          /\ UNCHANGED <<users, projects, members, moved>> /\ A!Overtake(c, None)
      BY <1>6, <2>1, <2>2, <2>3 DEF A!SetPermissions, A!Ends, RowTypes
    <3>2. row \in A!RoleRow /\ row.codes \subseteq A!Catalog
      BY <1>2, <2>2, <2>3 DEF A!RoleRow
    <3> HIDE DEF row
    <3> QED
      BY <1>k, <2>2, <3>1, <3>2, OvertakenReqs
  <2>4. CASE ~fits
    BY <1>1, <1>6, <2>1, <2>4, RefusedStep DEF A!SetPermissions
  <2> QED
    BY <2>3, <2>4
<1>7. CASE A!DeleteRole(c)
  <2>1. PICK r \in RoleRequest : r = req[c] /\ r.op = "delete_role"
    BY <1>7 DEF A!DeleteRole, A!Op, AccessReqs, ReqTypes, Request, UserRequest, ProjectRequest
  <2>2. r.role \in A!RoleNames
    BY <2>1 DEF RoleRequest
  <2> DEFINE fits == /\ roles[r.role] # None /\ r.codes \subseteq roles[r.role].codes
                     /\ \A u \in Users : users[u] # None => users[u].role # r.role
  <2>3. CASE fits
    <3>1. /\ roles' = [roles EXCEPT ![r.role] = None]
          /\ UNCHANGED <<users, projects, members, moved>> /\ A!Overtake(c, None)
      BY <1>7, <2>1, <2>3 DEF A!DeleteRole, A!Ends
    <3>2. RowTypes' /\ RowsMoved'
      BY <1>1, <3>1 DEF RowTypes, RowsMoved, A!ProjectOfRepo
    <3>3. RowKeys'
      <4>1. \A u \in Users : users[u] # None => users[u].role \in A!RoleNames \ {r.role}
        BY <2>3 DEF RowTypes, A!UserRow
      <4> QED
        BY <3>1, <4>1 DEF RowTypes, RowKeys
    <3>4. Booted'
      BY <1>1, <3>1 DEF Booted, RowTypes
    <3> QED
      BY <3>1, <3>2, <3>3, <3>4, OvertakenReqs
  <2>4. CASE ~fits
    BY <1>1, <1>7, <2>1, <2>4, RefusedStep DEF A!DeleteRole
  <2> QED
    BY <2>3, <2>4
<1> QED
  BY <1>3, <1>4, <1>5, <1>6, <1>7

\* The id of a new project is that of no row (SQLite).
LEMMA FreshIsFree ==
  ASSUME AccessRows, NEW b \in Pids, \A q \in Pids : q >= b => projects[q] = None
  PROVE  A!FreshPid \in Pids /\ projects[A!FreshPid] = None
<1> DEFINE free(p) == \A q \in Pids : q >= p => projects[q] = None
           used(p) == \A q \in Pids : q < p => \E s \in Pids : s >= q /\ projects[s] # None
<1>1. Pids \subseteq Nat
  BY ConsoleAssumption DEF A!AccessAssumption
<1>2. PICK p \in {x \in Pids : free(x)} : \A m \in {x \in Pids : free(x)} : p <= m
  BY <1>1, LeastNat
<1>3. used(p)
  BY <1>1, <1>2
<1>4. A!FreshPid = CHOOSE x \in Pids : free(x) /\ used(x)
  BY DEF A!FreshPid
<1> HIDE DEF used
<1>5. A!FreshPid \in Pids /\ free(A!FreshPid)
  <2> HIDE DEF free
  <2> QED
    BY <1>2, <1>3, <1>4
<1> QED
  BY <1>1, <1>5

\* The commits about projects and members (projects.py).
LEMMA ProjectCommits ==
  ASSUME AccessInv, NEW c \in Clients,
         \/ A!CreateProject(c) \/ A!JoinProject(c) \/ A!UpdateProject(c)
         \/ A!DeleteProject(c) \/ A!SetMembers(c)
  PROVE  AccessInv'
<1> USE Rows DEF AccessInv, AccessRows
<1>1. boot = "up" /\ UNCHANGED <<boot, permissions>> /\ req[c] # None
  BY DEF Booted, A!CreateProject, A!JoinProject, A!UpdateProject, A!DeleteProject, A!SetMembers,
         A!Op
<1>2. CASE A!CreateProject(c)
  <2>1. PICK r \in ProjectRequest : r = req[c] /\ r.op = "create_project"
    BY <1>2 DEF A!CreateProject, A!Op, AccessReqs, ReqTypes, Request, UserRequest, RoleRequest
  <2>2. A!FreshPid \in Pids /\ projects[A!FreshPid] = None
    BY <1>2, FreshIsFree DEF A!CreateProject
  <2> DEFINE p == A!FreshPid
             mine == [r EXCEPT !.made = p]
  <2>3. /\ r.raw \in A!Raw
        /\ mine \in Request /\ mine.op = "create_project"
    BY <2>1, <2>2 DEF ProjectRequest, Request
  <2>4. CASE ~A!Taken(r.raw, {})
    <3>1. /\ projects' = [projects EXCEPT ![p] = r.raw]
          /\ UNCHANGED <<roles, users, members, moved>> /\ A!Overtake(c, mine)
      BY <1>2, <2>1, <2>4 DEF A!CreateProject
    <3>2. \A q \in Pids : projects[q] # r.raw
      BY <2>4 DEF A!Taken
    <3> HIDE DEF p, mine
    <3>3. AccessReqs'
      BY <2>3, <3>1, OvertakenReqs
    <3>4. p \in Pids /\ projects[p] = None
      BY <2>2 DEF p
    <3>5. RowTypes' /\ Booted'
      BY <1>1, <2>3, <3>1, <3>4 DEF RowTypes, Booted
    <3>6. RowKeys'
      BY <2>3, <3>1, <3>2, <3>4 DEF RowTypes, RowKeys
    <3>7. RowsMoved'
      <4>1. \A t \in Tasks : [repo |-> t.repo, blanks |-> FALSE] \in A!Raw
        BY ConsoleAssumption DEF A!AccessAssumption, A!Raw
      <4>2. \A t \in Tasks : p \notin A!ProjectOfRepo(t.repo)
        BY <3>4, <4>1 DEF A!ProjectOfRepo
      <4>3. \A t \in Tasks : A!ProjectOfRepo(t.repo) \subseteq A!ProjectOfRepo(t.repo)'
        BY <3>1, <4>2 DEF RowTypes, A!ProjectOfRepo
      <4> QED
        BY <3>1, <4>3 DEF RowsMoved
    <3> QED
      BY <3>3, <3>5, <3>6, <3>7
  <2>5. CASE A!Taken(r.raw, {})
    BY <1>1, <1>2, <2>1, <2>5, RefusedStep DEF A!CreateProject
  <2> QED
    BY <2>4, <2>5
<1>3. CASE A!JoinProject(c)
  <2>1. PICK r \in ProjectRequest : r = req[c] /\ r.op = "create_project" /\ r.made # None
    BY <1>3 DEF A!JoinProject, A!Op, AccessReqs, ReqTypes, Request, UserRequest, RoleRequest
  <2>2. r.by \in Users /\ r.made \in Pids
    BY <2>1 DEF ProjectRequest
  <2> DEFINE fits == projects[r.made] # None /\ users[r.by] # None /\ <<r.made, r.by>> \notin members
  <2>3. CASE fits
    <3>1. /\ members' = members \cup {<<r.made, r.by>>}
          /\ UNCHANGED <<roles, users, projects, moved>> /\ A!Overtake(c, None)
      BY <1>3, <2>1, <2>3 DEF A!JoinProject, A!Ends
    <3>2. RowTypes' /\ RowKeys' /\ Booted' /\ RowsMoved'
      BY <1>1, <2>2, <2>3, <3>1 DEF RowTypes, RowKeys, Booted, RowsMoved, A!ProjectOfRepo
    <3> QED
      BY <3>1, <3>2, OvertakenReqs
  <2>4. CASE ~fits
    BY <1>1, <1>3, <2>1, <2>4, RefusedStep DEF A!JoinProject
  <2> QED
    BY <2>3, <2>4
<1>4. CASE A!UpdateProject(c)
  <2>1. PICK r \in ProjectRequest : r = req[c] /\ r.op = "update_project"
    BY <1>4 DEF A!UpdateProject, A!Op, AccessReqs, ReqTypes, Request, UserRequest, RoleRequest
  <2>2. r.project \in Pids /\ r.raw \in A!Raw
    BY <2>1 DEF ProjectRequest
  <2> DEFINE fits == projects[r.project] # None /\ ~A!Taken(r.raw, {r.project})
  <2>3. CASE fits
    <3> DEFINE row == A!Changed(r.raw, r.loaded, projects[r.project])
    <3>1. /\ projects' = [projects EXCEPT ![r.project] = row]
          /\ moved' = moved \cup (IF r.raw = r.loaded THEN {} ELSE {r.project})
          /\ UNCHANGED <<roles, users, members>> /\ A!Overtake(c, None)
      BY <1>4, <2>1, <2>2, <2>3 DEF A!UpdateProject, A!Ends, RowTypes
    <3>2. /\ row \in A!Raw
          /\ \A q \in Pids \ {r.project} : projects[q] # row
          /\ r.raw = r.loaded => row = projects[r.project]
      BY <2>2, <2>3 DEF A!Changed, A!Taken, RowTypes, RowKeys
    <3> HIDE DEF row
    <3>3. RowTypes' /\ Booted'
      BY <1>1, <2>2, <3>1, <3>2 DEF RowTypes, Booted
    <3>4. RowKeys'
      <4>1. \A m \in members : projects'[m[1]] # None
        BY <2>2, <2>3, <3>1, <3>2 DEF RowTypes, RowKeys
      <4>2. \A q, s \in Pids : q # s /\ projects'[q] # None => projects'[q] # projects'[s]
        BY <2>2, <2>3, <3>1, <3>2 DEF RowTypes, RowKeys
      <4> QED
        BY <3>1, <4>1, <4>2 DEF RowKeys
    <3>5. RowsMoved'
      <4>1. CASE r.raw = r.loaded
        BY <2>2, <3>1, <3>2, <4>1 DEF RowTypes, RowsMoved, A!ProjectOfRepo
      <4>2. CASE r.raw # r.loaded
        BY <2>2, <3>1, <4>2 DEF RowTypes, RowsMoved, A!ProjectOfRepo
      <4> QED
        BY <4>1, <4>2
    <3> QED
      BY <3>1, <3>3, <3>4, <3>5, OvertakenReqs
  <2>4. CASE ~fits
    BY <1>1, <1>4, <2>1, <2>4, RefusedStep DEF A!UpdateProject
  <2> QED
    BY <2>3, <2>4
<1>5. CASE A!DeleteProject(c)
  <2>1. PICK r \in ProjectRequest : r = req[c] /\ r.op = "delete_project"
    BY <1>5 DEF A!DeleteProject, A!Op, AccessReqs, ReqTypes, Request, UserRequest, RoleRequest
  <2>2. r.project \in Pids
    BY <2>1 DEF ProjectRequest
  <2>3. /\ projects' = [projects EXCEPT ![r.project] = None]
        /\ members' = {m \in members : m[1] # r.project}
        /\ moved' = moved \cup {r.project}
        /\ UNCHANGED <<roles, users>> /\ A!Overtake(c, None)
    BY <1>5, <2>1 DEF A!DeleteProject, A!Ends
  <2>4. RowTypes' /\ Booted'
    BY <1>1, <2>3 DEF RowTypes, Booted
  <2>5. RowKeys'
    BY <2>2, <2>3 DEF RowTypes, RowKeys
  <2>6. RowsMoved'
    BY <2>2, <2>3 DEF RowTypes, RowsMoved, A!ProjectOfRepo
  <2> QED
    BY <2>3, <2>4, <2>5, <2>6, OvertakenReqs
<1>6. CASE A!SetMembers(c)
  <2>1. PICK r \in ProjectRequest : r = req[c] /\ r.op = "set_members"
    BY <1>6 DEF A!SetMembers, A!Op, AccessReqs, ReqTypes, Request, UserRequest, RoleRequest
  <2>2. r.project \in Pids /\ r.users \in SUBSET Users
    BY <2>1 DEF ProjectRequest
  <2> DEFINE fits == r.users = {} \/ (projects[r.project] # None /\ \A u \in r.users : users[u] # None)
             added == {<<r.project, u>> : u \in r.users}
  <2>3. CASE fits
    <3>1. /\ members' = {m \in members : m[1] # r.project} \cup added
          /\ UNCHANGED <<roles, users, projects, moved>> /\ A!Overtake(c, None)
      BY <1>6, <2>1, <2>3 DEF A!SetMembers, A!Ends
    <3>2. /\ added \subseteq Pids \X Users
          /\ \A m \in added : projects[m[1]] # None /\ users[m[2]] # None
      BY <2>2, <2>3
    <3> HIDE DEF added
    <3>3. RowTypes' /\ RowKeys' /\ Booted' /\ RowsMoved'
      BY <1>1, <3>1, <3>2 DEF RowTypes, RowKeys, Booted, RowsMoved, A!ProjectOfRepo
    <3> QED
      BY <3>1, <3>3, OvertakenReqs
  <2>4. CASE ~fits
    BY <1>1, <1>6, <2>1, <2>4, RefusedStep DEF A!SetMembers
  <2> QED
    BY <2>3, <2>4
<1> QED
  BY <1>2, <1>3, <1>4, <1>5, <1>6

\* Tables, keys and requests agree throughout, however requests overlap
\* (users.py, roles.py, projects.py, storage/seed.py).
LEMMA AccessStep ==
  ASSUME AccessInv, [A!Next]_avars
  PROVE  AccessInv'
<1>1. CASE A!Boot
  BY <1>1, BootStep
<1>2. CASE A!Restart
  BY <1>2, RestartStep
<1>3. ASSUME NEW c \in Clients, A!Ask(c)
      PROVE  AccessInv'
  BY <1>3, AskStep
<1>4. ASSUME NEW c \in Clients, A!Commit(c)
      PROVE  AccessInv'
  BY <1>4, UserCommits, RoleCommits, ProjectCommits DEF A!Commit
<1>5. CASE UNCHANGED avars
  BY <1>5 DEF avars, AccessInv, AccessRows, AccessReqs, RowTypes, RowKeys, Booted, RowsMoved,
              ReqTypes, ReadIsCurrent, PairsAsked, Current, A!ProjectOfRepo, A!MayLose, A!Supers,
              A!SignedIn, A!RoleOf
<1> QED
  BY <1>1, <1>2, <1>3, <1>4, <1>5 DEF A!Next

\* The invariant holds in every behaviour.
LEMMA AccessCorrect == Spec => []AccessInv
<1>1. Init => AccessInv
  BY AccessInit DEF Init
<1>2. AccessInv /\ [Next]_vars => AccessInv'
  BY StepOfParts, AccessStep
<1> QED
  BY <1>1, <1>2, PTL DEF Spec

-----------------------------------------------------------------------------
(* What a write may never do *)

\* Who may lose an administrator's right leaves another administrator
\* (_enabled_super_count).
LEMMA AnotherSuper ==
  ASSUME AccessInv, NEW u \in A!Supers, A!MayLose(u)
  PROVE  \E v \in A!Supers : v # u
<1>1. A!Cardinality(A!Supers) > 1
  BY DEF A!MayLose, A!Supers, A!RoleOf
<1>2. Cardinality(A!Supers) > 1
  BY <1>1, SameCardinality
<1>3. A!Supers # {u}
  <2>1. Cardinality({u}) = 1
    BY FS_Singleton
  <2> QED
    BY <1>2, <2>1
<1> QED
  BY <1>3

\* An administrator stays one where the row stays, and roles keep what they are.
LEMMA SuperStays ==
  ASSUME NEW u \in A!Supers, users'[u] = users[u],
         roles'[users[u].role] # None => roles'[users[u].role].is_super = roles[users[u].role].is_super,
         roles'[users[u].role] # None
  PROVE  u \in A!Supers'
BY DEF A!Supers, A!SignedIn, A!RoleOf

\* The start of the program makes administrators, and takes no right.
LEMMA BootKeepsSupers ==
  ASSUME AccessInv, A!Boot, NEW u \in A!Supers
  PROVE  u \in A!Supers'
<1> USE Rows DEF AccessInv, AccessRows
<1>1. /\ u \in Users /\ users[u] # None
      /\ users[u].role \in A!RoleNames /\ roles[users[u].role] # None
      /\ roles[users[u].role] \in A!RoleRow
  BY DEF A!Supers, A!SignedIn, RowTypes, RowKeys, A!UserRow
<1>2. users' = users
  BY <1>1 DEF A!Boot, A!SyncCatalog, A!SyncDefaults, A!Prune, A!Seed
<1>3. /\ roles'[users[u].role] # None
      /\ roles'[users[u].role].is_super = roles[users[u].role].is_super
  <2> DEFINE r == users[u].role
  <2>1. CASE roles' = roles
    BY <1>1, <2>1
  <2>2. CASE A!SyncDefaults
    <3>1. roles'[r] = roles[r] \/ roles'[r] = [roles[r] EXCEPT !.codes = @ \cup (A!DefaultRole(r).codes \cap permissions)]
      BY <1>1, <2>2 DEF A!SyncDefaults
    <3>2. [roles[r] EXCEPT !.codes = @ \cup (A!DefaultRole(r).codes \cap permissions)] \in A!RoleRow
      BY <1>1, DefaultRows DEF A!RoleRow
    <3> QED
      BY <1>1, <3>1, <3>2 DEF A!RoleRow
  <2>3. CASE A!Prune
    <3>1. roles'[r] = [roles[r] EXCEPT !.codes = @ \cap A!Catalog]
      BY <1>1, <2>3 DEF A!Prune
    <3>2. roles'[r] \in A!RoleRow
      BY <1>1, <3>1 DEF A!RoleRow
    <3> QED
      BY <1>1, <3>1, <3>2 DEF A!RoleRow
  <2> QED
    BY <1>1, <2>1, <2>2, <2>3 DEF A!Boot, A!SyncCatalog, A!Seed
<1> QED
  BY <1>1, <1>2, <1>3, SuperStays

\* What is done about roles and projects takes no right from a user, and a new
\* user takes none.
LEMMA CommitKeepsSupers ==
  ASSUME AccessInv, NEW c \in Clients, A!Commit(c), ~A!UpdateUser(c), ~A!DeleteUser(c),
         NEW u \in A!Supers
  PROVE  u \in A!Supers'
<1> USE Rows DEF AccessInv, AccessRows
<1>1. /\ u \in Users /\ users[u] # None
      /\ users[u].role \in A!RoleNames /\ roles[users[u].role] # None
      /\ roles[users[u].role] \in A!RoleRow
  BY DEF A!Supers, A!SignedIn, RowTypes, RowKeys, A!UserRow
<1>2. users'[u] = users[u]
  BY <1>1 DEF A!Commit, A!CreateUser, A!CreateRole, A!GrantRole, A!UpdateRole, A!SetPermissions,
              A!DeleteRole, A!CreateProject, A!JoinProject, A!UpdateProject, A!DeleteProject,
              A!SetMembers, A!Refused, RowTypes
<1>3. \/ roles' = roles
      \/ A!CreateRole(c) \/ A!GrantRole(c) \/ A!UpdateRole(c) \/ A!SetPermissions(c) \/ A!DeleteRole(c)
  BY DEF A!Commit, A!CreateUser, A!CreateProject, A!JoinProject, A!UpdateProject,
         A!DeleteProject, A!SetMembers, A!Refused
<1>4. roles'[users[u].role] # None
  <2>1. RowKeys'
    BY UserCommits, RoleCommits, ProjectCommits DEF A!Commit
  <2> QED
    BY <1>1, <1>2, <2>1 DEF RowKeys
<1>5. roles'[users[u].role].is_super = roles[users[u].role].is_super
  <2> DEFINE r == users[u].role
  <2>1. CASE roles' = roles
    BY <1>1, <2>1
  <2>2. CASE A!CreateRole(c)
    BY <1>1, <2>2 DEF A!CreateRole, A!Refused, RowTypes
  <2>3. ASSUME NEW X, NEW q, roles' = [roles EXCEPT ![q].codes = X]
        PROVE  roles'[r].is_super = roles[r].is_super
    <3>1. CASE q = r
      <4>1. roles'[r] = [roles[r] EXCEPT !.codes = X]
        BY <1>1, <2>3, <3>1 DEF RowTypes
      <4> QED
        BY <1>1, <4>1 DEF A!RoleRow
    <3>2. CASE q # r
      BY <1>1, <2>3, <3>2 DEF RowTypes
    <3> QED
      BY <3>1, <3>2
  <2>4. CASE A!GrantRole(c)
    <3>1. roles' = roles \/ roles' = [roles EXCEPT ![req[c].role].codes =
                                        @ \cup A!WithImpliedView(req[c].codes)]
      BY <2>4 DEF A!GrantRole, A!Refused
    <3> QED
      BY <2>1, <2>3, <3>1
  <2>5. CASE A!UpdateRole(c)
    <3>1. CASE roles' = roles
      BY <2>1, <3>1
    <3>2. CASE roles' # roles
      <4>1. roles' = [roles EXCEPT ![req[c].role].all_projects = A!Changed(req[c].all, req[c].loaded, @)]
        BY <2>5, <3>2 DEF A!UpdateRole, A!Refused
      <4>2. CASE req[c].role = r
        <5>1. roles'[r] = [roles[r] EXCEPT !.all_projects = A!Changed(req[c].all, req[c].loaded, @)]
          BY <1>1, <4>1, <4>2 DEF RowTypes
        <5> QED
          BY <1>1, <5>1 DEF A!RoleRow
      <4>3. CASE req[c].role # r
        BY <1>1, <4>1, <4>3 DEF RowTypes
      <4> QED
        BY <4>2, <4>3
    <3> QED
      BY <3>1, <3>2
  <2>6. CASE A!SetPermissions(c)
    <3>1. roles' = roles \/ roles' = [roles EXCEPT ![req[c].role].codes =
                               (@ \ (req[c].loaded \ req[c].codes)) \cup (req[c].codes \ req[c].loaded)]
      BY <2>6 DEF A!SetPermissions, A!Refused
    <3> QED
      BY <2>1, <2>3, <3>1
  <2>7. CASE A!DeleteRole(c)
    BY <1>1, <2>7 DEF A!DeleteRole, A!Refused, RowTypes
  <2> QED
    BY <1>3, <2>1, <2>2, <2>4, <2>5, <2>6, <2>7
<1> QED
  BY <1>1, <1>2, <1>4, <1>5, SuperStays

\* What a request does first is to read (Asks).
LEMMA AskWritesNothing ==
  ASSUME NEW c \in Clients, A!Ask(c)
  PROVE  UNCHANGED A!db
<1>1. PICK by \in Users :
        \/ A!AskCreateUser(c, by) \/ A!AskUpdateUser(c, by) \/ A!AskDeleteUser(c, by)
        \/ A!AskCreateRole(c, by) \/ A!AskUpdateRole(c, by)
        \/ A!AskSetPermissions(c, by) \/ A!AskDeleteRole(c, by)
        \/ A!AskCreateProject(c, by) \/ A!AskUpdateProject(c, by)
        \/ A!AskDeleteProject(c, by) \/ A!AskSetMembers(c, by)
  BY DEF A!Ask
<1>2. \E r : A!Asks(c, r)
  <2>1. CASE A!AskCreateUser(c, by)
    BY <2>1, Zenon DEF A!AskCreateUser
  <2>2. CASE A!AskUpdateUser(c, by)
    BY <2>2, Zenon DEF A!AskUpdateUser
  <2>3. CASE A!AskDeleteUser(c, by)
    BY <2>3, Zenon DEF A!AskDeleteUser
  <2>4. CASE A!AskCreateRole(c, by)
    BY <2>4, Zenon DEF A!AskCreateRole
  <2>5. CASE A!AskUpdateRole(c, by)
    BY <2>5, Zenon DEF A!AskUpdateRole
  <2>6. CASE A!AskSetPermissions(c, by)
    BY <2>6, Zenon DEF A!AskSetPermissions
  <2>7. CASE A!AskDeleteRole(c, by)
    BY <2>7, Zenon DEF A!AskDeleteRole
  <2>8. CASE A!AskCreateProject(c, by)
    BY <2>8, Zenon DEF A!AskCreateProject
  <2>9. CASE A!AskUpdateProject(c, by)
    BY <2>9, Zenon DEF A!AskUpdateProject
  <2>10. CASE A!AskDeleteProject(c, by)
    BY <2>10, Zenon DEF A!AskDeleteProject
  <2>11. CASE A!AskSetMembers(c, by)
    BY <2>11, Zenon DEF A!AskSetMembers
  <2> QED
    BY <1>1, <2>1, <2>2, <2>3, <2>4, <2>5, <2>6, <2>7, <2>8, <2>9, <2>10, <2>11
<1> QED
  BY <1>2 DEF A!Asks

\* The last administrator goes by an update that takes the role, or by a
\* request that has counted before another one committed (users.py).
LEMMA LastAdminStep ==
  ASSUME AccessInv, [A!Next]_avars, A!Supers # {}, A!Supers' = {}
  PROVE  \E c \in Clients :
           /\ req[c] # None /\ req[c].op \in {"update_user", "delete_user"}
           /\ \/ req[c].stale
              \/ req[c].op = "update_user" /\ ~roles[req[c].row.role].is_super
<1> USE Rows DEF AccessInv, AccessRows, AccessReqs
<1>1. PICK u \in A!Supers : TRUE
  OBVIOUS
<1>2. ~A!Boot
  BY <1>1, BootKeepsSupers
<1>3. ~(UNCHANGED <<users, roles>>)
  BY DEF A!Supers, A!SignedIn, A!RoleOf
<1>4. \E c \in Clients : A!Commit(c)
  <2>1. ~A!Restart
    BY <1>3 DEF A!Restart, A!db
  <2>2. ASSUME NEW c \in Clients
        PROVE  ~A!Ask(c)
    BY <1>3, AskWritesNothing DEF A!db
  <2>3. ~(UNCHANGED avars)
    BY <1>3 DEF avars
  <2> QED
    BY <1>2, <2>1, <2>2, <2>3 DEF A!Next
<1>5. PICK c \in Clients : A!UpdateUser(c) \/ A!DeleteUser(c)
  BY <1>1, <1>4, CommitKeepsSupers
<1>6. PICK r \in UserRequest : r = req[c] /\ r # None /\ r.op \in {"update_user", "delete_user"}
  BY <1>5 DEF A!UpdateUser, A!DeleteUser, A!Op, ReqTypes, Request, RoleRequest, ProjectRequest
<1>7. SUFFICES ASSUME ~r.stale
               PROVE  r.op = "update_user" /\ ~roles[r.row.role].is_super
  BY <1>6
<1>8. r.user \in Users /\ roles' = roles /\ \A v \in Users \ {r.user} : users'[v] = users[v]
  BY <1>5, <1>6 DEF A!UpdateUser, A!DeleteUser, A!Refused, RowTypes, UserRequest
<1>9. \A v \in A!Supers : v = r.user
  BY <1>8 DEF A!Supers, A!SignedIn, A!RoleOf
<1>10. r.user \in A!Supers /\ ~A!MayLose(r.user)
  <2>1. r.user \in A!Supers
    BY <1>1, <1>9
  <2> QED
    BY <1>9, <2>1, AnotherSuper
<1>11. Current(r)
  BY <1>6, <1>7 DEF ReadIsCurrent
<1>12. r.op = "update_user" /\ r.row.enabled /\ users[r.user] = r.loaded
  BY <1>6, <1>10, <1>11 DEF Current
<1>13. ~roles[r.row.role].is_super
  <2>1. A!UpdateUser(c)
    BY <1>5, <1>6, <1>12 DEF A!DeleteUser, A!Op
  <2>2. r.row \in A!UserRow /\ r.loaded \in A!UserRow
    BY <1>6, <1>12 DEF UserRequest
  <2>3. users[r.user] # None
    BY <1>10 DEF A!Supers, A!SignedIn
  <2>4. CASE r.row.role = r.loaded.role \/ roles[r.row.role] # None
    <3>1. users' = [users EXCEPT ![r.user] =
                      [role    |-> A!Changed(r.row.role, r.loaded.role, @.role),
                       enabled |-> A!Changed(r.row.enabled, r.loaded.enabled, @.enabled)]]
      BY <1>6, <2>1, <2>3, <2>4 DEF A!UpdateUser
    <3>2. users'[r.user] = [role    |-> A!Changed(r.row.role, r.loaded.role, r.loaded.role),
                            enabled |-> A!Changed(r.row.enabled, r.loaded.enabled, r.loaded.enabled)]
      BY <1>8, <1>12, <3>1 DEF RowTypes
    <3>3. users'[r.user].role = r.row.role /\ users'[r.user].enabled = r.row.enabled
      BY <3>2 DEF A!Changed
    <3>4. users'[r.user] # None
      <4>1. users'[r.user] \in A!UserRow
        BY <2>2, <3>2 DEF A!Changed, A!UserRow
      <4> QED
        BY <4>1
    <3> QED
      BY <1>8, <1>12, <3>3, <3>4 DEF A!Supers, A!SignedIn, A!RoleOf
  <2>5. CASE ~(r.row.role = r.loaded.role \/ roles[r.row.role] # None)
    BY <1>3, <1>6, <2>1, <2>5 DEF A!UpdateUser, A!Refused
  <2> QED
    BY <2>4, <2>5
<1> QED
  BY <1>12, <1>13

\* A role that sees what it edits still does when codes are added in pairs.
LEMMA PairsAdd ==
  ASSUME NEW S1, NEW S2, A!Paired(S1), A!Paired(S2)
  PROVE  A!Paired(S1 \cup S2) /\ A!Paired(S1 \cap A!Catalog)
<1>1. \A m \in A!Modules : A!View(m) \in A!Catalog
  BY DEF A!View, A!Catalog
<1> QED
  BY <1>1 DEF A!Paired

\* The start of the program adds and drops codes in pairs (seed.py).
LEMMA BootKeepsPairs ==
  ASSUME AccessInv, A!Boot, NEW r \in A!RoleNames,
         roles[r] # None => A!Paired(roles[r].codes), roles'[r] # None
  PROVE  A!Paired(roles'[r].codes)
<1> USE Rows DEF AccessInv, AccessRows
<1> DEFINE granted == A!DefaultRole(r).codes
<1>1. granted \subseteq A!Catalog /\ A!Paired(granted)
  BY DefaultRows
<1>2. roles[r] = None \/ roles[r] \in A!RoleRow
  BY DEF RowTypes
<1>3. CASE roles' = roles
  BY <1>3
<1>4. CASE A!SyncDefaults
  <2>1. A!DefaultRole(r).codes \cap permissions = granted
    BY <1>1, <1>4 DEF A!SyncDefaults, A!AtBoot, Booted
  <2>2. CASE roles'[r] = roles[r]
    BY <2>2
  <2>3. CASE roles'[r] # roles[r]
    <3>1. roles[r] # None /\ roles'[r] = [roles[r] EXCEPT !.codes = @ \cup granted]
      BY <1>4, <2>1, <2>3 DEF A!SyncDefaults
    <3>2. roles'[r].codes = roles[r].codes \cup granted
      BY <1>2, <3>1 DEF A!RoleRow
    <3> QED
      BY <1>1, <3>1, <3>2, PairsAdd
  <2> QED
    BY <2>2, <2>3
<1>5. CASE A!Prune
  <2>1. roles[r] # None /\ roles'[r] = [roles[r] EXCEPT !.codes = @ \cap A!Catalog]
    BY <1>5 DEF A!Prune
  <2>2. roles'[r].codes = roles[r].codes \cap A!Catalog
    BY <1>2, <2>1 DEF A!RoleRow
  <2> QED
    BY <2>1, <2>2, PairsAdd
<1>6. CASE A!Seed /\ roles' # roles
  <2> DEFINE new(q) == IF q \notin A!Builtin THEN roles[q]
                       ELSE IF roles[q] = None THEN A!DefaultRole(q)
                       ELSE [roles[q] EXCEPT !.codes = @ \cup A!DefaultRole(q).codes]
  <2>1. roles' = [q \in A!RoleNames |-> new(q)]
    BY <1>6 DEF A!Seed
  <2>2. CASE roles'[r] = roles[r]
    BY <2>2
  <2>3. CASE roles'[r] = A!DefaultRole(r)
    BY <1>1, <2>3
  <2>4. CASE roles[r] # None /\ roles'[r] = [roles[r] EXCEPT !.codes = @ \cup granted]
    <3>1. roles'[r].codes = roles[r].codes \cup granted
      BY <1>2, <2>4 DEF A!RoleRow
    <3> QED
      BY <1>1, <2>4, <3>1, PairsAdd
  <2> QED
    BY <2>1, <2>2, <2>3, <2>4
<1> QED
  BY <1>3, <1>4, <1>5, <1>6 DEF A!Boot, A!SyncCatalog

\* Only a write of permissions that another write has overtaken lets a role
\* edit what it does not see (roles.py set_role_permissions).
LEMMA PairsStep ==
  ASSUME AccessInv, [A!Next]_avars, NEW r \in A!RoleNames,
         roles'[r] # None, ~A!Paired(roles'[r].codes),
         roles[r] # None => A!Paired(roles[r].codes)
  PROVE  \E c \in Clients : /\ req[c] # None /\ req[c].op = "set_permissions"
                            /\ req[c].role = r /\ req[c].stale
<1> USE Rows DEF AccessInv, AccessRows, AccessReqs
<1>1. ~A!Boot
  BY BootKeepsPairs
<1>2. roles'[r] # roles[r]
  OBVIOUS
<1>3. PICK c \in Clients : A!Commit(c)
  <2>1. ~A!Restart
    BY <1>2 DEF A!Restart, A!db
  <2>2. ASSUME NEW c \in Clients
        PROVE  ~A!Ask(c)
    BY <1>2, AskWritesNothing DEF A!db
  <2>3. ~(UNCHANGED avars)
    BY <1>2 DEF avars
  <2> QED
    BY <1>1, <2>1, <2>2, <2>3 DEF A!Next
<1>4. roles[r] = None \/ roles[r] \in A!RoleRow
  BY DEF RowTypes
<1>5. \/ A!CreateRole(c) \/ A!GrantRole(c) \/ A!UpdateRole(c) \/ A!SetPermissions(c) \/ A!DeleteRole(c)
  BY <1>2, <1>3 DEF A!Commit, A!CreateUser, A!UpdateUser, A!DeleteUser, A!CreateProject,
     A!JoinProject, A!UpdateProject, A!DeleteProject, A!SetMembers, A!Refused
<1>6. A!Paired({})
  BY DEF A!Paired
<1>7. ~A!CreateRole(c)
  <2> SUFFICES ASSUME A!CreateRole(c)
               PROVE  FALSE
    OBVIOUS
  <2>1. roles' = [roles EXCEPT ![req[c].role] = [is_super |-> FALSE, all_projects |-> req[c].all,
                                                 is_system |-> FALSE, codes |-> {}]]
    BY <1>2 DEF A!CreateRole, A!Refused
  <2>2. roles'[r].codes = {}
    BY <1>2, <2>1 DEF RowTypes
  <2> QED
    BY <1>6, <2>2
<1>8. ~A!DeleteRole(c)
  BY <1>2 DEF A!DeleteRole, A!Refused, RowTypes
<1>9. ~A!UpdateRole(c)
  <2> SUFFICES ASSUME A!UpdateRole(c)
               PROVE  FALSE
    OBVIOUS
  <2>1. /\ roles[req[c].role] # None
        /\ roles' = [roles EXCEPT ![req[c].role].all_projects = A!Changed(req[c].all, req[c].loaded, @)]
    BY <1>2 DEF A!UpdateRole, A!Refused
  <2>2. /\ roles[r] # None
        /\ roles'[r] = [roles[r] EXCEPT !.all_projects = A!Changed(req[c].all, req[c].loaded, @)]
    BY <1>2, <2>1 DEF RowTypes
  <2>3. roles'[r].codes = roles[r].codes
    BY <1>4, <2>2 DEF A!RoleRow
  <2> QED
    BY <2>2, <2>3
<1>10. ~A!GrantRole(c)
  <2> SUFFICES ASSUME A!GrantRole(c)
               PROVE  FALSE
    OBVIOUS
  <2>1. PICK q \in RoleRequest : q = req[c] /\ q.op = "create_role"
    BY DEF A!GrantRole, A!Op, ReqTypes, Request, UserRequest, ProjectRequest
  <2> DEFINE codes == A!WithImpliedView(q.codes)
  <2>2. A!Paired(codes)
    BY <2>1, Implied DEF RoleRequest
  <2>3. roles[q.role] # None /\ roles' = [roles EXCEPT ![q.role].codes = @ \cup codes]
    BY <1>2, <2>1 DEF A!GrantRole, A!Refused
  <2> HIDE DEF codes
  <2>4. roles[r] # None /\ roles'[r] = [roles[r] EXCEPT !.codes = @ \cup codes]
    BY <1>2, <2>3 DEF RowTypes
  <2>5. roles'[r].codes = roles[r].codes \cup codes
    BY <1>4, <2>4 DEF A!RoleRow
  <2>6. A!Paired(roles[r].codes \cup codes)
    BY <2>2, <2>4, PairsAdd
  <2> QED
    BY <2>5, <2>6
<1>11. PICK q \in RoleRequest : A!SetPermissions(c) /\ q = req[c] /\ q.op = "set_permissions" /\ q # None
  BY <1>5, <1>7, <1>8, <1>9, <1>10 DEF A!SetPermissions, A!Op, ReqTypes, Request, UserRequest,
     ProjectRequest
<1> DEFINE drop == q.loaded \ q.codes
           add  == q.codes \ q.loaded
<1>12. roles[q.role] # None /\ roles' = [roles EXCEPT ![q.role].codes = (@ \ drop) \cup add]
  BY <1>2, <1>11 DEF A!SetPermissions, A!Refused
<1>13. /\ q.role = r
       /\ roles'[r] = [roles[r] EXCEPT !.codes = (@ \ drop) \cup add]
  BY <1>2, <1>12 DEF RowTypes
<1>14. roles'[r].codes = (roles[r].codes \ drop) \cup add
  BY <1>4, <1>12, <1>13 DEF A!RoleRow
<1>15. q.stale
  <2> SUFFICES ASSUME ~q.stale
               PROVE  FALSE
    OBVIOUS
  <2>1. q.loaded = roles[r].codes
    BY <1>11, <1>13 DEF ReadIsCurrent, Current
  <2>2. roles'[r].codes = q.codes
    BY <1>14, <2>1
  <2> QED
    BY <1>11, <2>2 DEF PairsAsked
<1> QED
  BY <1>11, <1>13, <1>15

-----------------------------------------------------------------------------
(* Types, and what a user may see *)

\* The types of Access, and that its rows refer to rows that exist.
LEMMA AccessTypes ==
  ASSUME AccessInv
  PROVE  A!TypeOK
<1> USE DEF AccessInv, AccessRows
<1>1. boot = "up" => permissions = A!Catalog
  BY DEF Booted
<1> QED
  BY <1>1 DEF A!TypeOK, RowTypes, RowKeys, Booted

\* Lists, pages and permissions agree (deps.py).
LEMMA AccessScopes ==
  ASSUME AccessInv
  PROVE  A!ScopesAgree
<1> USE Rows DEF AccessInv, AccessRows
<1> SUFFICES ASSUME boot = "up", NEW u \in Users, A!SignedIn(u)
             PROVE  /\ \A t \in Tasks :
                         /\ A!InScope(A!ReviewScope(u), t) <=> A!TaskAllowed(u, t)
                         /\ \A p \in A!TaskProject(t) :
                              A!TaskAllowed(u, t) <=> A!UserCan(u, A!View("reviews"), p)
                         /\ A!InScope(A!ReviewScope(u), t) /\ ~A!ReviewScope(u)[1] =>
                              \E p \in A!ReviewScope(u)[2] : p \in A!ProjectOfRepo(t.repo) \cup moved
                    /\ \A p \in A!ListedProjects(u) :
                         A!View("projects") \in A!Codes(u) => A!UserCan(u, A!View("projects"), p)
                    /\ \A m \in {"users", "roles"} :
                         A!Paired(A!Codes(u)) =>
                           (m \in A!MenuNames(u) <=> A!Permitted(u, {A!View(m), A!Edit(m)}))
  BY DEF A!ScopesAgree
<1> DEFINE row == A!RoleOf(u)
           mine == {p \in Pids : <<p, u>> \in members}
           all == row.is_super \/ row.all_projects
           sees == A!View("reviews") \in A!Codes(u)
<1>1. row \in A!RoleRow
  BY DEF A!SignedIn, A!RoleOf, RowTypes, RowKeys, A!UserRow
<1>2. row.is_super => \A m \in A!Modules : A!View(m) \in A!Codes(u)
  BY DEF A!Codes, A!Catalog, A!View
<1>3. /\ A!ReviewScope(u)[1] <=> sees /\ all
      /\ A!ReviewScope(u)[2] = IF sees /\ ~all THEN mine ELSE {}
  BY DEF A!ReviewScope, A!AllowedProjects
<1>4. A!View("reviews") \notin A!GlobalCode /\ A!View("projects") \notin A!GlobalCode
  BY DEF A!View, A!GlobalCode
<1>5. \A t \in Tasks : t.project \in Pids \cup {None} /\ t.repo \in Repos
  BY ConsoleAssumption DEF A!AccessAssumption
<1>6. "reviews" \in A!Modules /\ "projects" \in A!Modules /\ "users" \in A!Modules /\ "roles" \in A!Modules
  BY DEF A!Modules
<1> HIDE DEF row
<1>7. ASSUME NEW t \in Tasks
      PROVE  /\ A!InScope(A!ReviewScope(u), t) <=> A!TaskAllowed(u, t)
             /\ \A p \in A!TaskProject(t) :
                  A!TaskAllowed(u, t) <=> A!UserCan(u, A!View("reviews"), p)
             /\ A!InScope(A!ReviewScope(u), t) /\ ~A!ReviewScope(u)[1] =>
                  \E p \in A!ReviewScope(u)[2] : p \in A!ProjectOfRepo(t.repo) \cup moved
  <2>1. A!TaskProject(t) \subseteq Pids
    BY <1>5 DEF A!TaskProject, A!ProjectOfRepo
  <2>2. A!InScope(A!ReviewScope(u), t) <=> A!TaskAllowed(u, t)
    BY <1>3, <1>5 DEF A!InScope, A!TaskAllowed, A!TaskProject
  <2>3. ASSUME NEW p \in A!TaskProject(t)
        PROVE  A!TaskAllowed(u, t) <=> A!UserCan(u, A!View("reviews"), p)
    <3>1. A!TaskProject(t) = {p}
      <4>1. \A q \in A!ProjectOfRepo(t.repo) : \A s \in A!ProjectOfRepo(t.repo) : q = s
        <5>1. [repo |-> t.repo, blanks |-> FALSE] \in A!Raw
          BY <1>5 DEF A!Raw
        <5> QED
          BY <5>1 DEF A!ProjectOfRepo, RowKeys
      <4> QED
        BY <2>3, <4>1 DEF A!TaskProject
    <3>2. A!TaskAllowed(u, t) <=> sees /\ (all \/ <<p, u>> \in members)
      BY <1>3, <2>1, <3>1 DEF A!TaskAllowed
    <3>3. A!UserCan(u, A!View("reviews"), p) <=>
            row.is_super \/ (sees /\ (row.all_projects \/ <<p, u>> \in members))
      BY <1>4, <2>1 DEF A!UserCan, row
    <3> QED
      BY <1>2, <1>6, <3>2, <3>3
  <2>4. ASSUME A!InScope(A!ReviewScope(u), t), ~A!ReviewScope(u)[1]
        PROVE  \E p \in A!ReviewScope(u)[2] : p \in A!ProjectOfRepo(t.repo) \cup moved
    BY <1>3, <1>5, <2>4 DEF A!InScope, RowsMoved
  <2> QED
    BY <2>2, <2>3, <2>4
<1>8. ASSUME NEW p \in A!ListedProjects(u), A!View("projects") \in A!Codes(u)
      PROVE  A!UserCan(u, A!View("projects"), p)
  BY <1>4, <1>8 DEF A!ListedProjects, A!AllowedProjects, A!UserCan
<1>9. ASSUME NEW m \in {"users", "roles"}, A!Paired(A!Codes(u))
      PROVE  m \in A!MenuNames(u) <=> A!Permitted(u, {A!View(m), A!Edit(m)})
  <2>1. m \in A!Modules
    BY <1>6
  <2>2. A!View(m) \in A!GlobalCode /\ A!Edit(m) \in A!GlobalCode
    BY DEF A!View, A!Edit, A!GlobalCode
  <2>3. A!Edit(m) \in A!Codes(u) => A!View(m) \in A!Codes(u)
    BY <1>9, <2>1 DEF A!Paired
  <2> QED
    BY <1>2, <2>1, <2>2, <2>3 DEF A!MenuNames, A!Permitted, A!UserCan, row
<1> QED
  BY <1>7, <1>8, <1>9

\* What a user sees on a list, on the page of a review and by permission is the
\* same, for any number of users, roles, projects and overlapping requests
\* (deps.py review_scope_clause, review_task_allowed, user_can).
THEOREM ScopesAlwaysAgree == Spec => []ScopesAgree
<1>1. AccessInv => ScopesAgree
  BY AccessScopes DEF ScopesAgree
<1> QED
  BY <1>1, AccessCorrect, PTL

\* The two guards of Access, as properties of behaviours (users.py, roles.py).
LEMMA AccessGuards == Spec => A!LastAdminGuarded /\ A!EditSeesView
<1>1. AccessInv /\ [Next]_vars =>
        /\ [A!Supers # {} /\ A!Supers' = {} =>
              \E c \in Clients :
                /\ req[c] # None /\ req[c].op \in {"update_user", "delete_user"}
                /\ \/ req[c].stale
                   \/ req[c].op = "update_user" /\ ~roles[req[c].row.role].is_super]_(A!vars)
        /\ [\A r \in A!RoleNames :
              /\ roles'[r] # None /\ ~A!Paired(roles'[r].codes)
              /\ roles[r] # None => A!Paired(roles[r].codes)
              => \E c \in Clients : /\ req[c] # None /\ req[c].op = "set_permissions"
                                    /\ req[c].role = r /\ req[c].stale]_(A!vars)
  BY StepOfParts, LastAdminStep, PairsStep
<1> QED
  BY <1>1, AccessCorrect, PTL DEF Spec, A!LastAdminGuarded, A!EditSeesView

-----------------------------------------------------------------------------
(* Platforms, models, concurrency: Configuration *)

\* What a place for a token may hold.
Tokens == C!Kept \cup {None, "environment"}

\* The rows, and the memory that is counted or listed.
ConfRows ==
  /\ forge \in [C!Platforms -> C!ForgeRow \cup {None}]
  /\ model \in [Models -> C!ModelRow \cup {None}]
  /\ conc \in Limits \cup {None}
  /\ registry \in [C!Platforms -> Tokens]
  /\ late \in BOOLEAN /\ up \in BOOLEAN /\ poller \in BOOLEAN /\ raced \in BOOLEAN
  /\ schedulers \in Nat /\ failed \in Nat

\* What client c may hold at a step.
Holds(c, j) ==
  /\ j.pc = "idle" => j = C!Idle
  /\ j.pc = "refresh" =>
       j \in [pc : {"refresh"}, built : [C!Platforms -> Tokens], todo : Nat \ {0},
              stale : BOOLEAN]
  /\ j.pc = "save_forge" =>
       /\ c \in Admins /\ j.provider \in C!Platforms /\ j.typed \in C!Typed
       /\ j.on \in BOOLEAN /\ j.loaded \in C!ForgeRow \cup {None}
  /\ j.pc = "save_model" =>
       /\ c \in Admins /\ j.id \in Models /\ j.typed \in C!Typed
       /\ j.on \in BOOLEAN /\ j.priority \in Priorities
  /\ j.pc = "resize" => j.limit \in Limits
  /\ j.pc = "schedule" => j.chain # <<>>

\* ... and a platform's row that was there is still there (none is deleted).
ConfJobs ==
  /\ DOMAIN job = C!Savers /\ \A c \in C!Savers : Holds(c, job[c])
  /\ \A c \in C!Savers : job[c].pc = "save_forge" /\ job[c].loaded # None =>
       forge[job[c].provider] # None

\* The lock of the start has its holder inside, and then there is no pool yet;
\* the schedulers are counted by the pool and by the starts that failed.
ConfLock ==
  /\ \A c \in C!Savers : job[c].pc \in {"assemble", "schedule"} <=> bootlock = c
  /\ bootlock # None => worker = C!NoPool
  /\ \A c \in C!Savers : job[c].pc = "schedule" => poller
  /\ worker # C!NoPool =>
       /\ worker = [chain |-> worker.chain, limit |-> worker.limit]
       /\ worker.chain # <<>> /\ poller /\ schedulers >= 1
  /\ schedulers <= failed + 1
  /\ worker = C!NoPool => schedulers <= failed

\* A limit that was saved beside nothing else is in force or on its way.
ConfLimit ==
  ~raced =>
    /\ \A c \in C!Savers : job[c].pc \in {"schedule", "resize"} => job[c].limit = C!Limit
    /\ worker # C!NoPool =>
         worker.limit = C!Limit \/ \E c \in C!Savers : job[c].pc = "resize"

InForce == \A p \in C!Platforms : registry[p] = C!Adapter(p)
AtRest  == ~up /\ \A c \in C!Savers : job[c] = C!Idle

\* What a refresh has resolved that nobody has overtaken.
Fresh(j) ==
  j.pc = "refresh" /\ ~j.stale =>
    \A i \in DOMAIN Providers :
      i < j.todo => j.built[Providers[i]] = C!Adapter(Providers[i])

\* It is still so; and the table is that of the rows, or known to be late, or
\* about to be replaced.
ConfRegistry ==
  /\ \A c \in C!Savers : Fresh(job[c])
  /\ late \/ InForce \/ AtRest \/ \E c \in C!Savers : job[c].pc = "refresh"

\* There are a model and a platform.
CanServe == (envmodel \/ C!Enabled # {}) /\ C!Available
OnTheWay == {"refresh", "boot", "assemble", "schedule"}

\* Where a worker could run it does, or a client is on its way to start it.
ConfServes ==
  CanServe /\ failed = 0 /\ worker = C!NoPool =>
    AtRest \/ \E c \in C!Savers : job[c].pc \in OnTheWay

ConfInv == ConfRows /\ ConfJobs /\ ConfLock /\ ConfLimit /\ ConfRegistry /\ ConfServes

\* What the proofs use of the constants.
LEMMA ConfConstants ==
  /\ Providers \in Seq(STRING) /\ DOMAIN Providers = 1..Len(Providers) /\ Len(Providers) \in Nat
  /\ \A i \in DOMAIN Providers : Providers[i] \in C!Platforms
  /\ \A p \in C!Platforms : \E i \in DOMAIN Providers : Providers[i] = p
  /\ C!Main \notin Admins /\ C!Savers = Admins \cup {C!Main}
  /\ None \notin C!Savers /\ None \notin Limits
  /\ None \notin C!ForgeRow /\ None \notin C!ModelRow
  /\ Models \subseteq Nat /\ IsFiniteSet(Models) /\ Secrets # {}
  /\ Forms \subseteq [typed : C!Typed, on : BOOLEAN]
  /\ MaxFaults \in Nat /\ 0 \in Priorities
<1>1. Providers \in Seq(STRING)
  BY ConsoleAssumption DEF C!ConfigurationAssumption
<1>2. DOMAIN Providers = 1..Len(Providers) /\ Len(Providers) \in Nat
  BY <1>1
<1>3. IsFiniteSet(Models)
  BY ConsoleAssumption DEF C!ConfigurationAssumption, C!IsFiniteSet, IsFiniteSet
<1> QED
  BY <1>1, <1>2, <1>3, ConsoleAssumption DEF C!ConfigurationAssumption, C!Platforms, C!Savers

\* A chain is there as soon as the environment or a row names a model.
LEMMA ChainThere == ConfRows => (C!Chain # <<>> <=> envmodel \/ C!Enabled # {})
<1> SUFFICES ASSUME ConfRows
             PROVE  C!Chain # <<>> <=> envmodel \/ C!Enabled # {}
  OBVIOUS
<1>1. CASE envmodel
  BY <1>1 DEF C!Chain
<1>2. CASE ~envmodel
  <2>1. IsFiniteSet(C!Enabled)
    BY ConfConstants, FS_Subset DEF C!Enabled
  <2>2. Cardinality(C!Enabled) \in Nat /\ (Cardinality(C!Enabled) = 0 <=> C!Enabled = {})
    BY <2>1, FS_CardinalityType, FS_EmptySet
  <2> DEFINE n == Cardinality(C!Enabled)
             at(i) == model[CHOOSE m \in C!Enabled :
                              C!Cardinality({x \in C!Enabled : C!Before(x, m)}) = i - 1].key
  <2>3. C!Chain = [i \in 1..n |-> at(i)]
    BY <1>2, SameCardinality DEF C!Chain
  <2> HIDE DEF n, at
  <2>4. n \in Nat => ([i \in 1..n |-> at(i)] # <<>> <=> n # 0)
    <3>1. n \in Nat => Len([i \in 1..n |-> at(i)]) = n
      OBVIOUS
    <3>2. DOMAIN [i \in 1..n |-> at(i)] = 1..n
      OBVIOUS
    <3>3. CASE n = 0
      <4>1. 1..n = {}
        BY <3>3
      <4>2. [i \in 1..n |-> at(i)] = <<>>
        BY <3>3
      <4> QED
        BY <3>3, <4>2
    <3> QED
      BY <3>1, <3>3
  <2> QED
    BY <1>2, <2>2, <2>3, <2>4 DEF n
<1> QED
  BY <1>1, <1>2

\* Platforms have an adapter or none, and resolving says which.
LEMMA AdapterToken == ASSUME ConfRows, NEW p \in C!Platforms PROVE C!Adapter(p) \in Tokens
BY ConfConstants DEF ConfRows, C!Adapter, C!ResolveForge, C!ForgeRow, Tokens

\* A client moves alone.
LEMMA GoMoves ==
  ASSUME ConfJobs, NEW c \in C!Savers, NEW next, C!Go(c, next)
  PROVE  /\ DOMAIN job' = C!Savers /\ job'[c] = next
         /\ \A d \in C!Savers : d # c => job'[d] = job[d]
BY DEF ConfJobs, C!Go

\* ... and holds what it should.
LEMMA JobsKept ==
  ASSUME ConfJobs, NEW c \in C!Savers, NEW next, C!Go(c, next), Holds(c, next), UNCHANGED forge,
         next.pc = "save_forge" /\ next.loaded # None => forge[next.provider] # None
  PROVE  ConfJobs'
BY GoMoves DEF ConfJobs

\* A request that neither takes nor holds the lock of the start leaves the lock alone.
LEMMA LockKept ==
  ASSUME ConfJobs, ConfLock, NEW c \in C!Savers, NEW next, C!Go(c, next),
         job[c].pc \notin {"assemble", "schedule"}, next.pc \notin {"assemble", "schedule"},
         UNCHANGED <<bootlock, worker, schedulers, failed>>, poller => poller'
  PROVE  ConfLock'
BY GoMoves DEF ConfLock

\* A request that sets no limit on its way leaves the limit in force.
LEMMA LimitKept ==
  ASSUME ConfJobs, ConfLimit, NEW c \in C!Savers, NEW next, C!Go(c, next),
         job[c].pc # "resize", next.pc \notin {"schedule", "resize"},
         UNCHANGED <<worker, raced, conc>>
  PROVE  ConfLimit'
BY GoMoves DEF ConfLimit, C!Limit

\* While a save is under way, a step that refreshes nothing leaves the adapters alone.
LEMMA RegistryKept ==
  ASSUME ConfJobs, ConfRegistry, NEW c \in C!Savers, NEW next, C!Go(c, next),
         ~AtRest, job[c].pc # "refresh", next.pc # "refresh",
         UNCHANGED <<env, forge, registry, late>>
  PROVE  ConfRegistry'
<1>1. \A p : C!Adapter(p)' = C!Adapter(p)
  BY DEF C!Adapter, C!ResolveForge
<1>2. InForce' <=> InForce
  BY <1>1 DEF InForce
<1>3. \A d \in C!Savers : Fresh(job[d])'
  BY <1>1, GoMoves DEF ConfRegistry, Fresh
<1> QED
  BY <1>2, <1>3, GoMoves DEF ConfRegistry

\* ... and one that stays on its way to the start leaves the worker alone.
LEMMA ServesKept ==
  ASSUME ConfJobs, ConfServes, NEW c \in C!Savers, NEW next, C!Go(c, next),
         ~AtRest, job[c].pc \notin OnTheWay \/ next.pc \in OnTheWay,
         CanServe' => CanServe, UNCHANGED <<worker, failed>>
  PROVE  ConfServes'
BY GoMoves DEF ConfServes

\* Whether a worker can serve depends on the rows of models and the adapters.
LEMMA SameCanServe ==
  ASSUME UNCHANGED <<envmodel, model, registry>>
  PROVE  CanServe' <=> CanServe
BY DEF CanServe, C!Enabled, C!Available

\* The program before its first start.
LEMMA ConfInit == C!Init => ConfInv
<1> SUFFICES ASSUME C!Init PROVE ConfInv
  OBVIOUS
<1> USE ConfConstants
<1> DEFINE old == CHOOSE s \in Secrets : TRUE
<1>1. old \in C!Kept
  BY DEF C!Kept
<1>2. ConfRows
  <2>1. forge \in [C!Platforms -> C!ForgeRow \cup {None}]
    <3>1. /\ C!NoAdapter \in [C!Platforms -> C!ForgeRow \cup {None}]
          /\ \A p \in C!Platforms : [C!NoAdapter EXCEPT ![p] = [on |-> TRUE, token |-> old]]
                                      \in [C!Platforms -> C!ForgeRow \cup {None}]
      BY <1>1 DEF C!NoAdapter, C!ForgeRow
    <3>2. forge \in {C!NoAdapter} \cup
                      {[C!NoAdapter EXCEPT ![p] = [on |-> TRUE, token |-> old]] : p \in C!Platforms}
      BY DEF C!Init
    <3>3. CASE forge = C!NoAdapter
      BY <3>1, <3>3
    <3>4. CASE \E p \in C!Platforms : forge = [C!NoAdapter EXCEPT ![p] = [on |-> TRUE, token |-> old]]
      BY <3>1, <3>4
    <3> QED
      BY <3>2, <3>3, <3>4
  <2>2. model \in [Models -> C!ModelRow \cup {None}]
    <3>1. model \in {[m \in Models |-> None],
                     [m \in Models |-> [on |-> TRUE, priority |-> 0, key |-> old]]}
      BY DEF C!Init
    <3>2. [on |-> TRUE, priority |-> 0, key |-> old] \in C!ModelRow
      BY <1>1 DEF C!ModelRow
    <3> QED
      BY <3>1, <3>2
  <2> QED
    BY <2>1, <2>2 DEF C!Init, ConfRows, C!NoAdapter, Tokens
<1>3. \A c \in C!Savers : job[c] = C!Idle /\ job[c].pc = "idle"
  BY DEF C!Init, C!Idle
<1>4. ConfJobs
  BY <1>3 DEF C!Init, ConfJobs, Holds, C!Idle
<1>5. ConfLock /\ ConfLimit /\ ConfServes
  BY <1>3 DEF C!Init, ConfLock, ConfLimit, ConfServes, AtRest
<1>6. ConfRegistry
  BY <1>3 DEF C!Init, ConfRegistry, Fresh, AtRest
<1> QED
  BY <1>2, <1>4, <1>5, <1>6 DEF ConfInv

\* Who is at a step is not at rest; who starts one finds the program up.
LEMMA NotAtRest ==
  ASSUME ConfInv, NEW c \in C!Savers, up \/ job[c].pc # "idle"
  PROVE  ~AtRest
BY DEF AtRest, C!Idle

\* update_forge and update_model load the row.
LEMMA EditStep ==
  ASSUME ConfInv, NEW c \in C!Savers, C!EditForge(c) \/ C!EditModel(c)
  PROVE  ConfInv'
<1> USE DEF ConfInv
<1>1. PICK next : /\ C!Begins(c, next) /\ next.pc \in {"save_forge", "save_model"} /\ Holds(c, next)
                  /\ next.pc = "save_forge" /\ next.loaded # None => forge[next.provider] # None
  <2>1. CASE C!EditForge(c)
    <3>1. PICK p \in C!Platforms, form \in Forms :
            C!Begins(c, [pc |-> "save_forge", provider |-> p, typed |-> form.typed,
                         on |-> form.on, loaded |-> forge[p]])
      BY <2>1 DEF C!EditForge
    <3>2. c \in Admins /\ form.typed \in C!Typed /\ form.on \in BOOLEAN
      BY <3>1, ConfConstants DEF C!Begins
    <3> QED
      BY <3>1, <3>2 DEF Holds, ConfRows
  <2>2. CASE C!EditModel(c)
    <3>1. PICK m \in Models, prio \in Priorities, form \in Forms :
            C!Begins(c, [pc |-> "save_model", id |-> m, typed |-> form.typed,
                         on |-> form.on, priority |-> prio, loaded |-> model[m]])
      BY <2>2 DEF C!EditModel
    <3>2. c \in Admins /\ form.typed \in C!Typed /\ form.on \in BOOLEAN
      BY <3>1, ConfConstants DEF C!Begins
    <3> QED
      BY <3>1, <3>2 DEF Holds
  <2> QED
    BY <2>1, <2>2
<1>2. C!Go(c, next) /\ job[c].pc = "idle" /\ up
  BY <1>1 DEF C!Begins, C!Idle
<1>3. UNCHANGED <<C!saved, up, C!memory, failed>>
  BY <1>1 DEF C!Begins
<1>4. ConfRows'
  BY <1>3 DEF ConfRows, C!saved, C!memory
<1>5. ConfJobs'
  BY <1>1, <1>2, <1>3, JobsKept DEF C!saved
<1>6. ConfLock'
  BY <1>1, <1>2, <1>3, LockKept DEF C!memory
<1>7. ConfLimit'
  BY <1>1, <1>2, <1>3, LimitKept DEF C!saved, C!memory
<1>8. ~AtRest
  BY <1>2, NotAtRest
<1>9. ConfRegistry'
  BY <1>1, <1>2, <1>3, <1>8, RegistryKept DEF C!saved, C!memory
<1>10. ConfServes'
  <2>1. CanServe' => CanServe
    BY <1>3, SameCanServe DEF C!saved, C!memory
  <2> QED
    BY <1>1, <1>2, <1>3, <1>8, <2>1, ServesKept DEF C!saved, C!memory, OnTheWay
<1> QED
  BY <1>4, <1>5, <1>6, <1>7, <1>9, <1>10

\* The commit of update_forge marks every refresh that was past the platform.
LEMMA SaveForgeStep ==
  ASSUME ConfInv, NEW c \in C!Savers, C!SaveForge(c)
  PROVE  ConfInv'
<1> USE DEF ConfInv
<1> DEFINE j == job[c]
           p == j.provider
<1>1. /\ j.pc = "save_forge" /\ p \in C!Platforms /\ j.typed \in C!Typed /\ j.on \in BOOLEAN
      /\ j.loaded \in C!ForgeRow \cup {None}
  BY DEF C!SaveForge, C!At, ConfJobs, Holds
<1>2. UNCHANGED <<env, envmodel, model, conc, up, C!memory, failed>>
  BY DEF C!SaveForge
<1>3. ~AtRest
  BY <1>1, NotAtRest
<1>4. CanServe' <=> CanServe
  BY <1>2, SameCanServe DEF C!memory
<1>5. CASE UNCHANGED forge /\ C!Go(c, C!Idle)
  <2>1. C!Idle.pc = "idle" /\ Holds(c, C!Idle)
    BY DEF C!Idle, Holds
  <2>2. ConfRows'
    BY <1>2, <1>5 DEF ConfRows, C!memory
  <2>3. ConfJobs'
    BY <1>5, <2>1, JobsKept
  <2>4. ConfLock'
    BY <1>1, <1>2, <1>5, <2>1, LockKept DEF C!memory
  <2>5. ConfLimit'
    BY <1>1, <1>2, <1>5, <2>1, LimitKept DEF C!memory
  <2>6. ConfRegistry'
    BY <1>1, <1>2, <1>3, <1>5, <2>1, RegistryKept DEF C!memory
  <2>7. ConfServes'
    BY <1>1, <1>2, <1>3, <1>4, <1>5, <2>1, ServesKept DEF C!memory, OnTheWay
  <2> QED
    BY <2>2, <2>3, <2>4, <2>5, <2>6, <2>7
<1>6. CASE /\ \/ j.loaded # None
              \/ forge[p] = None
           /\ forge' = [forge EXCEPT ![p] =
                 IF j.loaded = None
                 THEN [on |-> j.on, token |-> C!SecretOf(C!Empty, j.typed)]
                 ELSE [on |-> IF j.on = j.loaded.on THEN @.on ELSE j.on,
                       token |-> C!SecretOf(@.token, j.typed)]]
           /\ job' = C!Overtaken(c, p)
  <2>1. forge' \in [C!Platforms -> C!ForgeRow \cup {None}] /\ forge'[p] # None
    <3>1. \A now \in C!Kept : C!SecretOf(now, j.typed) \in C!Kept
      BY <1>1, ConfConstants DEF C!SecretOf, C!Typed, C!Kept
    <3>2. forge[p] \in C!ForgeRow \cup {None} /\ C!Empty \in C!Kept
      BY <1>1 DEF ConfRows, C!Kept
    <3>3. CASE j.loaded = None
      <4>1. forge' = [forge EXCEPT ![p] = [on |-> j.on, token |-> C!SecretOf(C!Empty, j.typed)]]
        BY <1>6, <3>3
      <4>2. [on |-> j.on, token |-> C!SecretOf(C!Empty, j.typed)] \in C!ForgeRow
        BY <1>1, <3>1, <3>2 DEF C!ForgeRow
      <4> QED
        BY <1>1, <4>1, <4>2, ConfConstants DEF ConfRows
    <3>4. CASE j.loaded # None
      <4>1. forge' = [forge EXCEPT ![p] =
                        [on |-> IF j.on = j.loaded.on THEN @.on ELSE j.on,
                         token |-> C!SecretOf(@.token, j.typed)]]
        BY <1>6, <3>4
      <4>2. [on |-> IF j.on = j.loaded.on THEN forge[p].on ELSE j.on,
             token |-> C!SecretOf(forge[p].token, j.typed)] \in C!ForgeRow
        <5>1. forge[p] \in C!ForgeRow
          BY <1>1, <3>2, <3>4 DEF ConfJobs
        <5> QED
          BY <1>1, <3>1, <5>1 DEF C!ForgeRow
      <4> QED
        BY <1>1, <4>1, <4>2, ConfConstants DEF ConfRows
    <3> QED
      BY <3>3, <3>4
  <2>2. \A q \in C!Platforms : q # p => C!Adapter(q)' = C!Adapter(q)
    BY <1>1, <1>2, <1>6 DEF C!Adapter, C!ResolveForge, ConfRows
  <2>3. /\ DOMAIN job' = C!Savers /\ job'[c] = C!Refresh
        /\ \A d \in C!Savers : d # c =>
             \/ job'[d] = job[d]
             \/ job[d].pc = "refresh" /\ job'[d] = [job[d] EXCEPT !.stale = TRUE]
    BY <1>6 DEF C!Overtaken, C!At
  <2>4. \A d \in C!Savers : d # c => job'[d].pc = job[d].pc
    BY <2>3 DEF ConfJobs, Holds
  <2>5. C!Refresh.pc = "refresh" /\ Holds(c, C!Refresh)
    BY ConfConstants DEF C!Refresh, Holds, C!NoAdapter, Tokens
  <2>6. ConfRows'
    BY <1>2, <2>1 DEF ConfRows, C!memory
  <2>7. ConfJobs'
    <3>1. ASSUME NEW d \in C!Savers, d # c, job'[d] # job[d]
          PROVE  Holds(d, job'[d])
      <4>1. Holds(d, job[d]) /\ job[d].pc = "refresh"
        BY <2>3, <3>1 DEF ConfJobs
      <4>2. job[d] \in [pc : {"refresh"}, built : [C!Platforms -> Tokens], todo : Nat \ {0},
                        stale : BOOLEAN]
        BY <4>1 DEF Holds
      <4>3. job'[d] = [job[d] EXCEPT !.stale = TRUE]
        BY <2>3, <3>1
      <4>4. job'[d] \in [pc : {"refresh"}, built : [C!Platforms -> Tokens], todo : Nat \ {0},
                         stale : BOOLEAN]
        BY <4>2, <4>3
      <4> QED
        BY <4>4 DEF Holds
    <3>2. \A d \in C!Savers : Holds(d, job'[d])
      BY <2>3, <2>5, <3>1 DEF ConfJobs
    <3>3. ASSUME NEW d \in C!Savers, job'[d].pc = "save_forge", job'[d].loaded # None
          PROVE  forge'[job'[d].provider] # None
      <4>1. d # c /\ job'[d] = job[d]
        BY <2>3, <2>4, <2>5, <3>3
      <4>2. job[d].provider \in C!Platforms /\ forge[job[d].provider] # None
        BY <3>3, <4>1 DEF ConfJobs, Holds
      <4>3. CASE job[d].provider = p
        BY <1>1, <2>1, <4>1, <4>3
      <4>4. CASE job[d].provider # p
        BY <1>1, <1>6, <4>1, <4>2, <4>4 DEF ConfRows
      <4> QED
        BY <4>3, <4>4
    <3> QED
      BY <2>3, <3>2, <3>3 DEF ConfJobs
  <2>8. ConfLock'
    BY <1>1, <1>2, <2>3, <2>4, <2>5 DEF ConfLock, C!memory
  <2>9. ConfLimit'
    <3>1. \A d \in C!Savers : job'[d].pc \in {"schedule", "resize"} => job'[d] = job[d]
      BY <2>3, <2>4, <2>5
    <3> QED
      BY <1>1, <1>2, <2>3, <2>4, <2>5, <3>1 DEF ConfLimit, C!Limit, C!memory
  <2>10. ConfRegistry'
    <3>1. ASSUME NEW d \in C!Savers
          PROVE  Fresh(job[d])'
      <4>1. CASE d = c
        BY <2>3, <4>1, ConfConstants DEF Fresh, C!Refresh
      <4>2. CASE d # c
        <5>1. SUFFICES ASSUME job'[d].pc = "refresh", ~job'[d].stale,
                              NEW i \in DOMAIN Providers, i < job'[d].todo
                       PROVE  job'[d].built[Providers[i]] = C!Adapter(Providers[i])'
          BY DEF Fresh
        <5>2. job[d].pc = "refresh" /\ job[d] \in [pc : {"refresh"},
                 built : [C!Platforms -> Tokens], todo : Nat \ {0}, stale : BOOLEAN]
          BY <2>4, <4>2, <5>1 DEF ConfJobs, Holds
        <5>3. job'[d] = job[d]
          BY <2>3, <4>2, <5>1, <5>2
        <5>4. job[d].built[Providers[i]] = C!Adapter(Providers[i])
          BY <5>1, <5>2, <5>3 DEF ConfRegistry, Fresh
        <5>5. ~ \E k \in 1..(job[d].todo - 1) : Providers[k] = p
          BY <1>6, <4>2, <5>1, <5>2, <5>3 DEF C!Overtaken, C!At
        <5>6. Providers[i] # p
          BY <5>1, <5>2, <5>3, <5>5, ConfConstants
        <5> QED
          BY <2>2, <5>3, <5>4, <5>6, ConfConstants
      <4> QED
        BY <4>1, <4>2
    <3> QED
      BY <2>3, <2>5, <3>1 DEF ConfRegistry
  <2>11. ConfServes'
    BY <2>3, <2>5 DEF ConfServes, OnTheWay
  <2> QED
    BY <2>6, <2>7, <2>8, <2>9, <2>10, <2>11
<1> QED
  BY <1>5, <1>6 DEF C!SaveForge

\* refresh_all resolves the next platform.
LEMMA ResolveStep ==
  ASSUME ConfInv, NEW c \in C!Savers, C!Resolve(c)
  PROVE  ConfInv'
<1> USE DEF ConfInv
<1> DEFINE j == job[c]
           p == Providers[j.todo]
           next == [pc |-> "refresh", built |-> [j.built EXCEPT ![p] = C!Adapter(p)],
                    todo |-> j.todo + 1, stale |-> j.stale]
<1>1. /\ j \in [pc : {"refresh"}, built : [C!Platforms -> Tokens], todo : Nat \ {0},
                stale : BOOLEAN]
      /\ j.todo \in DOMAIN Providers /\ p \in C!Platforms
  BY ConfConstants DEF C!Resolve, C!At, ConfJobs, Holds
<1>2. C!Go(c, next) /\ UNCHANGED <<C!saved, up, C!memory, failed>>
  BY DEF C!Resolve
<1>3. /\ next \in [pc : {"refresh"}, built : [C!Platforms -> Tokens], todo : Nat \ {0},
                   stale : BOOLEAN]
      /\ next.built = [j.built EXCEPT ![p] = C!Adapter(p)]
      /\ next.todo = j.todo + 1 /\ next.stale = j.stale
  <2>1. C!Adapter(p) \in Tokens
    BY <1>1, AdapterToken
  <2>2. [j.built EXCEPT ![p] = C!Adapter(p)] \in [C!Platforms -> Tokens]
    BY <1>1, <2>1
  <2> QED
    BY <1>1, <2>2
<1>4. next.pc = "refresh" /\ j.pc = "refresh" /\ Holds(c, next)
  BY <1>1, <1>3 DEF Holds
<1> HIDE DEF next
<1>5. ConfRows'
  BY <1>2 DEF ConfRows, C!saved, C!memory
<1>6. ConfJobs'
  BY <1>2, <1>4, JobsKept DEF C!saved
<1>7. ConfLock'
  BY <1>2, <1>4, LockKept DEF C!memory
<1>8. ConfLimit'
  BY <1>2, <1>4, LimitKept DEF C!saved, C!memory
<1>9. ConfRegistry'
  <2>1. \A q : C!Adapter(q)' = C!Adapter(q)
    BY <1>2 DEF C!Adapter, C!ResolveForge, C!saved
  <2>2. ASSUME NEW d \in C!Savers
        PROVE  Fresh(job[d])'
    <3>1. CASE d # c
      BY <1>2, <2>1, <3>1, GoMoves DEF ConfRegistry, Fresh
    <3>2. CASE d = c
      <4>1. SUFFICES ASSUME ~j.stale, NEW i \in DOMAIN Providers, i < j.todo + 1
                     PROVE  next.built[Providers[i]] = C!Adapter(Providers[i])
        <5>1. job'[d] = next
          BY <1>2, <3>2, GoMoves
        <5> QED
          BY <1>3, <2>1, <5>1 DEF Fresh
      <4>2. CASE Providers[i] = p
        BY <1>1, <1>3, <4>2
      <4>3. CASE Providers[i] # p
        <5>1. i < j.todo
          BY <1>1, <4>1, <4>3, ConfConstants
        <5>2. j.built[Providers[i]] = C!Adapter(Providers[i])
          BY <1>4, <4>1, <5>1 DEF ConfRegistry, Fresh
        <5> QED
          BY <1>1, <1>3, <4>3, <5>2, ConfConstants
      <4> QED
        BY <4>2, <4>3
    <3> QED
      BY <3>1, <3>2
  <2>3. job'[c].pc = "refresh"
    BY <1>2, <1>4, GoMoves
  <2> QED
    BY <2>2, <2>3 DEF ConfRegistry
<1>10. ConfServes'
  <2>1. CanServe' => CanServe
    BY <1>2, SameCanServe DEF C!saved, C!memory
  <2>2. ~AtRest
    BY <1>4, NotAtRest
  <2> QED
    BY <1>2, <1>4, <2>1, <2>2, ServesKept DEF C!memory, OnTheWay
<1> QED
  BY <1>5, <1>6, <1>7, <1>8, <1>9, <1>10

\* ... and the table is replaced: it is in force, or known to be late.
LEMMA InstallStep ==
  ASSUME ConfInv, NEW c \in C!Savers, C!Install(c)
  PROVE  ConfInv'
<1> USE DEF ConfInv
<1> DEFINE j == job[c]
           next == [pc |-> "boot"]
<1>1. /\ j \in [pc : {"refresh"}, built : [C!Platforms -> Tokens], todo : Nat \ {0},
                stale : BOOLEAN]
      /\ j.pc = "refresh" /\ j.todo > Len(Providers)
  BY DEF C!Install, C!At, ConfJobs, Holds
<1>2. /\ C!Go(c, next) /\ registry' = j.built /\ late' = j.stale
      /\ UNCHANGED <<C!saved, up, bootlock, schedulers, worker, raced, failed>>
  BY DEF C!Install
<1>3. poller' \in BOOLEAN /\ (poller => poller')
  <2>1. poller' = (poller \/ (c = C!Main /\ job[c].built # C!NoAdapter))
    BY DEF C!Install
  <2> QED
    BY <2>1
<1>4. next.pc = "boot" /\ Holds(c, next)
  BY DEF Holds
<1> HIDE DEF next
<1>5. ConfRows'
  BY <1>1, <1>2, <1>3 DEF ConfRows, C!saved
<1>6. ConfJobs'
  BY <1>2, <1>4, JobsKept DEF C!saved
<1>7. ConfLock'
  BY <1>1, <1>2, <1>3, <1>4, LockKept
<1>8. ConfLimit'
  BY <1>1, <1>2, <1>4, LimitKept DEF C!saved
<1>9. ConfRegistry'
  <2>1. \A q : C!Adapter(q)' = C!Adapter(q)
    BY <1>2 DEF C!Adapter, C!ResolveForge, C!saved
  <2>2. \A d \in C!Savers : Fresh(job[d])'
    BY <1>2, <1>4, <2>1, GoMoves DEF ConfRegistry, Fresh
  <2>3. ASSUME ~j.stale, NEW q \in C!Platforms
        PROVE  registry'[q] = C!Adapter(q)
    <3>1. PICK i \in DOMAIN Providers : Providers[i] = q
      BY ConfConstants
    <3>2. i < j.todo
      BY <1>1, ConfConstants
    <3>3. j.built[Providers[i]] = C!Adapter(Providers[i])
      BY <1>1, <2>3, <3>2 DEF ConfRegistry, Fresh
    <3> QED
      BY <1>2, <3>1, <3>3
  <2>4. late' \/ InForce'
    BY <1>1, <1>2, <2>1, <2>3 DEF InForce
  <2> QED
    BY <2>2, <2>4 DEF ConfRegistry
<1>10. ConfServes'
  BY <1>2, <1>4, GoMoves DEF ConfServes, OnTheWay
<1> QED
  BY <1>5, <1>6, <1>7, <1>8, <1>9, <1>10

\* What create_model and update_model have in common: a start may follow.
LEMMA ModelStep ==
  ASSUME ConfInv, NEW c \in C!Savers, up \/ job[c].pc # "idle", job[c].pc \in {"idle", "save_model"},
         C!Go(c, [pc |-> "boot"]) \/ (C!Go(c, C!Idle) /\ UNCHANGED model),
         model' \in [Models -> C!ModelRow \cup {None}],
         UNCHANGED <<env, envmodel, forge, conc, up, C!memory, failed>>
  PROVE  ConfInv'
<1> PICK next : C!Go(c, next) /\ (next = [pc |-> "boot"] \/ (UNCHANGED model /\ next = C!Idle))
  OBVIOUS
<1> USE DEF ConfInv
<1>1. next.pc \in {"boot", "idle"} /\ Holds(c, next)
  BY DEF Holds, C!Idle
<1>2. ~AtRest
  BY NotAtRest
<1>3. ConfRows'
  BY DEF ConfRows, C!memory
<1>4. ConfJobs'
  BY <1>1, JobsKept
<1>5. ConfLock'
  BY <1>1, LockKept DEF C!memory
<1>6. ConfLimit'
  BY <1>1, LimitKept DEF C!memory
<1>7. ConfRegistry'
  BY <1>1, <1>2, RegistryKept DEF C!memory
<1>8. ConfServes'
  <2>1. CASE next = [pc |-> "boot"]
    BY <2>1, GoMoves DEF ConfServes, OnTheWay
  <2>2. CASE UNCHANGED model
    <3>1. CanServe' => CanServe
      BY <2>2, SameCanServe DEF C!memory
    <3> QED
      BY <1>1, <1>2, <3>1, ServesKept DEF C!memory, OnTheWay
  <2> QED
    BY <2>1, <2>2
<1> QED
  BY <1>3, <1>4, <1>5, <1>6, <1>7, <1>8

\* models.py create: the key is typed.
LEMMA CreateModelStep ==
  ASSUME ConfInv, NEW c \in C!Savers, C!CreateModel(c)
  PROVE  ConfInv'
<1>1. PICK m \in Models, prio \in Priorities, form \in Forms :
        /\ form.typed # Masked
        /\ model' = [model EXCEPT ![m] = [on |-> form.on, priority |-> prio, key |-> form.typed]]
  BY DEF C!CreateModel
<1>2. [on |-> form.on, priority |-> prio, key |-> form.typed] \in C!ModelRow
  BY <1>1, ConfConstants DEF C!ModelRow, C!Typed, C!Kept
<1>3. model' \in [Models -> C!ModelRow \cup {None}]
  BY <1>1, <1>2 DEF ConfInv, ConfRows
<1>4. job[c].pc = "idle" /\ up
  BY DEF C!CreateModel, C!Idle
<1>5. /\ C!Go(c, [pc |-> "boot"])
      /\ UNCHANGED <<env, envmodel, forge, conc, up, C!memory, failed>>
  BY DEF C!CreateModel
<1> QED
  BY <1>3, <1>4, <1>5, ModelStep

\* models.py update: a masked key leaves the row's.
LEMMA SaveModelStep ==
  ASSUME ConfInv, NEW c \in C!Savers, C!SaveModel(c)
  PROVE  ConfInv'
<1> DEFINE j == job[c]
<1>1. /\ j.pc = "save_model" /\ j.id \in Models /\ j.typed \in C!Typed /\ j.on \in BOOLEAN
      /\ j.priority \in Priorities
  BY DEF C!SaveModel, C!At, ConfInv, ConfJobs, Holds
<1>2. UNCHANGED <<env, envmodel, forge, conc, up, C!memory, failed>>
  BY DEF C!SaveModel
<1>3. CASE UNCHANGED model /\ C!Go(c, C!Idle)
  BY <1>1, <1>2, <1>3, ModelStep DEF ConfInv, ConfRows
<1>4. CASE model[j.id] # None /\ C!SaveModel(c)
  <2>1. model' = [model EXCEPT ![j.id] =
                 [on |-> IF j.on = j.loaded.on THEN @.on ELSE j.on,
                  priority |-> IF j.priority = j.loaded.priority THEN @.priority ELSE j.priority,
                  key |-> C!SecretOf(@.key, j.typed)]]
        /\ C!Go(c, [pc |-> "boot"])
    BY <1>4 DEF C!SaveModel
  <2>2. model[j.id] \in C!ModelRow
    BY <1>1, <1>4 DEF ConfInv, ConfRows
  <2>3. \A now \in C!Kept : C!SecretOf(now, j.typed) \in C!Kept
    BY <1>1, ConfConstants DEF C!SecretOf, C!Typed, C!Kept
  <2> DEFINE row == [on |-> IF j.on = j.loaded.on THEN model[j.id].on ELSE j.on,
                     priority |-> IF j.priority = j.loaded.priority
                                  THEN model[j.id].priority ELSE j.priority,
                     key |-> C!SecretOf(model[j.id].key, j.typed)]
  <2>4. row \in C!ModelRow
    BY <1>1, <2>2, <2>3 DEF C!ModelRow
  <2>5. model' \in [Models -> C!ModelRow \cup {None}]
    <3>1. model' = [model EXCEPT ![j.id] = row]
      BY <2>1
    <3> HIDE DEF row
    <3> QED
      BY <2>4, <3>1 DEF ConfInv, ConfRows
  <2>6. C!Go(c, [pc |-> "boot"]) /\ job[c].pc = "save_model"
    BY <1>1, <2>1
  <2> HIDE DEF j
  <2> QED
    BY <1>2, <2>5, <2>6, ModelStep
<1> QED
  BY <1>3, <1>4 DEF C!SaveModel

\* delete_model takes a model away and starts nothing.
LEMMA DeleteModelStep ==
  ASSUME ConfInv, NEW c \in C!Savers, C!DeleteModel(c)
  PROVE  ConfInv'
<1> USE DEF ConfInv
<1>1. PICK m \in Models : model' = [model EXCEPT ![m] = None]
  BY DEF C!DeleteModel
<1>2. /\ UNCHANGED <<env, envmodel, forge, conc, up, job, failed>>
      /\ UNCHANGED <<registry, late, bootlock, replayed, poller, schedulers, worker, raced>>
  BY DEF C!DeleteModel, C!memory
<1>3. ConfRows'
  BY <1>1, <1>2 DEF ConfRows
<1>4. ConfJobs' /\ ConfLock'
  BY <1>2 DEF ConfJobs, ConfLock
<1>5. ConfLimit'
  BY <1>2 DEF ConfLimit, C!Limit
<1>6. ConfRegistry'
  <2>1. \A p : C!Adapter(p)' = C!Adapter(p)
    BY <1>2 DEF C!Adapter, C!ResolveForge
  <2> QED
    BY <1>2, <2>1 DEF ConfRegistry, Fresh, InForce, AtRest
<1>7. ConfServes'
  <2>1. C!Enabled' \subseteq C!Enabled
    BY <1>1 DEF C!Enabled, ConfRows
  <2>2. CanServe' => CanServe
    BY <1>2, <2>1 DEF CanServe, C!Available
  <2> QED
    BY <1>2, <2>2 DEF ConfServes, AtRest
<1> QED
  BY <1>3, <1>4, <1>5, <1>6, <1>7

\* set_concurrency saves the row ...
LEMMA SetLimitStep ==
  ASSUME ConfInv, NEW c \in C!Savers, C!SetLimit(c)
  PROVE  ConfInv'
<1> USE DEF ConfInv
<1>1. PICK n \in Limits : conc' = n /\ C!Go(c, [pc |-> "resize", limit |-> n])
  BY DEF C!SetLimit
<1>2. PICK next : next = [pc |-> "resize", limit |-> n]
  OBVIOUS
<1>3. C!Go(c, next) /\ next.pc = "resize" /\ next.limit = n /\ Holds(c, next)
  BY <1>1, <1>2 DEF Holds
<1>4. /\ UNCHANGED <<env, envmodel, forge, model, up, registry, late, bootlock, poller,
                     schedulers, worker, failed>>
      /\ job[c].pc = "idle" /\ up
  BY DEF C!SetLimit, C!Idle
<1>5. /\ raced' \in BOOLEAN
      /\ ~raced' => \A d \in C!Savers : job[d].pc \notin {"resize", "schedule"}
  BY DEF C!SetLimit, C!At
<1>6. ~AtRest
  BY <1>4, NotAtRest
<1>7. ConfRows'
  BY <1>1, <1>4, <1>5 DEF ConfRows
<1>8. ConfJobs'
  BY <1>3, <1>4, JobsKept
<1>9. ConfLock'
  BY <1>3, <1>4, LockKept
<1>10. ConfLimit'
  <2>1. C!Limit' = n
    BY <1>1, ConfConstants DEF C!Limit
  <2> QED
    BY <1>3, <1>5, <2>1, GoMoves DEF ConfLimit
<1>11. ConfRegistry'
  BY <1>3, <1>4, <1>6, RegistryKept
<1>12. ConfServes'
  BY <1>3, <1>4, <1>6, ServesKept, SameCanServe DEF OnTheWay
<1> QED
  BY <1>7, <1>8, <1>9, <1>10, <1>11, <1>12

\* ... and sets the limit of the pool.
LEMMA ResizeStep ==
  ASSUME ConfInv, NEW c \in C!Savers, C!Resize(c)
  PROVE  ConfInv'
<1> USE DEF ConfInv
<1>1. /\ C!Go(c, C!Idle) /\ C!Idle.pc = "idle" /\ job[c].pc = "resize" /\ Holds(c, C!Idle)
      /\ UNCHANGED <<C!saved, up, registry, late, bootlock, poller, schedulers, raced, failed>>
      /\ worker' = IF worker = C!NoPool THEN C!NoPool ELSE [worker EXCEPT !.limit = job[c].limit]
  BY DEF C!Resize, C!At, C!Idle, Holds
<1>2. ~AtRest
  BY <1>1, NotAtRest
<1>3. /\ worker = C!NoPool <=> worker' = C!NoPool
      /\ worker # C!NoPool => /\ worker' = [chain |-> worker'.chain, limit |-> worker'.limit]
                              /\ worker'.chain = worker.chain /\ worker'.limit = job[c].limit
  <2>1. CASE worker = C!NoPool
    BY <1>1, <2>1
  <2>2. CASE worker # C!NoPool
    <3>1. worker = [chain |-> worker.chain, limit |-> worker.limit] /\ worker.chain # <<>>
      BY <2>2 DEF ConfLock
    <3>2. worker' = [worker EXCEPT !.limit = job[c].limit]
      BY <1>1, <2>2
    <3>3. worker' = [chain |-> worker.chain, limit |-> job[c].limit]
      BY <3>1, <3>2
    <3>4. worker' # C!NoPool
      BY <3>1, <3>3 DEF C!NoPool
    <3> QED
      BY <2>2, <3>3, <3>4
  <2> QED
    BY <2>1, <2>2
<1>4. ConfRows'
  BY <1>1 DEF ConfRows, C!saved
<1>5. ConfJobs'
  BY <1>1, JobsKept DEF C!saved
<1>6. ConfLock'
  BY <1>1, <1>3, GoMoves DEF ConfLock
<1>7. ConfLimit'
  <2>1. C!Limit' = C!Limit
    BY <1>1 DEF C!Limit, C!saved
  <2>2. CASE ~raced
    BY <1>1, <1>3, <2>1, <2>2, GoMoves DEF ConfLimit
  <2> QED
    BY <1>1, <2>2 DEF ConfLimit
<1>8. ConfRegistry'
  BY <1>1, <1>2, RegistryKept DEF C!saved
<1>9. ConfServes'
  <2>1. CanServe' <=> CanServe
    BY <1>1, SameCanServe DEF C!saved
  <2> QED
    BY <1>1, <1>2, <1>3, <2>1, GoMoves DEF ConfServes, OnTheWay
<1> QED
  BY <1>4, <1>5, <1>6, <1>7, <1>8, <1>9

\* ensure_worker_started takes the lock, where there is no pool.
LEMMA EnterStep ==
  ASSUME ConfInv, NEW c \in C!Savers, C!Enter(c)
  PROVE  ConfInv'
<1> USE DEF ConfInv
<1>1. job[c].pc = "boot" /\ bootlock = None
  BY DEF C!Enter, C!At
<1>2. UNCHANGED <<C!saved, registry, late, poller, schedulers, worker, raced, failed>>
  BY DEF C!Enter
<1>3. PICK next :
        /\ C!Go(c, next) /\ Holds(c, next)
        /\ \/ worker # C!NoPool /\ next.pc = "idle" /\ bootlock' = None
           \/ worker = C!NoPool /\ next.pc = "assemble" /\ bootlock' = c
  BY <1>1 DEF C!Enter, Holds, C!Idle
<1>4. ~AtRest
  BY <1>1, NotAtRest
<1>5. up' \in BOOLEAN
  BY DEF C!Enter, C!Served, ConfRows
<1>6. ConfRows'
  BY <1>2, <1>5 DEF ConfRows, C!saved
<1>7. ConfJobs'
  BY <1>2, <1>3, JobsKept DEF C!saved
<1>8. ConfLock'
  BY <1>1, <1>2, <1>3, ConfConstants, GoMoves DEF ConfLock
<1>9. ConfLimit'
  BY <1>1, <1>2, <1>3, LimitKept DEF C!saved
<1>10. ConfRegistry'
  BY <1>1, <1>2, <1>3, <1>4, RegistryKept DEF C!saved
<1>11. ConfServes'
  <2>1. CanServe' <=> CanServe
    BY <1>2, SameCanServe DEF C!saved
  <2>2. CASE worker # C!NoPool
    BY <1>2, <2>2 DEF ConfServes
  <2>3. CASE worker = C!NoPool
    BY <1>3, <2>3, GoMoves DEF ConfServes, OnTheWay
  <2> QED
    BY <2>2, <2>3
<1> QED
  BY <1>6, <1>7, <1>8, <1>9, <1>10, <1>11

\* With a model and a platform it goes on, else it leaves.
LEMMA AssembleStep ==
  ASSUME ConfInv, NEW c \in C!Savers, C!Assemble(c)
  PROVE  ConfInv'
<1> USE DEF ConfInv
<1>1. job[c].pc = "assemble" /\ bootlock = c /\ worker = C!NoPool
  BY ConfConstants DEF C!Assemble, C!At, ConfLock
<1>2. UNCHANGED <<C!saved, registry, late, schedulers, worker, raced, failed>>
  BY DEF C!Assemble
<1>3. PICK next :
        /\ C!Go(c, next) /\ Holds(c, next)
        /\ \/ next.pc = "schedule" /\ next.limit = C!Limit /\ poller' = TRUE /\ bootlock' = c
           \/ next.pc = "idle" /\ ~CanServe /\ UNCHANGED poller /\ bootlock' = None
  <2>1. CASE C!Chain # <<>> /\ C!Available
    <3>1. PICK next : next = [pc |-> "schedule", chain |-> C!Chain, limit |-> C!Limit]
      OBVIOUS
    <3>2. C!Go(c, next) /\ poller' = TRUE /\ bootlock' = c
      BY <1>1, <2>1, <3>1 DEF C!Assemble
    <3>3. next.pc = "schedule" /\ next.limit = C!Limit /\ Holds(c, next)
      BY <2>1, <3>1 DEF Holds
    <3> QED
      BY <3>2, <3>3
  <2>2. CASE ~(C!Chain # <<>> /\ C!Available)
    <3>1. ~CanServe
      BY <2>2, ChainThere DEF CanServe
    <3>2. C!Go(c, C!Idle) /\ bootlock' = None /\ UNCHANGED poller
      BY <2>2 DEF C!Assemble
    <3> QED
      BY <3>1, <3>2 DEF Holds, C!Idle
  <2> QED
    BY <2>1, <2>2
<1>4. ~AtRest
  BY <1>1, NotAtRest
<1>5. up' \in BOOLEAN
  BY DEF C!Assemble, C!Served, ConfRows
<1>6. ConfRows'
  BY <1>2, <1>3, <1>5 DEF ConfRows, C!saved
<1>7. ConfJobs'
  BY <1>2, <1>3, JobsKept DEF C!saved
<1>8. ConfLock'
  BY <1>1, <1>2, <1>3, ConfConstants, GoMoves DEF ConfLock
<1>9. ConfLimit'
  <2>1. C!Limit' = C!Limit
    BY <1>2 DEF C!Limit, C!saved
  <2> QED
    BY <1>1, <1>2, <1>3, <2>1, GoMoves DEF ConfLimit
<1>10. ConfRegistry'
  BY <1>1, <1>2, <1>3, <1>4, RegistryKept DEF C!saved
<1>11. ConfServes'
  <2>1. CanServe' <=> CanServe
    BY <1>2, SameCanServe DEF C!saved
  <2> QED
    BY <1>2, <1>3, <2>1, GoMoves DEF ConfServes, OnTheWay
<1> QED
  BY <1>6, <1>7, <1>8, <1>9, <1>10, <1>11

\* The scheduler runs, and the pool.
LEMMA StartPoolStep ==
  ASSUME ConfInv, NEW c \in C!Savers, C!StartPool(c)
  PROVE  ConfInv'
<1> USE DEF ConfInv
<1>1. /\ job[c].pc = "schedule" /\ bootlock = c /\ worker = C!NoPool /\ poller
      /\ job[c].chain # <<>>
  BY ConfConstants DEF C!StartPool, C!At, ConfLock, ConfJobs, Holds
<1>2. /\ UNCHANGED <<C!saved, registry, late, poller, raced, failed>>
      /\ schedulers' = schedulers + 1 /\ bootlock' = None
      /\ C!Go(c, C!Idle) /\ C!Idle.pc = "idle" /\ Holds(c, C!Idle)
  BY DEF C!StartPool, C!Idle, Holds
<1>3. worker' = [chain |-> job[c].chain, limit |-> job[c].limit]
  BY DEF C!StartPool
<1>4. /\ worker' = [chain |-> worker'.chain, limit |-> worker'.limit] /\ worker'.chain # <<>>
      /\ worker'.limit = job[c].limit /\ worker' # C!NoPool
  BY <1>1, <1>3 DEF C!NoPool
<1>5. ~AtRest
  BY <1>1, NotAtRest
<1>6. up' \in BOOLEAN
  BY DEF C!StartPool, C!Served, ConfRows
<1>7. ConfRows'
  BY <1>2, <1>6 DEF ConfRows, C!saved
<1>8. ConfJobs'
  BY <1>2, JobsKept DEF C!saved
<1>9. ConfLock'
  <2>1. \A d \in C!Savers : job'[d].pc \notin {"assemble", "schedule"}
    BY <1>1, <1>2, GoMoves DEF ConfLock
  <2>2. schedulers' \in Nat /\ schedulers' >= 1 /\ schedulers' <= failed' + 1
    <3>1. schedulers <= failed /\ schedulers \in Nat /\ failed \in Nat
      BY <1>1 DEF ConfLock, ConfRows
    <3> QED
      BY <1>2, <3>1
  <2> QED
    BY <1>1, <1>2, <1>4, <2>1, <2>2, ConfConstants DEF ConfLock
<1>10. ConfLimit'
  <2>1. C!Limit' = C!Limit
    BY <1>2 DEF C!Limit, C!saved
  <2> QED
    BY <1>1, <1>2, <1>4, <2>1, GoMoves DEF ConfLimit
<1>11. ConfRegistry'
  BY <1>1, <1>2, <1>5, RegistryKept DEF C!saved
<1>12. ConfServes'
  BY <1>4 DEF ConfServes
<1> QED
  BY <1>7, <1>8, <1>9, <1>10, <1>11, <1>12

\* ... or the scheduler's start raises, and there is no pool.
LEMMA StartFailsStep ==
  ASSUME ConfInv, NEW c \in C!Savers, C!StartFails(c)
  PROVE  ConfInv'
<1> USE DEF ConfInv
<1>1. job[c].pc = "schedule" /\ bootlock = c /\ worker = C!NoPool
  BY ConfConstants DEF C!StartFails, C!At, ConfLock
<1>2. /\ UNCHANGED <<C!saved, up, registry, late, poller, worker, raced>>
      /\ failed' = failed + 1 /\ bootlock' = None
      /\ schedulers' = IF c = C!Main THEN 0 ELSE schedulers + 1
      /\ C!Go(c, C!Idle) /\ C!Idle.pc = "idle" /\ Holds(c, C!Idle)
  BY DEF C!StartFails, C!Idle, Holds
<1>3. /\ schedulers' \in Nat /\ failed' \in Nat /\ schedulers' <= failed' /\ schedulers' <= failed' + 1
      /\ failed' # 0
  <2>1. schedulers <= failed /\ schedulers \in Nat /\ failed \in Nat
    BY <1>1 DEF ConfLock, ConfRows
  <2> QED
    BY <1>2, <2>1
<1>4. ~AtRest
  BY <1>1, NotAtRest
<1>5. ConfRows'
  BY <1>2, <1>3 DEF ConfRows, C!saved
<1>6. ConfJobs'
  BY <1>2, JobsKept DEF C!saved
<1>7. ConfLock'
  <2>1. \A d \in C!Savers : job'[d].pc \notin {"assemble", "schedule"}
    BY <1>1, <1>2, GoMoves DEF ConfLock
  <2> QED
    BY <1>1, <1>2, <1>3, <2>1, ConfConstants DEF ConfLock
<1>8. ConfLimit'
  <2>1. C!Limit' = C!Limit
    BY <1>2 DEF C!Limit, C!saved
  <2> QED
    BY <1>1, <1>2, <2>1, GoMoves DEF ConfLimit
<1>9. ConfRegistry'
  BY <1>1, <1>2, <1>4, RegistryKept DEF C!saved
<1>10. ConfServes'
  BY <1>3 DEF ConfServes
<1> QED
  BY <1>5, <1>6, <1>7, <1>8, <1>9, <1>10

\* The program starts: nothing is in memory, and the start refreshes.
LEMMA StartStep ==
  ASSUME ConfInv, C!Start
  PROVE  ConfInv'
<1> USE DEF ConfInv
<1>1. /\ UNCHANGED <<C!saved, failed>>
      /\ up' = FALSE /\ registry' = C!NoAdapter /\ late' = FALSE /\ bootlock' = None
      /\ poller' = FALSE /\ schedulers' = 0 /\ worker' = C!NoPool /\ raced' = FALSE
      /\ job' = [c \in C!Savers |-> IF c = C!Main THEN C!Refresh ELSE C!Idle]
  BY DEF C!Start, C!NoMemory
<1>2. /\ DOMAIN job' = C!Savers /\ C!Main \in C!Savers /\ job'[C!Main] = C!Refresh
      /\ \A c \in C!Savers : c # C!Main => job'[c] = C!Idle
  BY <1>1, ConfConstants
<1>3. C!Refresh.pc = "refresh" /\ C!Refresh.todo = 1 /\ C!Idle.pc = "idle"
  BY DEF C!Refresh, C!Idle
<1>4. \A c \in C!Savers : Holds(c, C!Refresh) /\ Holds(c, C!Idle)
  BY ConfConstants DEF C!Refresh, C!Idle, Holds, C!NoAdapter, Tokens
<1>5. ConfRows'
  BY <1>1 DEF ConfRows, C!saved, C!NoAdapter, Tokens
<1>6. ConfJobs'
  BY <1>2, <1>3, <1>4 DEF ConfJobs
<1>7. ConfLock'
  BY <1>1, <1>2, <1>3, ConfConstants DEF ConfLock, ConfRows
<1>8. ConfLimit'
  BY <1>1, <1>2, <1>3 DEF ConfLimit
<1>9. ConfRegistry'
  BY <1>2, <1>3, ConfConstants DEF ConfRegistry, Fresh
<1>10. ConfServes'
  BY <1>2, <1>3 DEF ConfServes, OnTheWay
<1> QED
  BY <1>5, <1>6, <1>7, <1>8, <1>9, <1>10

\* Every step of the part.
LEMMA ConfStep ==
  ASSUME ConfInv, [C!Next]_cvars
  PROVE  ConfInv'
<1>1. CASE C!Start
  BY <1>1, StartStep
<1>2. ASSUME NEW c \in C!Savers, C!Work(c)
      PROVE  ConfInv'
  BY <1>2, SaveForgeStep, ResolveStep, InstallStep, SaveModelStep, ResizeStep, EnterStep,
     AssembleStep, StartPoolStep, StartFailsStep DEF C!Work, C!Ensure
<1>3. ASSUME NEW c \in C!Savers, C!Edit(c)
      PROVE  ConfInv'
  BY <1>3, EditStep, CreateModelStep, DeleteModelStep, SetLimitStep DEF C!Edit
<1>4. CASE UNCHANGED cvars
  <2> USE <1>4 DEF cvars
  <2>1. ConfRows' /\ ConfJobs' /\ ConfLock'
    BY DEF ConfInv, ConfRows, ConfJobs, ConfLock
  <2>2. ConfLimit'
    BY DEF ConfInv, ConfLimit, C!Limit
  <2>3. ConfRegistry'
    BY DEF ConfInv, ConfRegistry, Fresh, InForce, AtRest, C!Adapter, C!ResolveForge
  <2>4. ConfServes'
    BY DEF ConfInv, ConfServes, CanServe, AtRest, C!Enabled, C!Available
  <2> QED
    BY <2>1, <2>2, <2>3, <2>4 DEF ConfInv
<1> QED
  BY <1>1, <1>2, <1>3, <1>4 DEF C!Next

\* The invariant holds in every behaviour.
LEMMA ConfCorrect == Spec => []ConfInv
<1>1. Init => ConfInv
  BY ConfInit DEF Init
<1>2. ConfInv /\ [Next]_vars => ConfInv'
  BY StepOfParts, ConfStep
<1> QED
  BY <1>1, <1>2, PTL DEF Spec

\* Types, the lock and the schedulers (ops/bootstrap.py).
LEMMA ConfTypes == ASSUME ConfInv PROVE C!TypeOK
BY DEF ConfInv, ConfRows, ConfLock, C!TypeOK, C!At

\* What is saved is in force when all saves are done, however many platforms,
\* models and overlapping saves: the adapters are those of the rows unless the
\* table is known to be late, the worker runs where it can, at the limit that
\* is saved (registry.py refresh_all, bootstrap.py ensure_worker_started).
THEOREM SavedAlwaysInForce == Spec => []SavedInForce
<1>1. ConfInv => SavedInForce
  <2> SUFFICES ASSUME ConfInv, C!Quiet
               PROVE  /\ ~late => InForce
                      /\ C!Chain # <<>> /\ C!Available /\ failed = 0 => worker # C!NoPool
                      /\ worker # C!NoPool /\ ~raced => worker.limit = C!Limit
    BY DEF SavedInForce, C!RegistryCurrent, C!WorkerServes, InForce
  <2> USE DEF ConfInv
  <2>1. ~AtRest /\ \A c \in C!Savers : job[c].pc = "idle"
    BY DEF C!Quiet, AtRest, C!Idle
  <2>2. ~late => InForce
    BY <2>1 DEF ConfRegistry
  <2>3. C!Chain # <<>> /\ C!Available /\ failed = 0 => worker # C!NoPool
    BY <2>1, ChainThere DEF ConfServes, CanServe, OnTheWay
  <2>4. worker # C!NoPool /\ ~raced => worker.limit = C!Limit
    BY <2>1 DEF ConfLimit
  <2> QED
    BY <2>2, <2>3, <2>4
<1> QED
  BY <1>1, ConfCorrect, PTL

\* The token of a platform changes by a form in which it was typed.
LEMMA TokenTyped ==
  ASSUME ConfInv, [C!Next]_cvars, NEW p \in C!Platforms, forge[p] # None,
         forge'[p].token # forge[p].token
  PROVE  \E c \in Admins : C!At(c, "save_forge") /\ job[c].typed = forge'[p].token
<1> USE DEF ConfInv
<1>1. PICK c \in C!Savers : C!SaveForge(c) /\ forge' # forge
  <2>1. forge' # forge
    OBVIOUS
  <2>2. CASE C!Start
    BY <2>1, <2>2 DEF C!Start, C!saved
  <2>3. ASSUME NEW c \in C!Savers, C!Work(c), ~C!SaveForge(c)
        PROVE  UNCHANGED forge
    BY <2>3 DEF C!Work, C!Ensure, C!Resolve, C!Install, C!SaveModel, C!Resize, C!Enter,
                C!Assemble, C!StartPool, C!StartFails, C!saved
  <2>4. ASSUME NEW c \in C!Savers, C!Edit(c)
        PROVE  UNCHANGED forge
    BY <2>4 DEF C!Edit, C!EditForge, C!EditModel, C!Begins, C!CreateModel, C!DeleteModel,
                C!SetLimit, C!saved
  <2>5. CASE UNCHANGED cvars
    BY <2>1, <2>5 DEF cvars
  <2> QED
    BY <2>1, <2>2, <2>3, <2>4, <2>5 DEF C!Next
<1> DEFINE j == job[c]
<1>2. j.pc = "save_forge" /\ c \in Admins /\ j.provider \in C!Platforms /\ C!At(c, "save_forge")
  BY <1>1 DEF C!SaveForge, C!At, ConfJobs, Holds
<1>3. PICK row : /\ forge' = [forge EXCEPT ![j.provider] = row]
                 /\ \/ j.loaded = None /\ forge[j.provider] = None
                    \/ row.token = C!SecretOf(forge[j.provider].token, j.typed)
  <2>1. CASE j.loaded = None
    BY <1>1, <2>1 DEF C!SaveForge
  <2>2. CASE j.loaded # None
    <3>1. forge' = [forge EXCEPT ![j.provider] =
                      [on |-> IF j.on = j.loaded.on THEN @.on ELSE j.on,
                       token |-> C!SecretOf(@.token, j.typed)]]
      BY <1>1, <2>2 DEF C!SaveForge
    <3>2. PICK row : row = [on |-> IF j.on = j.loaded.on THEN forge[j.provider].on ELSE j.on,
                            token |-> C!SecretOf(forge[j.provider].token, j.typed)]
      OBVIOUS
    <3>3. forge' = [forge EXCEPT ![j.provider] = row]
      BY <3>1, <3>2
    <3>4. row.token = C!SecretOf(forge[j.provider].token, j.typed)
      BY <3>2
    <3> QED
      BY <3>3, <3>4
  <2> QED
    BY <2>1, <2>2
<1>4. j.provider = p /\ forge'[p] = row
  BY <1>2, <1>3 DEF ConfRows
<1>5. row.token = j.typed
  BY <1>3, <1>4 DEF C!SecretOf
<1> QED
  BY <1>2, <1>4, <1>5

\* ... and so does the key of a model.
LEMMA KeyTyped ==
  ASSUME ConfInv, [C!Next]_cvars, NEW m \in Models, model[m] # None, model'[m] # None,
         model'[m].key # model[m].key
  PROVE  \E c \in Admins : C!At(c, "save_model") /\ job[c].typed = model'[m].key
<1> USE DEF ConfInv
<1>1. PICK c \in C!Savers : C!SaveModel(c)
  <2>1. model' # model
    OBVIOUS
  <2>2. CASE C!Start
    BY <2>1, <2>2 DEF C!Start, C!saved
  <2>3. ASSUME NEW c \in C!Savers, C!Work(c), ~C!SaveModel(c)
        PROVE  UNCHANGED model
    BY <2>3 DEF C!Work, C!Ensure, C!Resolve, C!Install, C!SaveForge, C!Resize, C!Enter,
                C!Assemble, C!StartPool, C!StartFails, C!saved
  <2>4. ASSUME NEW c \in C!Savers, C!Edit(c)
        PROVE  FALSE
    <3>1. CASE C!EditForge(c) \/ C!EditModel(c) \/ C!SetLimit(c)
      BY <2>1, <3>1 DEF C!EditForge, C!EditModel, C!Begins, C!SetLimit, C!saved
    <3>2. CASE C!CreateModel(c)
      <4>1. PICK n \in Models : /\ model[n] = None
                                /\ \E row : model' = [model EXCEPT ![n] = row]
        BY <3>2 DEF C!CreateModel
      <4> QED
        BY <4>1 DEF ConfRows
    <3>3. CASE C!DeleteModel(c)
      BY <3>3 DEF C!DeleteModel, ConfRows
    <3> QED
      BY <2>4, <3>1, <3>2, <3>3 DEF C!Edit
  <2>5. CASE UNCHANGED cvars
    BY <2>1, <2>5 DEF cvars
  <2> QED
    BY <2>1, <2>2, <2>3, <2>4, <2>5 DEF C!Next
<1> DEFINE j == job[c]
<1>2. j.pc = "save_model" /\ c \in Admins /\ j.id \in Models /\ C!At(c, "save_model")
  BY <1>1 DEF C!SaveModel, C!At, ConfJobs, Holds
<1>3. model' = [model EXCEPT ![j.id] =
                 [on |-> IF j.on = j.loaded.on THEN @.on ELSE j.on,
                  priority |-> IF j.priority = j.loaded.priority THEN @.priority ELSE j.priority,
                  key |-> C!SecretOf(@.key, j.typed)]]
  BY <1>1 DEF C!SaveModel
<1>4. j.id = m /\ model'[m].key = C!SecretOf(model[m].key, j.typed)
  BY <1>2, <1>3 DEF ConfRows
<1> QED
  BY <1>2, <1>4 DEF C!SecretOf

-----------------------------------------------------------------------------
(* Notices of the system: SystemNotices *)

NoticeRows ==
  /\ notices \in [N!NoticeIds -> N!NoticeRow \cup {None}]
  /\ clock \in Nat /\ phantoms \subseteq N!NoticeIds
  /\ report \in [Callers -> N!Report \cup {None}]
  /\ page \in [Pages -> N!PageRow \cup {None}]
  /\ \A n \in N!Stored : notices[n].at <= clock
  /\ \A c \in N!Writers : report[c].at <= clock

\* The ids have no gap, and one writer at a time holds the next one.
NoticeIdsInv ==
  /\ \A n, m \in N!NoticeIds : n < m /\ m \in N!Stored => n \in N!Stored
  /\ \A c, d \in N!Writers : c = d
  /\ \A c \in N!Writers : /\ report[c].id \notin N!Stored
                          /\ \A m \in N!NoticeIds : m < report[c].id => m \in N!Stored

\* What a page shows or is about to show.
Listed(q) == IF q.stream = None THEN {} ELSE {q.stream[i] : i \in DOMAIN q.stream}
SeenOn(q) == q.shown \cup Listed(q)

\* A message is about a row, about one that is being written, or about one
\* that was rolled back; in the first two cases it has that row's title.
MessageRight(m) ==
  /\ m[1] \in N!Stored \cup phantoms \cup {report[c].id : c \in N!Writers}
  /\ m[1] \in N!Stored \ phantoms => notices[m[1]].title = m[2]
  /\ \A c \in N!Writers : m[1] = report[c].id /\ m[1] \notin phantoms => m[2] = report[c].title

\* A page that has listened all along has heard of the row that is being
\* written, or came too late for it; one that has also read the list has all.
PageTold(q) ==
  /\ q.read /\ q.whole => q.stream # None
  /\ q.whole /\ q.stream # None =>
       \A c \in N!Writers : report[c].id \in N!IdsOf(SeenOn(q)) \cup q.missed
  /\ q.read /\ q.whole =>
       \A n \in N!Unacknowledged : n >= q.floor => n \in N!IdsOf(SeenOn(q)) \cup q.missed
  /\ \A m \in SeenOn(q) : MessageRight(m)

\* The rows of a title and a minute, and the callers that may still add one.
RowsAt(t, a)  == {n \in N!Stored : notices[n].title = t /\ notices[n].at = a}
Pending(t, a) ==
  {c \in Callers : /\ report[c] # None /\ report[c].title = t
                   /\ \/ report[c].pc = "checked" /\ a = clock
                      \/ report[c].pc = "inserted" /\ report[c].at = a}
OncePerCaller ==
  \A t \in Titles, a \in 0..clock :
    Cardinality(RowsAt(t, a)) + Cardinality(Pending(t, a)) <= Cardinality(Callers)

NoticesInv ==
  NoticeRows /\ NoticeIdsInv /\ (\A p \in N!Open : PageTold(page[p])) /\ OncePerCaller

\* What the proofs use of the constants.
LEMMA NoticeConstants ==
  /\ MaxNotices \in Nat /\ N!NoticeIds \subseteq Nat /\ IsFiniteSet(N!NoticeIds)
  /\ IsFiniteSet(Callers) /\ Cardinality(Callers) \in Nat /\ ListLimit \in Nat \ {0}
  /\ None \notin N!NoticeRow /\ None \notin N!Report /\ None \notin N!PageRow
  /\ None \notin Seq(N!Message)
<1>1. MaxNotices \in Nat /\ IsFiniteSet(Callers)
  BY ConsoleAssumption DEF N!NoticesAssumption, N!IsFiniteSet, IsFiniteSet
<1>2. IsFiniteSet(N!NoticeIds)
  BY <1>1, FS_Interval DEF N!NoticeIds
<1> QED
  BY <1>1, <1>2, FS_CardinalityType, ConsoleAssumption DEF N!NoticesAssumption, N!NoticeIds

\* Sets of rows and of callers are finite.
LEMMA CountsFinite ==
  ASSUME NEW t, NEW a
  PROVE  /\ IsFiniteSet(RowsAt(t, a)) /\ Cardinality(RowsAt(t, a)) \in Nat
         /\ IsFiniteSet(Pending(t, a)) /\ Cardinality(Pending(t, a)) \in Nat
         /\ Cardinality(Pending(t, a)) <= Cardinality(Callers)
<1>1. RowsAt(t, a) \subseteq N!NoticeIds /\ Pending(t, a) \subseteq Callers
  BY DEF RowsAt, Pending, N!Stored
<1> QED
  BY <1>1, NoticeConstants, FS_Subset, FS_CardinalityType

\* Nothing is stored, nobody reports, no page is open.
LEMMA NoticesInit == N!Init => NoticesInv
<1> SUFFICES ASSUME N!Init PROVE NoticesInv
  OBVIOUS
<1> USE NoticeConstants DEF N!Init
<1>1. N!Stored = {} /\ N!Writers = {} /\ N!Open = {}
  BY DEF N!Stored, N!Writers, N!Open
<1>2. \A t, a : RowsAt(t, a) = {}
  BY <1>1 DEF RowsAt
<1>3. OncePerCaller
  BY <1>2, CountsFinite, FS_EmptySet DEF OncePerCaller
<1> QED
  BY <1>1, <1>3 DEF NoticesInv, NoticeRows, NoticeIdsInv

\* The next id is the first one that is free.
LEMMA NextIdFree ==
  ASSUME NoticesInv
  PROVE  /\ N!NextId \in 1..(MaxNotices + 1) /\ N!NextId \notin N!Stored
         /\ \A m \in N!NoticeIds : m < N!NextId => m \in N!Stored
<1> USE NoticeConstants DEF NoticesInv
<1> DEFINE free == {n \in 1..(MaxNotices + 1) : n \notin N!Stored}
           first(n) == \A m \in N!NoticeIds : IF m < n THEN \E s \in N!Stored : s >= m
                                              ELSE m \notin N!Stored
<1>1. N!Stored \subseteq N!NoticeIds
  BY DEF N!Stored
<1>2. MaxNotices + 1 \in free
  BY <1>1 DEF N!NoticeIds
<1>3. PICK n \in free : \A m \in free : n <= m
  <2>1. free \in SUBSET Nat /\ free # {}
    BY <1>2
  <2> HIDE DEF free
  <2> QED
    BY <2>1, LeastNat
<1>4. first(n)
  <2>1. ASSUME NEW m \in N!NoticeIds, m < n
        PROVE  \E s \in N!Stored : s >= m
    BY <1>3, <2>1 DEF N!NoticeIds
  <2>2. ASSUME NEW m \in N!NoticeIds, ~(m < n), m \in N!Stored
        PROVE  FALSE
    <3>1. n \notin N!Stored /\ n \in Nat /\ m # n
      BY <1>3, <2>2
    <3>2. n \in N!NoticeIds /\ n < m
      BY <1>3, <2>2, <3>1 DEF N!NoticeIds
    <3> QED
      BY <2>2, <3>1, <3>2 DEF NoticeIdsInv
  <2> QED
    BY <2>1, <2>2
<1>5. n \in 1..(MaxNotices + 1)
  BY <1>3
<1> HIDE DEF free
<1>6. N!NextId \in 1..(MaxNotices + 1) /\ first(N!NextId)
  BY <1>4, <1>5 DEF N!NextId
<1>7. N!NextId \notin N!Stored
  BY <1>1, <1>6 DEF N!NoticeIds
<1>8. ASSUME NEW m \in N!NoticeIds, m < N!NextId
      PROVE  m \in N!Stored
  <2>1. PICK s \in N!Stored : s >= m
    BY <1>6, <1>8
  <2> QED
    BY <1>1, <2>1 DEF NoticeIdsInv
<1> QED
  BY <1>6, <1>7, <1>8

\* A step of one page.
LEMMA PageMoves ==
  ASSUME NoticesInv, NEW p \in Pages, NEW q \in N!PageRow \cup {None},
         page' = [page EXCEPT ![p] = q], UNCHANGED <<notices, clock, report, phantoms>>,
         q # None => PageTold(q)
  PROVE  NoticesInv'
<1> USE DEF NoticesInv
<1>1. /\ N!Stored' = N!Stored /\ N!Writers' = N!Writers /\ N!Unacknowledged' = N!Unacknowledged
      /\ \A m : MessageRight(m)' <=> MessageRight(m)
  BY DEF N!Stored, N!Writers, N!Unacknowledged, MessageRight
<1>2. \A r : PageTold(r)' <=> PageTold(r)
  BY <1>1 DEF PageTold
<1>3. \A o \in N!Open' : PageTold(page'[o])
  BY DEF N!Open, NoticeRows
<1>4. NoticeRows' /\ NoticeIdsInv'
  BY <1>1 DEF NoticeRows, NoticeIdsInv
<1>5. OncePerCaller'
  BY <1>1 DEF OncePerCaller, RowsAt, Pending
<1> QED
  BY <1>2, <1>3, <1>4, <1>5

\* A page opens, subscribes, is cut off, or closes.
LEMMA PageOpens ==
  ASSUME NoticesInv, NEW p \in Pages,
         N!OpenPage(p) \/ N!Subscribe(p) \/ N!Break(p) \/ N!ClosePage(p)
  PROVE  NoticesInv'
<1> USE DEF NoticesInv
<1>1. CASE N!OpenPage(p)
  <2> DEFINE q == [read |-> FALSE, floor |-> 1, stream |-> None, shown |-> {},
                   whole |-> TRUE, missed |-> {}]
  <2>1. q \in N!PageRow /\ PageTold(q)
    BY DEF N!PageRow, PageTold, SeenOn, Listed
  <2>2. page' = [page EXCEPT ![p] = q] /\ UNCHANGED <<notices, clock, report, phantoms>>
    BY <1>1 DEF N!OpenPage
  <2> HIDE DEF q
  <2> QED
    BY <2>1, <2>2, PageMoves
<1>2. CASE N!ClosePage(p)
  <2>1. page' = [page EXCEPT ![p] = None] /\ UNCHANGED <<notices, clock, report, phantoms>>
    BY <1>2 DEF N!ClosePage
  <2> QED
    BY <2>1, PageMoves
<1>3. CASE N!Subscribe(p)
  <2> DEFINE old == page[p]
             q == [old EXCEPT !.stream = <<>>, !.missed = {report[c].id : c \in N!Writers}]
  <2>1. old \in N!PageRow /\ old.stream = None /\ PageTold(old)
    BY <1>3 DEF N!Subscribe, N!Open, NoticeRows
  <2>2. \A c \in N!Writers : report[c].id \in N!NoticeIds
    BY DEF N!Writers, NoticeRows, N!Report
  <2>3. /\ q \in N!PageRow /\ q.read = old.read /\ q.whole = old.whole /\ q.shown = old.shown
        /\ q.stream = <<>> /\ q.missed = {report[c].id : c \in N!Writers}
    <3> DEFINE late1 == {report[c].id : c \in N!Writers}
    <3>1. late1 \subseteq N!NoticeIds /\ <<>> \in Seq(N!Message)
      BY <2>2
    <3>2. q = [old EXCEPT !.stream = <<>>, !.missed = late1]
      OBVIOUS
    <3> HIDE DEF q, old, late1
    <3>3. q = [read |-> old.read, floor |-> old.floor, stream |-> <<>>, shown |-> old.shown,
               whole |-> old.whole, missed |-> late1]
      BY <2>1, <3>2 DEF N!PageRow
    <3>4. /\ old.read \in BOOLEAN /\ old.floor \in Nat /\ old.shown \in SUBSET N!Message
          /\ old.whole \in BOOLEAN
      BY <2>1 DEF N!PageRow
    <3>5. q \in N!PageRow
      BY ONLY <3>1, <3>3, <3>4 DEF N!PageRow
    <3> QED
      BY <3>3, <3>5 DEF late1
  <2>4. page' = [page EXCEPT ![p] = q] /\ UNCHANGED <<notices, clock, report, phantoms>>
    BY <1>3 DEF N!Subscribe
  <2> HIDE DEF old, q
  <2>5. SeenOn(q) = SeenOn(old)
    BY <2>1, <2>3 DEF SeenOn, Listed
  <2>6. PageTold(q)
    BY <2>1, <2>3, <2>5 DEF PageTold
  <2> QED
    BY <2>3, <2>4, <2>6, PageMoves
<1>4. CASE N!Break(p)
  <2> DEFINE old == page[p]
             q == [old EXCEPT !.stream = None, !.whole = FALSE]
  <2>1. old \in N!PageRow /\ PageTold(old)
    BY <1>4 DEF N!Break, N!Open, NoticeRows
  <2>2. q \in N!PageRow /\ q.whole = FALSE /\ q.shown = old.shown /\ q.stream = None
    BY <2>1 DEF N!PageRow
  <2>3. page' = [page EXCEPT ![p] = q] /\ UNCHANGED <<notices, clock, report, phantoms>>
    BY <1>4 DEF N!Break
  <2> HIDE DEF old, q
  <2>4. PageTold(q)
    BY <2>1, <2>2 DEF PageTold, SeenOn, Listed
  <2> QED
    BY <2>2, <2>3, <2>4, PageMoves
<1> QED
  BY <1>1, <1>2, <1>3, <1>4

\* What is taken from a stream is what was in it.
LEMMA TakeFirst ==
  ASSUME NEW s \in Seq(N!Message), s # <<>>
  PROVE  /\ Head(s) \in N!Message /\ Tail(s) \in Seq(N!Message)
         /\ {s[i] : i \in DOMAIN s} = {Head(s)} \cup {Tail(s)[i] : i \in DOMAIN Tail(s)}
<1>1. /\ Head(s) = s[1] /\ Head(s) \in N!Message /\ Tail(s) \in Seq(N!Message)
      /\ Len(s) \in Nat /\ Len(s) >= 1
      /\ DOMAIN s = 1..Len(s) /\ DOMAIN Tail(s) = 1..(Len(s) - 1)
      /\ \A i \in 1..(Len(s) - 1) : Tail(s)[i] = s[i + 1]
  OBVIOUS
<1>2. \A i \in DOMAIN s : i = 1 \/ (i - 1 \in 1..(Len(s) - 1) /\ s[i] = Tail(s)[i - 1])
  BY <1>1
<1>3. \A i \in 1..(Len(s) - 1) : i + 1 \in DOMAIN s
  BY <1>1
<1>4. 1 \in DOMAIN s
  BY <1>1
<1> DEFINE rest == Tail(s)
<1>5. DOMAIN rest = 1..(Len(s) - 1) /\ \A i \in DOMAIN rest : rest[i] = s[i + 1]
  BY <1>1
<1>6. \A i \in DOMAIN s : s[i] = Head(s) \/ (i - 1 \in DOMAIN rest /\ s[i] = rest[i - 1])
  BY <1>1, <1>2
<1>7. Head(s) \in N!Message /\ rest \in Seq(N!Message) /\ Head(s) = s[1]
  BY <1>1
<1> HIDE DEF rest
<1>8. {s[i] : i \in DOMAIN s} \subseteq {Head(s)} \cup {rest[i] : i \in DOMAIN rest}
  BY <1>6
<1>9. {Head(s)} \cup {rest[i] : i \in DOMAIN rest} \subseteq {s[i] : i \in DOMAIN s}
  BY <1>3, <1>4, <1>5, <1>7
<1> QED
  BY <1>7, <1>8, <1>9 DEF rest

\* A page shows the next message, unless it shows one of that id.
LEMMA ReceiveStep ==
  ASSUME NoticesInv, NEW p \in Pages, N!Receive(p)
  PROVE  NoticesInv'
<1> USE DEF NoticesInv
<1> DEFINE old == page[p]
           m == Head(old.stream)
           q == [old EXCEPT !.stream = Tail(@),
                            !.shown = IF m[1] \in N!IdsOf(@) THEN @ ELSE @ \cup {m}]
<1>1. /\ old \in N!PageRow /\ old.stream \in Seq(N!Message) /\ old.stream # <<>>
      /\ old.stream # None /\ PageTold(old)
  BY DEF N!Receive, N!Open, NoticeRows, N!PageRow
<1>2. /\ m \in N!Message /\ Tail(old.stream) \in Seq(N!Message)
      /\ {old.stream[i] : i \in DOMAIN old.stream} =
           {m} \cup {Tail(old.stream)[i] : i \in DOMAIN Tail(old.stream)}
  BY <1>1, TakeFirst
<1>3. page' = [page EXCEPT ![p] = q] /\ UNCHANGED <<notices, clock, report, phantoms>>
  BY DEF N!Receive
<1>4. /\ q \in N!PageRow /\ q.stream = Tail(old.stream) /\ q.read = old.read /\ q.floor = old.floor
      /\ q.whole = old.whole /\ q.missed = old.missed
      /\ q.shown = IF m[1] \in N!IdsOf(old.shown) THEN old.shown ELSE old.shown \cup {m}
  BY <1>1, <1>2 DEF N!PageRow
<1> HIDE DEF q
<1>5. q.stream # None
  BY <1>2, <1>4, NoticeConstants
<1> HIDE DEF old, m
<1>6. SeenOn(q) \subseteq SeenOn(old) /\ N!IdsOf(SeenOn(q)) = N!IdsOf(SeenOn(old))
  <2>1. Listed(old) = {m} \cup Listed(q)
    BY <1>1, <1>2, <1>4, <1>5 DEF Listed
  <2> QED
    BY <1>4, <2>1 DEF SeenOn, N!IdsOf
<1>7. PageTold(q)
  BY <1>1, <1>4, <1>5, <1>6 DEF PageTold
<1> QED
  BY <1>3, <1>4, <1>7, PageMoves

\* The list holds the newest of the rows that wait: all from its floor on.
LEMMA NewestFrom ==
  ASSUME NoticesInv
  PROVE  LET floor == IF N!Newest = N!Unacknowledged THEN 1
                      ELSE CHOOSE n \in N!Newest : \A m \in N!Newest : n <= m
         IN  /\ N!Newest \subseteq N!Unacknowledged /\ N!Unacknowledged \subseteq N!Stored
             /\ N!Stored \subseteq N!NoticeIds /\ floor \in Nat
             /\ \A n \in N!Unacknowledged : n >= floor => n \in N!Newest
<1> DEFINE U == N!Unacknowledged
           above(n) == {m \in U : m > n}
<1>1. N!Newest \subseteq U /\ U \subseteq N!Stored /\ N!Stored \subseteq N!NoticeIds /\ U \subseteq Nat
  BY NoticeConstants DEF N!Newest, N!Unacknowledged, N!Stored
<1>2. IsFiniteSet(U)
  BY <1>1, NoticeConstants, FS_Subset
<1>3. \A n : IsFiniteSet(above(n)) /\ Cardinality(above(n)) \in Nat
  BY <1>2, FS_Subset, FS_CardinalityType
<1>4. \A n \in U : n \in N!Newest <=> Cardinality(above(n)) < ListLimit
  BY SameCardinality DEF N!Newest
<1> HIDE DEF U
<1>5. ASSUME NEW n \in N!Newest, NEW m \in U, m >= n
      PROVE  m \in N!Newest
  <2>1. above(m) \subseteq above(n)
    <3>1. n \in Nat /\ m \in Nat /\ m >= n /\ U \subseteq Nat
      BY <1>1, <1>5
    <3>2. ASSUME NEW x \in U, x > m
          PROVE  x > n
      <4>1. x \in Nat
        BY <3>1
      <4> QED
        BY ONLY <3>1, <3>2, <4>1
    <3> QED
      BY <3>2
  <2>2. Cardinality(above(m)) <= Cardinality(above(n))
    BY <1>3, <2>1, FS_Subset
  <2>3. Cardinality(above(n)) < ListLimit /\ ListLimit \in Nat
    BY <1>1, <1>4, <1>5, NoticeConstants
  <2> HIDE DEF above
  <2> QED
    BY <1>3, <1>4, <1>5, <2>2, <2>3
<1>6. U # {} => N!Newest # {}
  <2> SUFFICES ASSUME U # {} PROVE N!Newest # {}
    OBVIOUS
  <2> DEFINE depth == {MaxNotices - n : n \in U}
  <2>1. \A n \in U : MaxNotices - n \in Nat /\ n \in Nat
    BY <1>1, NoticeConstants DEF N!NoticeIds
  <2>2. PICK k \in depth : \A x \in depth : k <= x
    <3>1. depth \in SUBSET Nat /\ depth # {}
      BY <2>1
    <3> HIDE DEF depth
    <3> QED
      BY <3>1, LeastNat
  <2>3. PICK n \in U : k = MaxNotices - n
    BY <2>2
  <2>4. ASSUME NEW m \in U
        PROVE  m <= n
    <3>1. k <= MaxNotices - m
      BY <2>2
    <3>2. m \in Nat /\ n \in Nat /\ MaxNotices \in Nat
      BY <2>1, <2>3, NoticeConstants
    <3> QED
      BY ONLY <2>3, <3>1, <3>2
  <2>5. above(n) = {}
    BY <2>1, <2>4
  <2>6. Cardinality(above(n)) = 0
    BY <2>5, FS_EmptySet
  <2> QED
    BY SMTT(30), <1>4, <2>3, <2>6, NoticeConstants
<1>7. CASE N!Newest = U
  BY <1>1, <1>7 DEF U
<1>8. CASE N!Newest # U
  <2>1. N!Newest # {} /\ N!Newest \in SUBSET Nat
    BY <1>1, <1>6, <1>8
  <2>2. \E n \in N!Newest : \A m \in N!Newest : n <= m
    BY <2>1, LeastNat
  <2> DEFINE low == CHOOSE n \in N!Newest : \A m \in N!Newest : n <= m
  <2>3. low \in N!Newest
    BY <2>2
  <2> HIDE DEF low
  <2>4. \A n \in U : n >= low => n \in N!Newest
    BY <1>5, <2>3
  <2> QED
    BY <1>1, <1>8, <2>1, <2>3, <2>4 DEF low, U
<1> QED
  BY <1>7, <1>8

\* list_unacknowledged.
LEMMA ReadListStep ==
  ASSUME NoticesInv, NEW p \in Pages, N!ReadList(p)
  PROVE  NoticesInv'
<1> USE DEF NoticesInv
<1> DEFINE old == page[p]
           floor == IF N!Newest = N!Unacknowledged THEN 1
                    ELSE CHOOSE n \in N!Newest : \A m \in N!Newest : n <= m
           more == {<<n, notices[n].title>> : n \in N!Newest \ N!IdsOf(old.shown)}
           q == [read |-> TRUE, floor |-> floor, stream |-> old.stream,
                 shown |-> old.shown \cup more, whole |-> old.whole /\ old.stream # None,
                 missed |-> old.missed]
<1>1. old \in N!PageRow /\ PageTold(old)
  BY DEF N!ReadList, N!Open, NoticeRows
<1>2. page' = [page EXCEPT ![p] = q] /\ UNCHANGED <<notices, clock, report, phantoms>>
  BY DEF N!ReadList
<1>3. /\ N!Newest \subseteq N!Unacknowledged /\ N!Newest \subseteq N!Stored
      /\ N!Newest \subseteq N!NoticeIds /\ floor \in Nat
      /\ \A n \in N!Unacknowledged : n >= floor => n \in N!Newest
  BY NewestFrom
<1> HIDE DEF floor
<1>4. \A n \in N!Newest : notices[n] \in N!NoticeRow /\ notices[n].title \in Titles
  BY <1>3 DEF NoticeRows, N!Stored, N!NoticeRow
<1>5. more \subseteq N!Message
  BY <1>3, <1>4 DEF N!Message
<1>6. /\ q.read /\ q.floor = floor /\ q.stream = old.stream /\ q.shown = old.shown \cup more
      /\ q.whole = (old.whole /\ old.stream # None) /\ q.missed = old.missed
  OBVIOUS
<1>7. \A m \in more : m[1] \in N!Newest /\ m[2] = notices[m[1]].title
  OBVIOUS
<1>8. ASSUME NEW n \in N!Newest
      PROVE  n \in N!IdsOf(q.shown)
  <2>1. CASE n \in N!IdsOf(old.shown)
    BY <2>1 DEF N!IdsOf
  <2>2. CASE n \notin N!IdsOf(old.shown)
    <3>1. <<n, notices[n].title>> \in q.shown
      BY <2>2
    <3>2. <<n, notices[n].title>>[1] = n
      OBVIOUS
    <3> QED
      BY <3>1, <3>2 DEF N!IdsOf
  <2> QED
    BY <2>1, <2>2
<1>9. q \in N!PageRow
  <2>1. /\ old.stream \in Seq(N!Message) \cup {None} /\ old.shown \in SUBSET N!Message
        /\ old.missed \in SUBSET N!NoticeIds /\ old.whole \in BOOLEAN
    BY <1>1 DEF N!PageRow
  <2>2. (old.whole /\ old.stream # None) \in BOOLEAN
    OBVIOUS
  <2>3. old.shown \cup more \in SUBSET N!Message
    BY <1>5, <2>1
  <2> HIDE DEF old, more
  <2> QED
    BY <1>3, <2>1, <2>2, <2>3 DEF N!PageRow
<1> HIDE DEF old, more, q
<1>10. SeenOn(q) = SeenOn(old) \cup more
  BY <1>6 DEF SeenOn, Listed
<1>11. N!IdsOf(SeenOn(old)) \subseteq N!IdsOf(SeenOn(q)) /\ N!Newest \subseteq N!IdsOf(SeenOn(q))
  BY <1>8, <1>10 DEF N!IdsOf, SeenOn
<1>12. \A m \in more : MessageRight(m)
  BY <1>3, <1>7 DEF MessageRight, NoticeIdsInv
<1>13. PageTold(q)
  BY <1>1, <1>3, <1>6, <1>10, <1>11, <1>12 DEF PageTold
<1> QED
  BY <1>2, <1>9, <1>13, PageMoves

\* Rows are acknowledged, and the page shows them no longer.
LEMMA AckMoves ==
  ASSUME NoticesInv, NEW p \in N!Open, NEW q \in N!PageRow, page' = [page EXCEPT ![p] = q],
         N!Writers = {}, UNCHANGED <<clock, report, phantoms>>,
         q = [page[p] EXCEPT !.shown = q.shown], q.shown \subseteq page[p].shown,
         notices' \in [N!NoticeIds -> N!NoticeRow \cup {None}],
         \A n \in N!NoticeIds :
           /\ notices'[n] = None <=> notices[n] = None
           /\ notices[n] # None => /\ notices'[n].title = notices[n].title
                                   /\ notices'[n].at = notices[n].at
                                   /\ notices[n].ack => notices'[n].ack,
         \A n \in N!Unacknowledged' :
           n \in N!IdsOf(SeenOn(page[p])) => n \in N!IdsOf(SeenOn(q))
  PROVE  NoticesInv'
<1> USE DEF NoticesInv
<1>1. N!Stored' = N!Stored /\ N!Writers' = {} /\ N!Unacknowledged' \subseteq N!Unacknowledged
  BY DEF N!Stored, N!Writers, N!Unacknowledged
<1>2. \A m : MessageRight(m) => MessageRight(m)'
  BY <1>1 DEF MessageRight, N!Stored
<1>3. page[p] \in N!PageRow /\ PageTold(page[p])
  BY DEF N!Open, NoticeRows
<1>4. /\ q.read = page[p].read /\ q.whole = page[p].whole /\ q.floor = page[p].floor
      /\ q.stream = page[p].stream /\ q.missed = page[p].missed
  BY <1>3 DEF N!PageRow
<1>5. SeenOn(q) \subseteq SeenOn(page[p])
  BY <1>4 DEF SeenOn, Listed
<1>6. PageTold(q)'
  <2>1. PageTold(q)' <=>
          /\ q.read /\ q.whole => q.stream # None
          /\ q.read /\ q.whole =>
               \A n \in N!Unacknowledged' : n >= q.floor => n \in N!IdsOf(SeenOn(q)) \cup q.missed
          /\ \A m \in SeenOn(q) : MessageRight(m)'
    BY <1>1 DEF PageTold
  <2> QED
    BY <1>1, <1>2, <1>3, <1>4, <1>5, <2>1 DEF PageTold
<1>7. \A r : PageTold(r) => PageTold(r)'
  BY <1>1, <1>2 DEF PageTold
<1>8. ASSUME NEW o \in N!Open'
      PROVE  PageTold(page[o])'
  <2>1. CASE o = p
    <3>1. page'[o] = q
      BY <2>1 DEF N!Open, NoticeRows
    <3> QED
      BY <1>6, <3>1
  <2>2. CASE o # p
    <3>1. o \in N!Open /\ page'[o] = page[o]
      BY <1>8, <2>2 DEF N!Open, NoticeRows
    <3>2. PageTold(page[o])
      BY <3>1
    <3> QED
      BY <1>7, <3>1, <3>2
  <2> QED
    BY <2>1, <2>2
<1>9. NoticeRows' /\ NoticeIdsInv'
  BY <1>1 DEF NoticeRows, NoticeIdsInv, N!Open, N!Stored
<1>10. OncePerCaller'
  <2>1. \A t, a : RowsAt(t, a)' = RowsAt(t, a) /\ Pending(t, a)' = Pending(t, a)
    BY <1>1 DEF RowsAt, Pending, N!Stored
  <2> QED
    BY <2>1 DEF OncePerCaller
<1> QED
  BY <1>8, <1>9, <1>10

\* acknowledge and acknowledge_all.
LEMMA AcknowledgeStep ==
  ASSUME NoticesInv, NEW p \in Pages, N!Acknowledge(p) \/ N!AcknowledgeAll(p)
  PROVE  NoticesInv'
<1> USE DEF NoticesInv
<1> DEFINE old == page[p]
<1>1. /\ p \in N!Open /\ old \in N!PageRow /\ old.shown \subseteq N!Message
      /\ N!Writers = {} /\ UNCHANGED <<clock, report, phantoms>>
  BY DEF N!Acknowledge, N!AcknowledgeAll, N!Open, NoticeRows, N!PageRow
<1>2. CASE N!Acknowledge(p)
  <2>1. PICK m \in old.shown :
          /\ page' = [page EXCEPT ![p].shown = @ \ {m}]
          /\ notices' = IF notices[m[1]] = None THEN notices
                        ELSE [notices EXCEPT ![m[1]].ack = TRUE]
    BY <1>2 DEF N!Acknowledge
  <2> DEFINE q == [old EXCEPT !.shown = @ \ {m}]
  <2>2. q \in N!PageRow /\ q.shown = old.shown \ {m} /\ q = [old EXCEPT !.shown = q.shown]
    BY <1>1 DEF N!PageRow
  <2>3. page' = [page EXCEPT ![p] = q] /\ q.stream = old.stream
    BY <1>1, <2>1 DEF N!PageRow
  <2> HIDE DEF q, old
  <2>4. m[1] \in N!NoticeIds
    BY <1>1, <2>1 DEF N!Message
  <2>5. notices[m[1]] # None => /\ [notices[m[1]] EXCEPT !.ack = TRUE] \in N!NoticeRow
                                /\ [notices[m[1]] EXCEPT !.ack = TRUE].title = notices[m[1]].title
                                /\ [notices[m[1]] EXCEPT !.ack = TRUE].at = notices[m[1]].at
                                /\ [notices[m[1]] EXCEPT !.ack = TRUE].ack
    BY <2>4 DEF NoticeRows, N!NoticeRow
  <2>6. /\ notices' \in [N!NoticeIds -> N!NoticeRow \cup {None}]
        /\ \A n \in N!NoticeIds :
             /\ notices'[n] = None <=> notices[n] = None
             /\ notices[n] # None => /\ notices'[n].title = notices[n].title
                                     /\ notices'[n].at = notices[n].at
                                     /\ notices[n].ack => notices'[n].ack
        /\ notices'[m[1]] # None => notices'[m[1]].ack
    <3>1. CASE notices[m[1]] = None
      BY <2>1, <3>1 DEF NoticeRows
    <3>2. CASE notices[m[1]] # None
      <4> PICK row : row = [notices[m[1]] EXCEPT !.ack = TRUE]
        OBVIOUS
      <4>1. notices' = [notices EXCEPT ![m[1]] = row]
        BY <2>1, <3>2
      <4> QED
        BY <2>4, <2>5, <3>2, <4>1, NoticeConstants DEF NoticeRows
    <3> QED
      BY <3>1, <3>2
  <2>7. ASSUME NEW n \in N!Unacknowledged', n \in N!IdsOf(SeenOn(old))
        PROVE  n \in N!IdsOf(SeenOn(q))
    <3>1. n # m[1]
      BY <2>6 DEF N!Unacknowledged, N!Stored
    <3>2. PICK x \in SeenOn(old) : x[1] = n
      BY <2>7 DEF N!IdsOf
    <3>3. x \in SeenOn(q)
      BY <2>2, <2>3, <3>1, <3>2 DEF SeenOn, Listed
    <3> QED
      BY <3>2, <3>3 DEF N!IdsOf
  <2> QED
    BY <1>1, <2>2, <2>3, <2>6, <2>7, AckMoves DEF old
<1>3. CASE N!AcknowledgeAll(p)
  <2>1. /\ page' = [page EXCEPT ![p].shown = {}]
        /\ notices' = [n \in N!NoticeIds |->
                         IF n \in N!Stored THEN [notices[n] EXCEPT !.ack = TRUE] ELSE None]
    BY <1>3 DEF N!AcknowledgeAll
  <2> DEFINE q == [old EXCEPT !.shown = {}]
  <2>2. q \in N!PageRow /\ q.shown = {} /\ q = [old EXCEPT !.shown = q.shown]
    BY <1>1 DEF N!PageRow
  <2>3. page' = [page EXCEPT ![p] = q]
    BY <1>1, <2>1
  <2> HIDE DEF q, old
  <2>4. \A n \in N!Stored : /\ [notices[n] EXCEPT !.ack = TRUE] \in N!NoticeRow
                            /\ [notices[n] EXCEPT !.ack = TRUE].title = notices[n].title
                            /\ [notices[n] EXCEPT !.ack = TRUE].at = notices[n].at
                            /\ [notices[n] EXCEPT !.ack = TRUE].ack
    BY DEF NoticeRows, N!NoticeRow, N!Stored
  <2>5. /\ notices' \in [N!NoticeIds -> N!NoticeRow \cup {None}]
        /\ \A n \in N!NoticeIds :
             /\ notices'[n] = None <=> notices[n] = None
             /\ notices[n] # None => /\ notices'[n].title = notices[n].title
                                     /\ notices'[n].at = notices[n].at
                                     /\ notices[n].ack => notices'[n].ack
        /\ \A n \in N!NoticeIds : notices'[n] # None => notices'[n].ack
    BY <2>1, <2>4, NoticeConstants DEF NoticeRows, N!Stored
  <2>6. N!Unacknowledged' = {}
    BY <2>5 DEF N!Unacknowledged, N!Stored
  <2> QED
    BY <1>1, <2>2, <2>3, <2>5, <2>6, AckMoves DEF old
<1> QED
  BY <1>2, <1>3

\* A caller finds no row of its title within the minute.
LEMMA CheckStep ==
  ASSUME NoticesInv, NEW c \in Callers, N!Check(c)
  PROVE  NoticesInv'
<1> USE DEF NoticesInv
<1>1. PICK t \in Titles :
        /\ \A n \in N!Stored : notices[n].title = t => notices[n].at < clock
        /\ report' = [report EXCEPT ![c] = [pc |-> "checked", title |-> t]]
  BY DEF N!Check
<1>2. report[c] = None /\ UNCHANGED <<notices, clock, page, phantoms>>
  BY DEF N!Check
<1>3. PICK r : r = [pc |-> "checked", title |-> t]
  OBVIOUS
<1>4. report' = [report EXCEPT ![c] = r] /\ r \in N!Report /\ r.pc = "checked" /\ r.title = t
  BY <1>1, <1>3 DEF N!Report
<1>5. /\ N!Stored' = N!Stored /\ N!Open' = N!Open /\ N!Unacknowledged' = N!Unacknowledged
      /\ N!Writers' = N!Writers /\ \A d \in N!Writers : report'[d] = report[d]
  BY <1>2, <1>4 DEF N!Stored, N!Open, N!Unacknowledged, N!Writers, NoticeRows
<1>6. NoticeRows'
  BY <1>2, <1>4, <1>5 DEF NoticeRows
<1>7. NoticeIdsInv'
  BY <1>5 DEF NoticeIdsInv
<1>8. \A m : MessageRight(m) => MessageRight(m)'
  BY <1>2, <1>5 DEF MessageRight
<1>9. \A p \in N!Open' : PageTold(page[p])'
  <2>1. \A q : PageTold(q) => PageTold(q)'
    BY <1>5, <1>8 DEF PageTold
  <2> QED
    BY <1>2, <1>5, <2>1
<1>10. ASSUME NEW u \in Titles, NEW a \in 0..clock
       PROVE  Cardinality(RowsAt(u, a)') + Cardinality(Pending(u, a)') <= Cardinality(Callers)
  <2>1. RowsAt(u, a)' = RowsAt(u, a)
    BY <1>2, <1>5 DEF RowsAt
  <2>2. CASE u = t /\ a = clock
    <3>1. RowsAt(u, a) = {}
      BY <1>1, <1>6, <2>2 DEF RowsAt, NoticeRows, N!Stored, N!NoticeRow
    <3>2. Pending(u, a)' \subseteq Callers
      BY DEF Pending
    <3>3. Cardinality(Pending(u, a)') <= Cardinality(Callers) /\ Cardinality(Pending(u, a)') \in Nat
      BY <3>2, NoticeConstants, FS_Subset, FS_CardinalityType
    <3> QED
      BY <2>1, <3>1, <3>3, FS_EmptySet
  <2>3. CASE ~(u = t /\ a = clock)
    <3>1. Pending(u, a)' = Pending(u, a)
      BY <1>2, <1>4, <2>3 DEF Pending, NoticeRows
    <3> QED
      BY <2>1, <3>1 DEF OncePerCaller
  <2> QED
    BY <2>2, <2>3
<1>11. OncePerCaller'
  BY <1>2, <1>10 DEF OncePerCaller
<1> QED
  BY <1>6, <1>7, <1>9, <1>11

\* A message at the end of a stream.
LEMMA AppendListed ==
  ASSUME NEW s \in Seq(N!Message), NEW m \in N!Message
  PROVE  /\ Append(s, m) \in Seq(N!Message)
         /\ {Append(s, m)[i] : i \in DOMAIN Append(s, m)} = {s[i] : i \in DOMAIN s} \cup {m}
<1> DEFINE more == Append(s, m)
<1>1. /\ more \in Seq(N!Message) /\ DOMAIN more = DOMAIN s \cup {Len(s) + 1}
      /\ \A i \in DOMAIN s : more[i] = s[i]
      /\ more[Len(s) + 1] = m
  OBVIOUS
<1> HIDE DEF more
<1>2. {more[i] : i \in DOMAIN more} = {s[i] : i \in DOMAIN s} \cup {m}
  BY <1>1
<1> QED
  BY <1>1, <1>2 DEF more

\* The row is inserted, and every page that listens hears of it at once.
LEMMA InsertStep ==
  ASSUME NoticesInv, NEW c \in Callers, N!Insert(c)
  PROVE  NoticesInv'
<1> USE DEF NoticesInv
<1>a. PICK id : id = N!NextId
  OBVIOUS
<1>b. PICK t : t = report[c].title
  OBVIOUS
<1>c. PICK r : r = [pc |-> "inserted", title |-> t, id |-> id, at |-> clock]
  OBVIOUS
<1>d. PICK m : m = <<id, t>>
  OBVIOUS
<1> DEFINE new(p) == IF p \in N!Open /\ page[p].stream # None
                     THEN [page[p] EXCEPT !.stream = Append(@, m)] ELSE page[p]
<1>1. /\ report[c] \in N!Report /\ report[c].pc = "checked" /\ N!Writers = {} /\ t \in Titles
      /\ UNCHANGED <<notices, clock, phantoms>>
  BY <1>b DEF N!Insert, NoticeRows, N!Report
<1>2. id \in N!NoticeIds /\ id \notin N!Stored /\ \A n \in N!NoticeIds : n < id => n \in N!Stored
  BY <1>a, NextIdFree, NoticeConstants DEF N!Insert, N!NoticeIds
<1>3. report' = [report EXCEPT ![c] = r] /\ page' = [p \in Pages |-> new(p)]
  BY <1>a, <1>b, <1>c, <1>d DEF N!Insert
<1>4. r \in N!Report /\ r.pc = "inserted" /\ r.title = t /\ r.id = id /\ r.at = clock
  BY <1>1, <1>2, <1>c DEF N!Report, NoticeRows
<1>5. m \in N!Message /\ m[1] = id /\ m[2] = t
  BY <1>1, <1>2, <1>d DEF N!Message
<1>6. /\ N!Stored' = N!Stored /\ N!Unacknowledged' = N!Unacknowledged
      /\ N!Writers' = {c} /\ report'[c] = r
  BY <1>1, <1>3, <1>4, NoticeConstants DEF N!Stored, N!Unacknowledged, N!Writers, NoticeRows
<1>7. ASSUME NEW p \in Pages, p \in N!Open, page[p].stream # None
      PROVE  /\ new(p) \in N!PageRow /\ new(p).read = page[p].read /\ new(p).whole = page[p].whole
             /\ new(p).floor = page[p].floor /\ new(p).missed = page[p].missed
             /\ new(p).stream # None /\ SeenOn(new(p)) = SeenOn(page[p]) \cup {m}
  <2> DEFINE old == page[p]
  <2>1. old \in N!PageRow /\ old.stream \in Seq(N!Message)
    BY <1>7 DEF NoticeRows, N!Open, N!PageRow
  <2>2. /\ Append(old.stream, m) \in Seq(N!Message)
        /\ {Append(old.stream, m)[i] : i \in DOMAIN Append(old.stream, m)} =
             {old.stream[i] : i \in DOMAIN old.stream} \cup {m}
    BY <1>5, <2>1, AppendListed
  <2>3. PICK s : s = Append(old.stream, m)
    OBVIOUS
  <2>4. new(p) = [old EXCEPT !.stream = s]
    BY <1>7, <2>3
  <2>5. /\ new(p) \in N!PageRow /\ new(p).read = old.read /\ new(p).whole = old.whole
        /\ new(p).floor = old.floor /\ new(p).missed = old.missed /\ new(p).shown = old.shown
        /\ new(p).stream = s
    BY <2>1, <2>2, <2>3, <2>4 DEF N!PageRow
  <2>6. s # None
    BY <2>2, <2>3, NoticeConstants
  <2>7. Listed(new(p)) = Listed(old) \cup {m}
    BY <1>7, <2>2, <2>3, <2>5, <2>6 DEF Listed
  <2> QED
    BY <2>5, <2>6, <2>7 DEF SeenOn
<1>8. \A p \in Pages : ~(p \in N!Open /\ page[p].stream # None) => new(p) = page[p]
  OBVIOUS
<1>9. \A p \in Pages : page'[p] = new(p)
  BY <1>3
<1> HIDE DEF new
<1>10. N!Open' = N!Open
  BY <1>7, <1>8, <1>9, NoticeConstants DEF N!Open
<1>11. NoticeRows'
  <2>1. report' \in [Callers -> N!Report \cup {None}]
    BY <1>3, <1>4 DEF NoticeRows
  <2>2. page' \in [Pages -> N!PageRow \cup {None}]
    BY <1>3, <1>7, <1>8 DEF NoticeRows
  <2> QED
    BY <1>1, <1>4, <1>6, <2>1, <2>2 DEF NoticeRows
<1>12. NoticeIdsInv'
  BY <1>2, <1>4, <1>6 DEF NoticeIdsInv
<1>13. ASSUME NEW x, MessageRight(x)
       PROVE  MessageRight(x)'
  <2>1. x[1] = id => x[1] \in phantoms
    BY <1>1, <1>2, <1>13 DEF MessageRight
  <2> QED
    BY <1>1, <1>4, <1>6, <1>13, <2>1 DEF MessageRight
<1>14. MessageRight(m)'
  BY <1>1, <1>2, <1>4, <1>5, <1>6 DEF MessageRight
<1>15. ASSUME NEW p \in N!Open'
       PROVE  PageTold(page[p])'
  <2>1. p \in Pages /\ p \in N!Open /\ PageTold(page[p]) /\ page'[p] = new(p)
    BY <1>9, <1>10 DEF N!Open
  <2>2. CASE page[p].stream # None
    <3>1. SeenOn(new(p)) = SeenOn(page[p]) \cup {m} /\ id \in N!IdsOf(SeenOn(new(p)))
      BY <1>5, <1>7, <2>1, <2>2 DEF N!IdsOf
    <3>2. N!IdsOf(SeenOn(page[p])) \subseteq N!IdsOf(SeenOn(new(p)))
      BY <3>1 DEF N!IdsOf
    <3>3. PICK q : q = new(p)
      OBVIOUS
    <3>4. PageTold(q)'
      BY <1>4, <1>6, <1>7, <1>13, <1>14, <2>1, <2>2, <3>1, <3>2, <3>3 DEF PageTold
    <3> QED
      BY <2>1, <3>3, <3>4
  <2>3. CASE page[p].stream = None
    <3>1. PICK q : q = page[p]
      OBVIOUS
    <3>2. PageTold(q)'
      BY <1>6, <1>13, <2>1, <2>3, <3>1 DEF PageTold
    <3> QED
      BY <1>8, <2>1, <2>3, <3>1, <3>2
  <2> QED
    BY <2>2, <2>3
<1>16. OncePerCaller'
  <2>1. ASSUME NEW u, NEW a
        PROVE  RowsAt(u, a)' = RowsAt(u, a) /\ Pending(u, a)' = Pending(u, a)
    <3>1. RowsAt(u, a)' = RowsAt(u, a)
      BY <1>1, <1>6 DEF RowsAt
    <3>2. report[c] # None /\ report'[c] # None
      BY <1>1, <1>4, <1>6, NoticeConstants
    <3>3. \A d \in Callers : d # c => report'[d] = report[d]
      BY <1>3 DEF NoticeRows
    <3>4. ASSUME NEW d \in Callers
          PROVE  d \in Pending(u, a)' <=> d \in Pending(u, a)
      BY <1>1, <1>4, <1>6, <1>b, <3>2, <3>3 DEF Pending
    <3>5. Pending(u, a)' \subseteq Callers /\ Pending(u, a) \subseteq Callers
      BY DEF Pending
    <3> QED
      BY <3>1, <3>4, <3>5
  <2> QED
    BY <1>1, <2>1 DEF OncePerCaller
<1> QED
  BY <1>11, <1>12, <1>15, <1>16

\* The row is committed: its writer is one of the rows of its title and minute.
LEMMA CommitStep ==
  ASSUME NoticesInv, NEW c \in Callers, N!Commit(c)
  PROVE  NoticesInv'
<1> USE DEF NoticesInv
<1>1. /\ c \in N!Writers /\ report[c] \in N!Report /\ report[c].pc = "inserted"
      /\ report' = [report EXCEPT ![c] = None] /\ UNCHANGED <<clock, page, phantoms>>
  BY DEF N!Commit, N!Writers, NoticeRows
<1>2. PICK id : id = report[c].id
  OBVIOUS
<1>3. PICK t : t = report[c].title
  OBVIOUS
<1>4. PICK at0 : at0 = report[c].at
  OBVIOUS
<1>5. id \in N!NoticeIds /\ t \in Titles /\ at0 \in Nat /\ at0 <= clock
  BY <1>1, <1>2, <1>3, <1>4 DEF N!Report, NoticeRows
<1>6. id \notin N!Stored /\ \A n \in N!NoticeIds : n < id => n \in N!Stored
  BY <1>1, <1>2 DEF NoticeIdsInv
<1>7. PICK row : row = [title |-> t, at |-> at0, ack |-> FALSE]
  OBVIOUS
<1>8. notices' = [notices EXCEPT ![id] = row]
  BY <1>2, <1>3, <1>4, <1>7 DEF N!Commit
<1>9. row \in N!NoticeRow /\ row.title = t /\ row.at = at0 /\ row # None
  <2>1. row \in N!NoticeRow
    BY <1>5, <1>7 DEF N!NoticeRow
  <2> QED
    BY <1>7, <2>1, NoticeConstants
<1>10. /\ N!Stored' = N!Stored \cup {id} /\ notices'[id] = row
       /\ \A n \in N!Stored : notices'[n] = notices[n] /\ n # id
  BY <1>5, <1>6, <1>8, <1>9 DEF N!Stored, NoticeRows
<1>11. N!Writers' = {} /\ N!Open' = N!Open
  BY <1>1 DEF N!Writers, N!Open, NoticeIdsInv, NoticeRows
<1>12. NoticeRows'
  <2>1. notices' \in [N!NoticeIds -> N!NoticeRow \cup {None}]
    BY <1>8, <1>9 DEF NoticeRows
  <2>2. report' \in [Callers -> N!Report \cup {None}]
    BY <1>1 DEF NoticeRows
  <2> QED
    BY <1>1, <1>5, <1>9, <1>10, <1>11, <2>1, <2>2 DEF NoticeRows
<1>13. NoticeIdsInv'
  BY <1>5, <1>6, <1>10, <1>11, NoticeConstants DEF NoticeIdsInv, N!Stored
<1>14. ASSUME NEW x, MessageRight(x)
       PROVE  MessageRight(x)'
  BY <1>1, <1>2, <1>3, <1>9, <1>10, <1>11, <1>14 DEF MessageRight, NoticeIdsInv
<1>15. N!Unacknowledged' \subseteq N!Unacknowledged \cup {id}
  BY <1>10 DEF N!Unacknowledged
<1>16. ASSUME NEW p \in N!Open'
       PROVE  PageTold(page[p])'
  <2>1. PICK q : q = page[p]
    OBVIOUS
  <2>2. p \in N!Open /\ PageTold(q)
    BY <1>11, <2>1
  <2>3. PageTold(q)'
    BY <1>1, <1>2, <1>11, <1>14, <1>15, <2>2 DEF PageTold
  <2> QED
    BY <1>1, <2>1, <2>3
<1>17. ASSUME NEW u \in Titles, NEW a \in 0..clock
       PROVE  Cardinality(RowsAt(u, a)') + Cardinality(Pending(u, a)') <= Cardinality(Callers)
  <2>1. Cardinality(RowsAt(u, a)) + Cardinality(Pending(u, a)) <= Cardinality(Callers)
    BY DEF OncePerCaller
  <2>2. report'[c] = None /\ \A d \in Callers : d # c => report'[d] = report[d]
    BY <1>1 DEF NoticeRows
  <2>3. c \in Pending(u, a) <=> (u = t /\ a = at0)
    BY <1>1, <1>3, <1>4, NoticeConstants DEF Pending
  <2>4. Pending(u, a)' = Pending(u, a) \ {c}
    <3>1. \A d \in Callers : d # c => (d \in Pending(u, a)' <=> d \in Pending(u, a))
      BY <1>1, <2>2 DEF Pending
    <3>2. c \notin Pending(u, a)'
      BY <2>2 DEF Pending
    <3>3. Pending(u, a)' \subseteq Callers /\ Pending(u, a) \subseteq Callers
      BY DEF Pending
    <3> QED
      BY <3>1, <3>2, <3>3
  <2>5. id \notin RowsAt(u, a) /\ RowsAt(u, a)' = IF u = t /\ a = at0 THEN RowsAt(u, a) \cup {id}
                                                  ELSE RowsAt(u, a)
    BY <1>6, <1>9, <1>10 DEF RowsAt
  <2>6. IsFiniteSet(RowsAt(u, a)) /\ IsFiniteSet(Pending(u, a))
        /\ Cardinality(RowsAt(u, a)) \in Nat /\ Cardinality(Pending(u, a)) \in Nat
    BY CountsFinite
  <2>7. CASE u = t /\ a = at0
    <3>1. Cardinality(RowsAt(u, a)') = Cardinality(RowsAt(u, a)) + 1
      BY <2>5, <2>6, <2>7, FS_AddElement
    <3>2. Cardinality(Pending(u, a)') = Cardinality(Pending(u, a)) - 1
      BY ZenonT(40), <2>3, <2>4, <2>6, <2>7, FS_RemoveElement
    <3> QED
      BY <2>1, <2>6, <3>1, <3>2, NoticeConstants
  <2>8. CASE ~(u = t /\ a = at0)
    <3>1. RowsAt(u, a)' = RowsAt(u, a) /\ Pending(u, a)' = Pending(u, a)
      BY <2>3, <2>4, <2>5, <2>8
    <3> QED
      BY <2>1, <3>1
  <2> QED
    BY <2>7, <2>8
<1>18. OncePerCaller'
  BY <1>1, <1>17 DEF OncePerCaller
<1> QED
  BY <1>12, <1>13, <1>16, <1>18

\* The commit fails: the id is free again, and the messages of it are out.
LEMMA RollbackStep ==
  ASSUME NoticesInv, NEW c \in Callers, N!Rollback(c)
  PROVE  NoticesInv'
<1> USE DEF NoticesInv
<1>1. /\ c \in N!Writers /\ report[c] \in N!Report /\ report[c].pc = "inserted"
      /\ report' = [report EXCEPT ![c] = None] /\ UNCHANGED <<clock, page, notices>>
  BY DEF N!Rollback, N!Writers, NoticeRows
<1>2. PICK id : id = report[c].id
  OBVIOUS
<1>3. id \in N!NoticeIds /\ phantoms' = phantoms \cup {id}
  BY <1>1, <1>2 DEF N!Report, N!Rollback
<1>4. /\ N!Writers' = {} /\ N!Open' = N!Open /\ N!Stored' = N!Stored
      /\ N!Unacknowledged' = N!Unacknowledged
  BY <1>1 DEF N!Writers, N!Open, N!Stored, N!Unacknowledged, NoticeIdsInv, NoticeRows
<1>5. NoticeRows' /\ NoticeIdsInv'
  BY <1>1, <1>3, <1>4 DEF NoticeRows, NoticeIdsInv
<1>6. ASSUME NEW x, MessageRight(x)
      PROVE  MessageRight(x)'
  BY <1>1, <1>2, <1>3, <1>4, <1>6 DEF MessageRight, NoticeIdsInv
<1>7. ASSUME NEW p \in N!Open'
      PROVE  PageTold(page[p])'
  <2>1. PICK q : q = page[p]
    OBVIOUS
  <2>2. p \in N!Open /\ PageTold(q)
    BY <1>4, <2>1
  <2>3. PageTold(q)'
    BY <1>4, <1>6, <2>2 DEF PageTold
  <2> QED
    BY <1>1, <2>1, <2>3
<1>8. ASSUME NEW u \in Titles, NEW a \in 0..clock
      PROVE  Cardinality(RowsAt(u, a)') + Cardinality(Pending(u, a)') <= Cardinality(Callers)
  <2>1. Cardinality(RowsAt(u, a)) + Cardinality(Pending(u, a)) <= Cardinality(Callers)
    BY DEF OncePerCaller
  <2>2. RowsAt(u, a)' = RowsAt(u, a)
    BY <1>1, <1>4 DEF RowsAt
  <2>3. Pending(u, a)' \subseteq Pending(u, a)
    BY <1>1 DEF Pending, NoticeRows
  <2>4. Cardinality(Pending(u, a)') <= Cardinality(Pending(u, a))
        /\ Cardinality(Pending(u, a)') \in Nat
    BY <2>3, CountsFinite, FS_Subset, FS_CardinalityType
  <2> QED
    BY <2>1, <2>2, <2>4, CountsFinite, NoticeConstants
<1>9. OncePerCaller'
  BY <1>1, <1>8 DEF OncePerCaller
<1> QED
  BY <1>5, <1>7, <1>9

\* A minute passes: nothing of the new one is stored yet.
LEMMA TickStep ==
  ASSUME NoticesInv, N!Tick
  PROVE  NoticesInv'
<1> USE DEF NoticesInv
<1>1. clock' = clock + 1 /\ clock \in Nat /\ UNCHANGED <<notices, report, page, phantoms>>
  BY DEF N!Tick, NoticeRows
<1>2. /\ N!Writers' = N!Writers /\ N!Open' = N!Open /\ N!Stored' = N!Stored
      /\ N!Unacknowledged' = N!Unacknowledged /\ \A x : MessageRight(x)' <=> MessageRight(x)
  BY <1>1 DEF N!Writers, N!Open, N!Stored, N!Unacknowledged, MessageRight
<1>3. \A q : PageTold(q)' <=> PageTold(q)
  BY <1>1, <1>2 DEF PageTold
<1>4. \A p \in N!Open' : PageTold(page[p])'
  BY <1>1, <1>2, <1>3
<1>5. NoticeRows' /\ NoticeIdsInv'
  <2>1. \A n \in N!Stored : notices[n].at \in Nat
    BY DEF NoticeRows, N!Stored, N!NoticeRow
  <2>2. \A d \in N!Writers : report[d].at \in Nat
    BY DEF NoticeRows, N!Writers, N!Report
  <2> QED
    BY <1>1, <1>2, <2>1, <2>2 DEF NoticeRows, NoticeIdsInv
<1>6. ASSUME NEW u \in Titles, NEW a \in 0..clock'
      PROVE  Cardinality(RowsAt(u, a)') + Cardinality(Pending(u, a)') <= Cardinality(Callers)
  <2>1. RowsAt(u, a)' = RowsAt(u, a)
    BY <1>1, <1>2 DEF RowsAt
  <2>2. CASE a = clock + 1
    <3>1. RowsAt(u, a) = {}
      BY <1>1, <2>2 DEF RowsAt, NoticeRows, N!Stored, N!NoticeRow
    <3>2. Pending(u, a)' \subseteq Callers
      BY DEF Pending
    <3>3. Cardinality(Pending(u, a)') <= Cardinality(Callers) /\ Cardinality(Pending(u, a)') \in Nat
      BY <3>2, NoticeConstants, FS_Subset, FS_CardinalityType
    <3> QED
      BY <2>1, <3>1, <3>3, FS_EmptySet
  <2>3. CASE a \in 0..clock
    <3>1. Cardinality(RowsAt(u, a)) + Cardinality(Pending(u, a)) <= Cardinality(Callers)
      BY <2>3 DEF OncePerCaller
    <3>2. Pending(u, a)' \subseteq Pending(u, a)
      BY <1>1, <2>3 DEF Pending
    <3>3. Cardinality(Pending(u, a)') <= Cardinality(Pending(u, a))
          /\ Cardinality(Pending(u, a)') \in Nat
      BY <3>2, CountsFinite, FS_Subset, FS_CardinalityType
    <3> QED
      BY <2>1, <3>1, <3>3, CountsFinite, NoticeConstants
  <2> QED
    BY <1>1, <2>2, <2>3
<1>7. OncePerCaller'
  BY <1>6 DEF OncePerCaller
<1> QED
  BY <1>4, <1>5, <1>7

\* Every step of the notices keeps the invariant, and so does a step of another part.
LEMMA NoticesStep == NoticesInv /\ [N!Next]_nvars => NoticesInv'
<1> SUFFICES ASSUME NoticesInv, [N!Next]_nvars PROVE NoticesInv'
  OBVIOUS
<1>1. ASSUME NEW c \in Callers, N!Check(c) \/ N!Insert(c) \/ N!Commit(c) \/ N!Rollback(c)
      PROVE  NoticesInv'
  BY <1>1, CheckStep, InsertStep, CommitStep, RollbackStep
<1>2. ASSUME NEW p \in Pages,
             \/ N!OpenPage(p) \/ N!ReadList(p) \/ N!Subscribe(p) \/ N!Receive(p)
             \/ N!Break(p) \/ N!ClosePage(p) \/ N!Acknowledge(p) \/ N!AcknowledgeAll(p)
      PROVE  NoticesInv'
  BY <1>2, PageOpens, ReadListStep, ReceiveStep, AcknowledgeStep
<1>3. CASE UNCHANGED nvars
  <2>1. UNCHANGED <<notices, clock, report, page, phantoms>>
    BY <1>3 DEF nvars, N!vars
  <2>2. /\ N!Writers' = N!Writers /\ N!Open' = N!Open /\ N!Stored' = N!Stored
        /\ N!Unacknowledged' = N!Unacknowledged /\ \A x : MessageRight(x)' <=> MessageRight(x)
    BY <2>1 DEF N!Writers, N!Open, N!Stored, N!Unacknowledged, MessageRight
  <2>3. \A q : PageTold(q)' <=> PageTold(q)
    BY <2>1, <2>2 DEF PageTold
  <2>4. \A p \in N!Open' : PageTold(page[p])'
    BY <2>1, <2>2, <2>3 DEF NoticesInv
  <2>5. NoticeRows' /\ NoticeIdsInv'
    BY <2>1, <2>2 DEF NoticesInv, NoticeRows, NoticeIdsInv
  <2>6. OncePerCaller'
    BY <2>1, <2>2 DEF NoticesInv, OncePerCaller, RowsAt, Pending
  <2> QED
    BY <2>4, <2>5, <2>6 DEF NoticesInv
<1> QED
  BY <1>1, <1>2, <1>3, TickStep DEF N!Next

\* The invariant of the notices.
LEMMA NoticesCorrect == Spec => []NoticesInv
<1>1. Init => NoticesInv
  BY NoticesInit DEF Init
<1>2. NoticesInv /\ [Next]_vars => NoticesInv'
  BY NoticesStep, StepOfParts
<1> QED
  BY <1>1, <1>2, PTL DEF Spec

\* It gives the types and what the pages are told.
LEMMA NoticesMet == NoticesInv => N!TypeOK /\ N!NoticesTold
<1> SUFFICES ASSUME NoticesInv PROVE N!TypeOK /\ N!NoticesTold
  OBVIOUS
<1> USE DEF NoticesInv
<1>1. N!TypeOK
  <2>1. \A n \in N!Stored : notices[n].title \in Titles /\ notices[n].at \in 0..clock
    BY DEF NoticeRows, N!Stored, N!NoticeRow
  <2>2. N!Cardinality(N!Writers) <= 1
    <3> USE SameCardinality
    <3>1. CASE N!Writers = {}
      BY <3>1, FS_EmptySet
    <3>2. CASE N!Writers # {}
      <4>1. PICK c \in N!Writers : TRUE
        BY <3>2
      <4>2. N!Writers = {c}
        BY <4>1 DEF NoticeIdsInv
      <4>3. Cardinality(N!Writers) = 1
        BY <4>2, FS_Singleton
      <4>4. N!Cardinality(N!Writers) = Cardinality(N!Writers)
        OBVIOUS
      <4> QED
        BY <4>3, <4>4
    <3> QED
      BY <3>1, <3>2
  <2> QED
    BY <2>1, <2>2 DEF N!TypeOK, NoticeIdsInv
<1>2. \A p \in N!Open : SeenOn(page[p]) = page[p].shown \cup N!Queued(p)
  BY DEF SeenOn, Listed, N!Queued
<1>3. \A p \in N!Open : page[p].read /\ page[p].whole =>
        \A n \in N!Unacknowledged :
          n >= page[p].floor => n \in N!IdsOf(page[p].shown \cup N!Queued(p)) \cup page[p].missed
  BY <1>2 DEF PageTold
<1>4. \A p \in N!Open : \A m \in page[p].shown \cup N!Queued(p) :
        m[1] \in N!Stored \ phantoms => notices[m[1]].title = m[2]
  BY <1>2 DEF PageTold, MessageRight
<1>5. ASSUME NEW n \in N!Stored
      PROVE  N!Cardinality({m \in N!Stored : notices[m].title = notices[n].title
                                             /\ notices[m].at = notices[n].at})
               <= N!Cardinality(Callers)
  <2>1. PICK t \in Titles, a \in 0..clock : t = notices[n].title /\ a = notices[n].at
    BY DEF NoticeRows, N!Stored, N!NoticeRow
  <2>2. RowsAt(t, a) = {m \in N!Stored : notices[m].title = notices[n].title
                                        /\ notices[m].at = notices[n].at}
    BY <2>1 DEF RowsAt
  <2>3. Cardinality(RowsAt(t, a)) <= Cardinality(Callers)
    <3>1. Cardinality(RowsAt(t, a)) + Cardinality(Pending(t, a)) <= Cardinality(Callers)
      BY DEF OncePerCaller
    <3> QED
      BY <3>1, CountsFinite, NoticeConstants
  <2> QED
    BY <2>2, <2>3, SameCardinality
<1>6. N!NoticesTold
  BY <1>3, <1>4, <1>5 DEF N!NoticesTold
<1> QED
  BY <1>1, <1>6

-----------------------------------------------------------------------------
(* Routes, people, pushes: Pushes *)

\* What a request in flight is about to write.
EditRequest ==
  [op : {"update_route"}, id : RouteIds, loaded : BOOLEAN, on : BOOLEAN, people : SUBSET PersonIds]
  \cup [op : {"delete_route"}, id : RouteIds]
  \cup [op : {"delete_person"}, id : PersonIds]

\* What became of a message on one route.
Outcome == [tries : Nat, got : Nat, ok : BOOLEAN, at : SUBSET PersonIds]

PushRows ==
  /\ route \in [RouteIds -> P!RouteRow \cup {None}]
  /\ person \in [PersonIds -> P!PersonRow \cup {None}]
  /\ bound \subseteq [route : RouteIds, person : PersonIds, meant : Nat]
  /\ edit \in [Editors -> EditRequest \cup {None}]
  /\ edits \in Nat

\* A route binds a person once; who was meant is still there under the id.
Bindings ==
  /\ \A b, c \in bound : b.route = c.route /\ b.person = c.person => b = c
  /\ \A b \in bound : b.meant # 0 =>
       person[b.person] # None /\ b.meant = person[b.person].who

\* The fields of a push, and where it is.
PushFields ==
  /\ push = [pc |-> push.pc, score |-> push.score, about |-> push.about, for |-> push.for,
             author |-> push.author, routes |-> push.routes, own |-> push.own,
             sent |-> push.sent, done |-> push.done]
  /\ push.pc \in {"routes", "next", "send", "failed"}
  /\ push.author \in PersonIds \cup {None}
  /\ Len(push.routes) \in Nat /\ DOMAIN push.routes = 1..Len(push.routes)
  /\ \A i \in DOMAIN push.routes :
       push.routes[i].people \subseteq [id : PersonIds, known : P!KnownOn]
  /\ push.done \in Seq(Outcome) /\ push.sent \in Nat

Tried ==
  /\ push.pc = "routes" => push.done = <<>> /\ push.routes = <<>>
  /\ push.pc = "send" =>
       /\ push.done # <<>> /\ ~push.done[Len(push.done)].ok
       /\ push.done[Len(push.done)].tries < Attempts
  /\ P!EachRouteTried

PushesInv == PushRows /\ Bindings /\ (push # None => PushFields /\ Tried)

\* What the proofs use of the constants.
LEMMA PushConstants ==
  /\ RouteIds \subseteq Nat /\ PersonIds \subseteq Nat /\ IsFiniteSet(RouteIds)
  /\ Kinds \subseteq P!RouteRow /\ Attempts \in Nat \ {0}
  /\ None \notin P!RouteRow /\ None \notin P!PersonRow /\ None \notin PersonIds
<1>1. IsFiniteSet(RouteIds)
  BY ConsoleAssumption DEF P!PushesAssumption, P!IsFiniteSet, IsFiniteSet
<1> QED
  BY <1>1, ConsoleAssumption DEF P!PushesAssumption

\* Nothing is bound, nothing is under way.
LEMMA PushesInit == P!Init => PushesInv
BY DEF P!Init, PushesInv, PushRows, Bindings

\* The bindings of a route are replaced.
LEMMA SyncKeeps ==
  ASSUME PushesInv, NEW r \in RouteIds, NEW people \in SUBSET PersonIds,
         bound' = P!SyncMembers(r, people), UNCHANGED person
  PROVE  bound' \subseteq [route : RouteIds, person : PersonIds, meant : Nat] /\ Bindings'
<1> USE DEF PushesInv, PushRows
<1>1. \A p \in PersonIds : P!Meant(p) \in Nat
  BY DEF P!Meant, P!PersonRow
<1>2. bound' \subseteq [route : RouteIds, person : PersonIds, meant : Nat]
  BY <1>1 DEF P!SyncMembers
<1>3. ASSUME NEW b \in bound'
      PROVE  \/ b \in bound /\ b.route # r
             \/ b.route = r /\ b.person \in PersonIds /\ b.meant = P!Meant(b.person)
  BY DEF P!SyncMembers
<1>4. ASSUME NEW b \in bound', NEW c \in bound', b.route = c.route, b.person = c.person
      PROVE  b = c
  <2>1. CASE b.route # r
    BY <1>3, <1>4, <2>1 DEF Bindings
  <2>2. CASE b.route = r
    <3>1. b.meant = c.meant
      BY <1>3, <1>4, <2>2
    <3> QED
      BY <1>2, <1>4, <3>1
  <2> QED
    BY <2>1, <2>2
<1>5. ASSUME NEW b \in bound', b.meant # 0
      PROVE  person'[b.person] # None /\ b.meant = person'[b.person].who
  BY <1>3, <1>5 DEF Bindings, P!Meant
<1> QED
  BY <1>2, <1>4, <1>5 DEF Bindings

\* Routes: create_notifier, update_notifier, delete_notifier.
LEMMA RouteStep ==
  ASSUME PushesInv, P!CreateRoute \/ \E e \in Editors : P!UpdateRoute(e) \/ P!DeleteRoute(e)
  PROVE  PushRows' /\ Bindings'
<1> USE DEF PushesInv
<1>1. CASE P!CreateRoute
  <2>1. PICK r \in RouteIds, row \in Kinds, people \in SUBSET PersonIds :
          route' = [route EXCEPT ![r] = row] /\ bound' = P!SyncMembers(r, people)
    BY <1>1 DEF P!CreateRoute
  <2>2. UNCHANGED <<person, edit>> /\ edits' = edits + 1
    BY <1>1 DEF P!CreateRoute
  <2> QED
    BY <2>1, <2>2, SyncKeeps, PushConstants DEF PushRows
<1>2. ASSUME NEW e \in Editors, P!UpdateRoute(e)
      PROVE  PushRows' /\ Bindings'
  <2> DEFINE j == edit[e]
  <2>1. j \in [op : {"update_route"}, id : RouteIds, loaded : BOOLEAN, on : BOOLEAN,
               people : SUBSET PersonIds]
    BY <1>2 DEF P!UpdateRoute, P!Commits, PushRows, EditRequest
  <2>2. UNCHANGED <<person, edits>> /\ edit' \in [Editors -> EditRequest \cup {None}]
    BY <1>2 DEF P!UpdateRoute, P!Commits, PushRows
  <2>3. CASE UNCHANGED <<route, bound>>
    BY <2>2, <2>3 DEF PushRows, Bindings
  <2>4. CASE /\ ~(route[j.id] = None /\ j.on # j.loaded)
             /\ route' = IF j.on = j.loaded THEN route ELSE [route EXCEPT ![j.id].on = j.on]
             /\ bound' = P!SyncMembers(j.id, j.people)
    <3>1. route' \in [RouteIds -> P!RouteRow \cup {None}]
      <4>1. CASE j.on = j.loaded
        BY <2>4, <4>1 DEF PushRows
      <4>2. CASE j.on # j.loaded
        <5>1. route[j.id] \in P!RouteRow
          BY <2>1, <2>4, <4>2 DEF PushRows
        <5>2. [route[j.id] EXCEPT !.on = j.on] \in P!RouteRow
          BY <2>1, <5>1 DEF P!RouteRow
        <5> QED
          BY <2>4, <4>2, <5>2 DEF PushRows
      <4> QED
        BY <4>1, <4>2
    <3> QED
      BY <2>1, <2>2, <2>4, <3>1, SyncKeeps DEF PushRows
  <2> QED
    BY <1>2, <2>3, <2>4 DEF P!UpdateRoute
<1>3. ASSUME NEW e \in Editors, P!DeleteRoute(e)
      PROVE  PushRows' /\ Bindings'
  <2>1. edit[e].id \in RouteIds
    BY <1>3 DEF P!DeleteRoute, P!Commits, PushRows, EditRequest
  <2>2. UNCHANGED <<person, edits>> /\ edit' \in [Editors -> EditRequest \cup {None}]
    BY <1>3 DEF P!DeleteRoute, P!Commits, PushRows
  <2>3. route' \in [RouteIds -> P!RouteRow \cup {None}] /\ bound' = P!SyncMembers(edit[e].id, {})
    BY <1>3 DEF P!DeleteRoute, PushRows
  <2> QED
    BY <2>1, <2>2, <2>3, SyncKeeps DEF PushRows
<1> QED
  BY <1>1, <1>2, <1>3

\* People: create, update, delete.
LEMMA PersonStep ==
  ASSUME PushesInv, P!CreatePerson \/ P!UpdatePerson \/ \E e \in Editors : P!DeletePerson(e)
  PROVE  PushRows' /\ Bindings'
<1> USE PushConstants DEF PushesInv
<1>1. CASE P!CreatePerson
  <2>1. PICK p \in PersonIds, on \in P!KnownOn :
          P!Fresh(person, p) /\ person' = [person EXCEPT ![p] = [known |-> on, who |-> edits']]
    BY <1>1 DEF P!CreatePerson
  <2>2. UNCHANGED <<route, bound, edit>> /\ edits' = edits + 1
    BY <1>1 DEF P!CreatePerson
  <2>3. [known |-> on, who |-> edits'] \in P!PersonRow
    BY <2>2 DEF P!PersonRow, PushRows
  <2>4. person[p] = None
    BY <2>1 DEF P!Fresh
  <2>5. PushRows'
    BY <2>1, <2>2, <2>3 DEF PushRows
  <2>6. \A b \in bound : b.meant # 0 => b.person # p
    BY <2>4 DEF Bindings
  <2> QED
    BY <2>1, <2>2, <2>5, <2>6 DEF PushRows, Bindings
<1>2. CASE P!UpdatePerson
  <2>1. PICK p \in PersonIds, on \in P!KnownOn :
          person[p] # None /\ person' = [person EXCEPT ![p].known = on]
    BY <1>2 DEF P!UpdatePerson
  <2>2. UNCHANGED <<route, bound, edit>> /\ edits' = edits + 1
    BY <1>2 DEF P!UpdatePerson
  <2>3. person[p] \in P!PersonRow
    BY <2>1 DEF PushRows
  <2>4. /\ [person[p] EXCEPT !.known = on] \in P!PersonRow
        /\ [person[p] EXCEPT !.known = on].who = person[p].who
    BY <2>3 DEF P!PersonRow
  <2>5. PushRows'
    BY <2>1, <2>2, <2>4 DEF PushRows
  <2>6. \A q \in PersonIds : person[q] # None =>
          person'[q] # None /\ person'[q].who = person[q].who
    BY <2>1, <2>4 DEF PushRows
  <2> QED
    BY <2>2, <2>5, <2>6 DEF PushRows, Bindings
<1>3. ASSUME NEW e \in Editors, P!DeletePerson(e)
      PROVE  PushRows' /\ Bindings'
  <2>1. UNCHANGED <<route, edits>> /\ edit' \in [Editors -> EditRequest \cup {None}]
    BY <1>3 DEF P!DeletePerson, P!Commits, PushRows
  <2>2. /\ person' = [person EXCEPT ![edit[e].id] = None]
        /\ bound' = {b \in bound : b.person # edit[e].id}
    BY <1>3 DEF P!DeletePerson
  <2>3. PushRows'
    BY <2>1, <2>2 DEF PushRows
  <2> QED
    BY <2>2, <2>3 DEF PushRows, Bindings
<1> QED
  BY <1>1, <1>2, <1>3

\* Requests that load a row.
LEMMA AskEditStep ==
  ASSUME PushesInv,
         \E e \in Editors : P!AskUpdateRoute(e) \/ P!AskDeleteRoute(e) \/ P!AskDeletePerson(e)
  PROVE  PushRows' /\ Bindings'
<1> USE DEF PushesInv
<1>1. PICK e \in Editors, r \in EditRequest : P!Asks(e, r)
  <2>1. PICK e \in Editors : P!AskUpdateRoute(e) \/ P!AskDeleteRoute(e) \/ P!AskDeletePerson(e)
    OBVIOUS
  <2>2. CASE P!AskUpdateRoute(e)
    <3>1. PICK r \in RouteIds, on \in BOOLEAN, people \in SUBSET PersonIds :
            route[r] # None /\ P!Asks(e, [op |-> "update_route", id |-> r, loaded |-> route[r].on,
                                          on |-> on, people |-> people])
      BY <2>2 DEF P!AskUpdateRoute
    <3>2. route[r].on \in BOOLEAN
      BY <3>1 DEF PushRows, P!RouteRow
    <3> QED
      BY <3>1, <3>2 DEF EditRequest
  <2>3. CASE P!AskDeleteRoute(e)
    BY <2>3 DEF P!AskDeleteRoute, EditRequest
  <2>4. CASE P!AskDeletePerson(e)
    BY <2>4 DEF P!AskDeletePerson, EditRequest
  <2> QED
    BY <2>1, <2>2, <2>3, <2>4
<1> QED
  BY <1>1 DEF P!Asks, PushRows, Bindings

\* How many routes have answered; what an attempt adds to it.
Answered(done) == {i \in DOMAIN done : done[i].ok}

\* The answers can be counted.
LEMMA AnsweredFinite ==
  ASSUME NEW done \in Seq(Outcome)
  PROVE  IsFiniteSet(Answered(done)) /\ Cardinality(Answered(done)) \in Nat
<1>1. IsFiniteSet(1..Len(done))
  BY FS_Interval
<1>2. Answered(done) \subseteq 1..Len(done)
  BY DEF Answered
<1> QED
  BY <1>1, <1>2, FS_Subset, FS_CardinalityType

\* A message that waits for its attempts changes no count.
LEMMA AppendWaiting ==
  ASSUME NEW done \in Seq(Outcome), NEW m \in Outcome, ~m.ok
  PROVE  /\ Append(done, m) \in Seq(Outcome) /\ Len(Append(done, m)) = Len(done) + 1
         /\ Append(done, m)[Len(done) + 1] = m
         /\ \A i \in DOMAIN done : Append(done, m)[i] = done[i]
         /\ Answered(Append(done, m)) = Answered(done)
<1>1. /\ Append(done, m) \in Seq(Outcome) /\ Len(Append(done, m)) = Len(done) + 1
      /\ Append(done, m)[Len(done) + 1] = m
      /\ \A i \in DOMAIN done : Append(done, m)[i] = done[i]
      /\ DOMAIN Append(done, m) = DOMAIN done \cup {Len(done) + 1}
  OBVIOUS
<1> QED
  BY <1>1 DEF Answered

\* An attempt.
LEMMA TryCounts ==
  ASSUME NEW done \in Seq(Outcome), done # <<>>, NEW m \in Outcome, ~done[Len(done)].ok
  PROVE  LET next == [done EXCEPT ![Len(done)] = m] IN
         /\ next \in Seq(Outcome) /\ Len(next) = Len(done) /\ DOMAIN next = DOMAIN done
         /\ next[Len(done)] = m
         /\ \A i \in DOMAIN done : i # Len(done) => next[i] = done[i]
         /\ Cardinality(Answered(next)) = Cardinality(Answered(done)) + (IF m.ok THEN 1 ELSE 0)
<1> DEFINE n == Len(done)
           next == [done EXCEPT ![n] = m]
<1>1. n \in DOMAIN done
  OBVIOUS
<1>2. /\ next \in Seq(Outcome) /\ Len(next) = n /\ DOMAIN next = DOMAIN done /\ next[n] = m
      /\ \A i \in DOMAIN done : i # n => next[i] = done[i]
  BY <1>1
<1> HIDE DEF next
<1>3. CASE m.ok
  <2>1. Answered(next) = Answered(done) \cup {n} /\ n \notin Answered(done)
    BY <1>1, <1>2, <1>3 DEF Answered
  <2>2. IsFiniteSet(Answered(done))
    BY AnsweredFinite
  <2>3. Cardinality(Answered(done) \cup {n}) = Cardinality(Answered(done)) + 1
    BY <2>1, <2>2, FS_AddElement
  <2> QED
    BY <1>2, <1>3, <2>1, <2>3 DEF next
<1>4. CASE ~m.ok
  <2>1. Answered(next) = Answered(done)
    BY <1>1, <1>2, <1>4 DEF Answered
  <2>2. Cardinality(Answered(done)) \in Nat
    BY AnsweredFinite
  <2> QED
    BY <1>2, <1>4, <2>1, <2>2 DEF next
<1> QED
  BY <1>3, <1>4

\* The routes a push found keep their order and the people bound to them.
LEMMA RoutesFound ==
  ASSUME PushesInv
  PROVE  LET found == P!RoutesOf(P!Matching) IN
         /\ Len(found) \in Nat /\ DOMAIN found = 1..Len(found)
         /\ \A i \in DOMAIN found : found[i].people \subseteq [id : PersonIds, known : P!KnownOn]
<1> DEFINE n == Cardinality(P!Matching)
           found == P!RoutesOf(P!Matching)
           pick(i) == CHOOSE x \in P!Matching : P!Cardinality({y \in P!Matching : y < x}) = i - 1
           who(r) == {[id |-> b.person, known |-> person[b.person].known] :
                        b \in {x \in bound : x.route = r /\ person[x.person] # None}}
           entry(i) == [id |-> pick(i), row |-> route[pick(i)], people |-> who(pick(i))]
<1>1. n \in Nat
  <2>1. IsFiniteSet(P!Matching)
    BY PushConstants, FS_Subset DEF P!Matching
  <2> QED
    BY <2>1, FS_CardinalityType
<1>2. found = [i \in 1..n |-> entry(i)]
  BY SameCardinality DEF P!RoutesOf
<1>3. \A r : who(r) \subseteq [id : PersonIds, known : P!KnownOn]
  BY DEF PushesInv, PushRows, P!PersonRow
<1> HIDE DEF n, found, pick, who
<1>4. \A i \in 1..n : entry(i).people \subseteq [id : PersonIds, known : P!KnownOn]
  BY <1>3
<1> HIDE DEF entry
<1>5. DOMAIN found = 1..n /\ \A i \in 1..n : found[i] = entry(i)
  BY <1>2
<1>6. Len(found) = n
  BY <1>1, <1>2
<1> QED
  BY <1>1, <1>4, <1>5, <1>6 DEF found

\* dispatch: a push begins ...
LEMMA LaunchStep ==
  ASSUME PushesInv, P!Launch
  PROVE  PushesInv'
<1> USE DEF PushesInv
<1>1. PICK score \in {"low", "good", None}, project \in Projects \cup {None},
           author \in PersonIds \cup {None} :
        push' = [pc |-> "routes", score |-> score, about |-> project, for |-> None,
                 author |-> author, routes |-> <<>>, own |-> {}, sent |-> 0, done |-> <<>>]
  BY DEF P!Launch
<1>2. UNCHANGED <<route, person, bound, edit>> /\ edits' = edits + 1
  BY DEF P!Launch
<1>3. PushRows' /\ Bindings'
  BY <1>2 DEF PushRows, Bindings
<1>4. /\ push'.pc = "routes" /\ push'.author = author /\ push'.routes = <<>> /\ push'.sent = 0
      /\ push'.done = <<>>
  BY <1>1
<1>5. PushFields'
  <2>1. Len(push'.routes) = 0 /\ DOMAIN push'.routes = 1..0
    BY <1>4
  <2>2. push'.done \in Seq(Outcome)
    BY <1>4
  <2>3. Len(push'.routes) \in Nat /\ DOMAIN push'.routes = 1..Len(push'.routes)
    BY <2>1
  <2>4. DOMAIN push'.routes = {}
    BY <2>1
  <2>5. push' = [pc |-> push'.pc, score |-> push'.score, about |-> push'.about, for |-> push'.for,
                 author |-> push'.author, routes |-> push'.routes, own |-> push'.own,
                 sent |-> push'.sent, done |-> push'.done]
    BY <1>1
  <2> QED
    BY <1>4, <2>2, <2>3, <2>4, <2>5 DEF PushFields
<1>6. Tried'
  <2>1. Cardinality({}) = 0
    BY FS_EmptySet
  <2>2. {i \in DOMAIN push'.done : push'.done[i].ok} = {}
    BY <1>4
  <2>3. P!EachRouteTried'
    BY <1>4, <2>1, <2>2, SameCardinality DEF P!EachRouteTried
  <2> QED
    BY <1>4, <2>3 DEF Tried
<1> QED
  BY <1>3, <1>5, <1>6

\* ... finds its routes ...
LEMMA FetchStep ==
  ASSUME PushesInv, P!FetchRoutes
  PROVE  PushesInv'
<1> USE DEF PushesInv
<1> DEFINE found == P!RoutesOf(P!Matching)
<1>1. UNCHANGED <<route, person, bound, edit, edits>> /\ push # None /\ push.pc = "routes"
  BY DEF P!FetchRoutes
<1>2. PushRows' /\ Bindings'
  BY <1>1 DEF PushRows, Bindings
<1>3. /\ push'.pc = "next" /\ push'.routes = found /\ push'.author = push.author
      /\ push'.sent = push.sent /\ push'.done = push.done /\ push'.score = push.score
      /\ push' = [pc |-> push'.pc, score |-> push'.score, about |-> push'.about, for |-> push'.for,
                  author |-> push'.author, routes |-> push'.routes, own |-> push'.own,
                  sent |-> push'.sent, done |-> push'.done]
  BY <1>1 DEF P!FetchRoutes, PushFields
<1>4. PushFields'
  BY <1>1, <1>3, RoutesFound DEF PushFields
<1>5. Tried'
  <2>1. push.done = <<>>
    BY <1>1 DEF Tried
  <2>2. Len(found) \in Nat
    BY RoutesFound
  <2>3. Len(found) \in Nat /\ Len(push'.done) = 0
    BY <1>3, <2>1, <2>2
  <2> QED
    BY <1>1, <1>3, <2>1, <2>3 DEF Tried, P!EachRouteTried
<1> QED
  BY <1>2, <1>4, <1>5

\* ... leaves out one that is not implemented, or composes a message ...
LEMMA ComposeStep ==
  ASSUME PushesInv, P!Skip \/ P!Compose
  PROVE  PushesInv'
<1> USE DEF PushesInv
<1>1. /\ UNCHANGED <<route, person, bound, edit, edits>> /\ push # None /\ push.pc = "next"
      /\ Len(push.done) < Len(push.routes)
  BY DEF P!Skip, P!Compose
<1>2. PushRows' /\ Bindings'
  BY <1>1 DEF PushRows, Bindings
<1>3. PushFields /\ Tried
  BY <1>1
<1>4. PICK at \in SUBSET PersonIds :
        /\ push'.done = Append(push.done, [tries |-> 0, got |-> 0, ok |-> FALSE, at |-> at])
        /\ at # {} => push.score = "low"
        /\ \/ push'.pc = "next" /\ P!Current.row.channel \notin Channels
           \/ push'.pc = "send"
        /\ push'.routes = push.routes /\ push'.author = push.author
        /\ push'.sent = push.sent /\ push'.score = push.score
        /\ push' = [pc |-> push'.pc, score |-> push'.score, about |-> push'.about,
                    for |-> push'.for, author |-> push'.author, routes |-> push'.routes,
                    own |-> push'.own, sent |-> push'.sent, done |-> push'.done]
  <2>1. CASE P!Skip
    <3>1. /\ push' = [push EXCEPT !.done = Append(@, [tries |-> 0, got |-> 0, ok |-> FALSE,
                                                      at |-> {}])]
          /\ P!Current.row.channel \notin Channels
      BY <2>1 DEF P!Skip
    <3>2. push'.done = Append(push.done, [tries |-> 0, got |-> 0, ok |-> FALSE, at |-> {}])
      BY <1>3, <3>1 DEF PushFields
    <3>3. {} \in SUBSET PersonIds
      OBVIOUS
    <3>4. /\ push'.pc = "next"
          /\ push'.routes = push.routes /\ push'.author = push.author
          /\ push'.sent = push.sent /\ push'.score = push.score
          /\ push' = [pc |-> push'.pc, score |-> push'.score, about |-> push'.about,
                      for |-> push'.for, author |-> push'.author, routes |-> push'.routes,
                      own |-> push'.own, sent |-> push'.sent, done |-> push'.done]
      BY <1>1, <1>3, <3>1 DEF PushFields
    <3> QED
      BY <3>1, <3>2, <3>3, <3>4
  <2>2. CASE P!Compose
    <3> DEFINE author == IF push.author = None \/ person[push.author] = None THEN {}
                         ELSE {[id |-> push.author, known |-> person[push.author].known]}
               at == IF P!Current.row.threshold /\ push.score = "low"
                     THEN P!OnChannel(P!Current.people \cup author, P!Current.row.channel) ELSE {}
    <3>1. push' = [push EXCEPT !.pc = "send", !.done = Append(@, [tries |-> 0, got |-> 0,
                                                            ok |-> FALSE, at |-> at])]
      BY <2>2 DEF P!Compose
    <3>2. at \in SUBSET PersonIds
      <4>1. author \subseteq [id : PersonIds, known : P!KnownOn]
        BY <1>3 DEF PushFields, PushRows, P!PersonRow
      <4>2. P!Current.people \subseteq [id : PersonIds, known : P!KnownOn]
        BY <1>1, <1>3 DEF PushFields, P!Current
      <4> QED
        BY <4>1, <4>2 DEF P!OnChannel
    <3>3. at # {} => push.score = "low"
      OBVIOUS
    <3> HIDE DEF at
    <3> QED
      BY <1>3, <3>1, <3>2, <3>3 DEF PushFields
  <2> QED
    BY <2>1, <2>2
<1> DEFINE m == [tries |-> 0, got |-> 0, ok |-> FALSE, at |-> at]
<1>5. m \in Outcome /\ ~m.ok /\ m.tries = 0 /\ m.got = 0 /\ m.at = at
  BY DEF Outcome
<1> HIDE DEF m
<1>6. push'.done = Append(push.done, m)
  BY <1>4 DEF m
<1>7. /\ push'.done \in Seq(Outcome) /\ Len(push'.done) = Len(push.done) + 1
      /\ push'.done[Len(push.done) + 1] = m
      /\ \A i \in DOMAIN push.done : push'.done[i] = push.done[i]
      /\ Answered(push'.done) = Answered(push.done)
  BY <1>3, <1>5, <1>6, AppendWaiting DEF PushFields
<1>8. PushFields'
  BY <1>3, <1>4, <1>7 DEF PushFields
<1>9. Tried'
  <2>1. Len(push.done) \in Nat /\ Len(push.routes) \in Nat
    BY <1>3 DEF PushFields
  <2>2. DOMAIN push.done = 1..Len(push.done) /\ DOMAIN push'.done = 1..Len(push'.done)
    BY <1>3, <1>7 DEF PushFields
  <2>3. Len(push'.done) <= Len(push'.routes)
    BY <1>1, <1>4, <1>7, <2>1
  <2>4. push'.sent = Cardinality(Answered(push'.done))
    BY <1>1, <1>3, <1>4, <1>7, SameCardinality DEF Tried, P!EachRouteTried, Answered
  <2>5. ASSUME NEW i \in DOMAIN push'.done
        PROVE  LET mm == push'.done[i]
                   over == i < Len(push'.done) \/ push'.pc \in {"next", "failed"}
               IN  /\ mm.got <= mm.tries /\ mm.tries <= Attempts
                   /\ over /\ push'.routes[i].row.channel \in Channels =>
                        mm.ok \/ mm.tries = Attempts
                   /\ mm.ok => mm.got > 0
                   /\ mm.at # {} => push'.score = "low"
    <3>1. CASE i \in DOMAIN push.done
      BY <1>1, <1>3, <1>4, <1>7, <3>1 DEF Tried, P!EachRouteTried
    <3>2. CASE i = Len(push.done) + 1
      BY <1>4, <1>5, <1>7, <2>1, <3>2, PushConstants DEF P!Current
    <3> QED
      BY <1>7, <2>1, <2>2, <3>1, <3>2
  <2>6. P!EachRouteTried'
    BY <1>1, <1>4, <2>3, <2>4, <2>5, SameCardinality DEF P!EachRouteTried, Answered
  <2>7. /\ push'.done # <<>> /\ ~push'.done[Len(push'.done)].ok
        /\ push'.done[Len(push'.done)].tries < Attempts
    BY <1>5, <1>7, <2>1, PushConstants
  <2> QED
    BY <1>4, <2>6, <2>7 DEF Tried
<1> QED
  BY <1>2, <1>8, <1>9

\* ... tries it, once more ...
LEMMA TryStep ==
  ASSUME PushesInv, P!Try
  PROVE  PushesInv'
<1> USE DEF PushesInv
<1>1. UNCHANGED <<route, person, bound, edit, edits>> /\ push # None /\ push.pc = "send"
  BY DEF P!Try
<1>2. PushRows' /\ Bindings'
  BY <1>1 DEF PushRows, Bindings
<1>3. PushFields /\ Tried
  BY <1>1
<1> DEFINE n == Len(push.done)
           m == push.done[n]
<1>4. /\ push.done \in Seq(Outcome) /\ push.done # <<>> /\ n \in DOMAIN push.done /\ m \in Outcome
      /\ ~m.ok /\ m.tries < Attempts
  BY <1>1, <1>3 DEF PushFields, Tried
<1>5. PICK arrives \in BOOLEAN, ok \in BOOLEAN :
        /\ ok => arrives
        /\ push' = [push EXCEPT
             !.done[n] = [tries |-> m.tries + 1, got |-> IF arrives THEN m.got + 1 ELSE m.got,
                          ok |-> ok, at |-> m.at],
             !.sent = IF ok THEN @ + 1 ELSE @,
             !.pc = IF ok \/ m.tries + 1 = Attempts THEN "next" ELSE "send"]
  BY DEF P!Try
<1> DEFINE t == [tries |-> m.tries + 1, got |-> IF arrives THEN m.got + 1 ELSE m.got,
                 ok |-> ok, at |-> m.at]
<1>6. /\ t \in Outcome /\ t.tries = m.tries + 1 /\ t.got = (IF arrives THEN m.got + 1 ELSE m.got)
      /\ t.ok = ok /\ t.at = m.at
  BY <1>4 DEF Outcome
<1>7. push' = [push EXCEPT !.done[n] = t, !.sent = IF ok THEN @ + 1 ELSE @,
                           !.pc = IF ok \/ m.tries + 1 = Attempts THEN "next" ELSE "send"]
  BY <1>5
<1> HIDE DEF t
<1>8. /\ push'.done = [push.done EXCEPT ![n] = t]
      /\ push'.sent = (IF ok THEN push.sent + 1 ELSE push.sent)
      /\ push'.pc = (IF ok \/ m.tries + 1 = Attempts THEN "next" ELSE "send")
      /\ push'.routes = push.routes /\ push'.author = push.author /\ push'.score = push.score
      /\ push' = [pc |-> push'.pc, score |-> push'.score, about |-> push'.about,
                  for |-> push'.for, author |-> push'.author, routes |-> push'.routes,
                  own |-> push'.own, sent |-> push'.sent, done |-> push'.done]
  BY <1>3, <1>7 DEF PushFields
<1>9. /\ push'.done \in Seq(Outcome) /\ Len(push'.done) = n /\ DOMAIN push'.done = DOMAIN push.done
      /\ push'.done[n] = t
      /\ \A i \in DOMAIN push.done : i # n => push'.done[i] = push.done[i]
      /\ Cardinality(Answered(push'.done)) =
           Cardinality(Answered(push.done)) + (IF t.ok THEN 1 ELSE 0)
  BY <1>4, <1>6, <1>8, TryCounts
<1>10. PushFields'
  <2>1. push'.sent \in Nat
    BY <1>3, <1>8 DEF PushFields
  <2>2. push'.pc \in {"routes", "next", "send", "failed"}
    BY <1>8
  <2>3. /\ Len(push'.routes) \in Nat /\ DOMAIN push'.routes = 1..Len(push'.routes)
        /\ push'.author \in PersonIds \cup {None}
        /\ \A i \in DOMAIN push'.routes :
             push'.routes[i].people \subseteq [id : PersonIds, known : P!KnownOn]
    BY <1>3, <1>8 DEF PushFields
  <2> QED
    BY <1>8, <1>9, <2>1, <2>2, <2>3 DEF PushFields
<1>11. Tried'
  <2>1. push'.sent = Cardinality(Answered(push'.done))
    <3>1. push.sent = Cardinality(Answered(push.done))
      BY <1>1, <1>3, SameCardinality DEF Tried, P!EachRouteTried, Answered
    <3>2. push.sent \in Nat
      BY <1>3 DEF PushFields
    <3> QED
      BY <1>6, <1>8, <1>9, <3>1, <3>2
  <2>2. ASSUME NEW i \in DOMAIN push'.done
        PROVE  LET mm == push'.done[i]
                   over == i < Len(push'.done) \/ push'.pc \in {"next", "failed"}
               IN  /\ mm.got <= mm.tries /\ mm.tries <= Attempts
                   /\ over /\ push'.routes[i].row.channel \in Channels =>
                        mm.ok \/ mm.tries = Attempts
                   /\ mm.ok => mm.got > 0
                   /\ mm.at # {} => push'.score = "low"
    <3>1. CASE i # n
      <4>1. i \in DOMAIN push.done /\ push'.done[i] = push.done[i] /\ i < n
        BY <1>4, <1>9, <3>1
      <4> QED
        BY <1>1, <1>3, <1>8, <4>1 DEF Tried, P!EachRouteTried
    <3>2. CASE i = n
      <4>1. m.got <= m.tries /\ m.tries \in Nat /\ m.got \in Nat /\ (m.at # {} => push.score = "low")
        BY <1>1, <1>3, <1>4 DEF Tried, P!EachRouteTried, Outcome
      <4>2. n = Len(push'.done) /\ push'.done[i] = t
        BY <1>9, <3>2
      <4> HIDE DEF m, n
      <4>3. t.got <= t.tries /\ t.tries <= Attempts /\ (t.ok => t.got > 0)
        BY <1>4, <1>5, <1>6, <4>1, PushConstants
      <4>4. push'.pc \in {"next", "failed"} => t.ok \/ t.tries = Attempts
        BY <1>6, <1>8
      <4> QED
        BY <1>6, <1>8, <3>2, <4>1, <4>2, <4>3, <4>4
    <3> QED
      BY <3>1, <3>2
  <2>3. Len(push'.done) <= Len(push'.routes)
    BY <1>1, <1>3, <1>8, <1>9 DEF Tried, P!EachRouteTried
  <2>4. P!EachRouteTried'
    BY <1>1, <1>8, <2>1, <2>2, <2>3, SameCardinality DEF P!EachRouteTried, Answered
  <2>5. push'.pc = "send" => ~push'.done[n].ok /\ push'.done[n].tries < Attempts
    <3>1. m.tries \in Nat
      BY <1>4 DEF Outcome
    <3> QED
      BY SMTT(30), <1>4, <1>6, <1>8, <1>9, <3>1, PushConstants
  <2>6. push'.done # <<>> /\ push'.pc # "routes"
    BY <1>4, <1>8, <1>9
  <2> QED
    BY <1>9, <2>4, <2>5, <2>6 DEF Tried
<1> QED
  BY <1>2, <1>10, <1>11

\* ... or gives up, when a lookup fails.
LEMMA LookupFailsStep ==
  ASSUME PushesInv, P!LookupFails
  PROVE  PushesInv'
<1> USE DEF PushesInv
<1>1. UNCHANGED <<route, person, bound, edit, edits>> /\ push # None
  BY DEF P!LookupFails
<1>2. PushRows' /\ Bindings'
  BY <1>1 DEF PushRows, Bindings
<1>3. PushFields /\ Tried
  BY <1>1
<1>4. \/ push.pc = "routes"
      \/ push.pc = "next" /\ Len(push.done) < Len(push.routes) /\ push.author # None
  BY DEF P!LookupFails
<1>5. /\ push'.pc = "failed"
      /\ push'.routes = push.routes /\ push'.author = push.author
      /\ push'.sent = push.sent /\ push'.score = push.score /\ push'.done = push.done
      /\ push' = [pc |-> push'.pc, score |-> push'.score, about |-> push'.about,
                  for |-> push'.for, author |-> push'.author, routes |-> push'.routes,
                  own |-> push'.own, sent |-> push'.sent, done |-> push'.done]
  BY <1>3 DEF P!LookupFails, PushFields
<1>6. PushFields'
  BY <1>3, <1>5 DEF PushFields
<1>7. push'.routes = <<>> \/ (push'.author # None /\ Len(push'.done) < Len(push'.routes))
  BY <1>3, <1>4, <1>5 DEF Tried
<1>8. push.pc = "routes" => DOMAIN push.done = {}
  BY <1>3 DEF Tried
<1>9. P!EachRouteTried'
  BY <1>1, <1>3, <1>4, <1>5, <1>7, <1>8, SameCardinality DEF Tried, P!EachRouteTried
<1>10. Tried'
  BY <1>5, <1>9 DEF Tried
<1> QED
  BY <1>2, <1>6, <1>10

\* Every step of the pushes keeps the invariant, and so does a step of another part.
LEMMA PushesStep ==
  ASSUME PushesInv, [P!Next]_pvars
  PROVE  PushesInv'
<1> USE DEF PushesInv
<1>1. CASE P!Administer
  <2>1. UNCHANGED push
    BY <1>1 DEF P!Administer, P!CreateRoute, P!CreatePerson, P!UpdatePerson, P!AskUpdateRoute,
                P!AskDeleteRoute, P!AskDeletePerson, P!UpdateRoute, P!DeleteRoute,
                P!DeletePerson, P!Asks, P!Commits
  <2>2. PushRows' /\ Bindings'
    BY <1>1, RouteStep, PersonStep, AskEditStep DEF P!Administer
  <2> QED
    BY <2>1, <2>2 DEF PushFields, Tried, P!EachRouteTried
<1>2. CASE P!Dispatch
  <2>1. CASE P!Return
    BY <2>1 DEF P!Return, PushRows, Bindings
  <2> QED
    BY <1>2, <2>1, LaunchStep, FetchStep, ComposeStep, LookupFailsStep, TryStep
      DEF P!Dispatch
<1>3. CASE UNCHANGED pvars
  BY <1>3 DEF pvars, PushRows, Bindings, PushFields, Tried, P!EachRouteTried
<1> QED
  BY <1>1, <1>2, <1>3 DEF P!Next

\* The invariant holds in every behaviour, and gives what the runs check.
LEMMA PushesCorrect == Spec => []PushesInv
<1>1. Init => PushesInv
  BY PushesInit DEF Init
<1>2. PushesInv /\ [Next]_vars => PushesInv'
  BY StepOfParts, PushesStep
<1> QED
  BY <1>1, <1>2, PTL DEF Spec

\* It gives the types, who is meant, and the attempts on each route.
LEMMA PushesMet ==
  ASSUME PushesInv
  PROVE  P!TypeOK /\ P!NamesMeant /\ P!EachRouteTried
<1>1. P!TypeOK
  BY DEF PushesInv, PushRows, Bindings, P!TypeOK
<1>2. P!NamesMeant
  BY DEF PushesInv, Bindings, P!NamesMeant
<1>3. P!EachRouteTried
  BY DEF PushesInv, Tried, P!EachRouteTried
<1> QED
  BY <1>1, <1>2, <1>3

-----------------------------------------------------------------------------
(* The parts together *)

\* No write undoes what its guard is there for, however many requests overlap:
\* the last administrator, a role that edits and cannot view, a secret under a
\* mask (users.py, roles.py, forges.py, models.py).
THEOREM WritesAlwaysGuarded == Spec => WritesGuarded
<1>1. ConfInv /\ [Next]_vars =>
        [/\ \A p \in C!Platforms :
              forge[p] # None /\ forge'[p].token # forge[p].token =>
                \E c \in Admins : C!At(c, "save_forge") /\ job[c].typed = forge'[p].token
         /\ \A m \in Models :
              model[m] # None /\ model'[m] # None /\ model'[m].key # model[m].key =>
                \E c \in Admins : C!At(c, "save_model") /\ job[c].typed = model'[m].key]_(C!vars)
  BY StepOfParts, TokenTyped, KeyTyped
<1>2. Spec => C!MaskKeepsSecret
  BY <1>1, ConfCorrect, PTL DEF Spec, C!MaskKeepsSecret
<1> QED
  BY <1>2, AccessGuards DEF WritesGuarded

\* A row that waits is on every page that listened before it read the list, a
\* page shows under an id the row of that id, a title is stored within a minute
\* once for each caller; a message names who was meant and is tried on every
\* route it goes to, unless a lookup fails: for any number of callers, pages,
\* routes and people
\* (system_notification_repo.py create, dispatch.py).
THEOREM MessagesAlwaysReach == Spec => []MessagesReach
<1>1. NoticesInv /\ PushesInv => MessagesReach
  BY NoticesMet, PushesMet DEF MessagesReach
<1> QED
  BY <1>1, NoticesCorrect, PushesCorrect, PTL

\* The types of all parts, with the rows that refer to each other (models.py).
THEOREM TypesCorrect == Spec => []TypeOK
<1>1. AccessInv /\ ConfInv /\ NoticesInv /\ PushesInv => TypeOK
  BY AccessTypes, ConfTypes, NoticesMet, PushesMet DEF TypeOK
<1> QED
  BY <1>1, AccessCorrect, ConfCorrect, NoticesCorrect, PushesCorrect, PTL
=============================================================================
