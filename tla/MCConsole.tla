----------------------------- MODULE MCConsole -----------------------------
EXTENDS Console

MCTasks == [project : {1, None}, repo : {"r1"}] \cup [project : {2, None}, repo : {"r2"}]

MCRoleNames == {"admin", "tech_lead", "viewer"} \cup Custom
MCView(m) == <<m, "view">>
MCEdit(m) == <<m, "edit">>

\* What the first start finds, and a database of an earlier version.
MCFresh ==
  [permissions |-> {},
   roles       |-> [r \in MCRoleNames |-> None],
   users       |-> [u \in Users |-> None],
   projects    |-> [p \in Pids |-> None],
   members     |-> {}]

MCOldRole(r) ==
  CASE r = "admin"     -> [is_super |-> TRUE, all_projects |-> TRUE, is_system |-> TRUE,
                           codes |-> {MCView("projects"), MCEdit("users"), MCView("users")}]
    [] r = "viewer"    -> [is_super |-> FALSE, all_projects |-> FALSE, is_system |-> TRUE,
                           codes |-> {MCView("projects"), <<"tasks", "manage">>}]
    [] r = "tech_lead" -> None
    [] OTHER           -> [is_super |-> FALSE, all_projects |-> FALSE, is_system |-> FALSE,
                           codes |-> {MCView("reviews"), MCView("projects"), MCEdit("projects")}]

MCOld ==
  [permissions |-> {MCView("projects"), <<"tasks", "manage">>},
   roles       |-> [r \in MCRoleNames |-> MCOldRole(r)],
   users       |-> [u \in Users |-> [role |-> IF u = "u2" THEN "dev" ELSE "admin", enabled |-> TRUE]],
   projects    |-> [p \in Pids |-> IF p = 1 THEN [repo |-> "r1", blanks |-> FALSE] ELSE None],
   members     |-> {<<1, "u2">>}]

MCDatabases == {MCOld, MCFresh}
MCGrants    == {{}, {MCEdit("reviews")}, {MCView("reviews")}}

\* A secret is typed anew, or masked by whoever switches off.
MCForms == [typed : Secrets, on : {TRUE}] \cup [typed : {Masked}, on : {FALSE}]

\* A route for all projects, one for a project, and one on a channel that is
\* not implemented.
MCKinds ==
  [channel : Channels, on : {TRUE}, project : Projects \cup {None}, threshold : {TRUE}] \cup
  [channel : {Unknown}, on : {TRUE}, project : {None}, threshold : {FALSE}]

MCProviders == <<"gitlab", "github">>
=============================================================================
