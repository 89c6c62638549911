------------------------------- MODULE Pushes -------------------------------
(***************************************************************************)
(* Messages to chat channels: the routes and the people administrators     *)
(* keep, who is bound to which route, and the dispatch of a message to     *)
(* every route, each with its own attempts.                                *)
(*                                                                         *)
(* The bindings have no foreign keys, and SQLite gives the id of the last  *)
(* row to the next one when that row was deleted.                          *)
(***************************************************************************)
EXTENDS Integers, Sequences, FiniteSets

CONSTANTS
  RouteIds, PersonIds,   \* numbers
  Channels,              \* _SINKS
  Unknown,               \* a channel that is configured and not implemented
  Projects,
  Kinds,                 \* the routes administrators make: a set of RouteRow
  Editors,               \* requests of administrators in flight
  Attempts,              \* attempts: 3
  None,
  MaxAsks                \* bound on edits and pushes together

RouteRow == [channel : Channels \cup {Unknown}, on : BOOLEAN, project : Projects \cup {None},
              threshold : BOOLEAN]
KnownOn   == {Channels, {}}   \* a person with an id on every channel or on none
PersonRow == [known : KnownOn, who : Nat]

PushesAssumption ==
  /\ RouteIds \subseteq Nat /\ PersonIds \subseteq Nat /\ IsFiniteSet(RouteIds)
  /\ None \notin RouteRow \cup PersonRow /\ None \notin PersonIds
  /\ Unknown \notin Channels /\ None \notin Channels \cup Projects
  /\ Kinds \subseteq RouteRow /\ \A kind \in Kinds : kind.on
  /\ Attempts \in Nat \ {0} /\ MaxAsks \in Nat

VARIABLES
  route,    \* notifier_config: [channel, on, project, threshold] or None
  person,   \* notifier_member: the channels the person is known on, and who it
            \* is (a number no two rows share), or None
  bound,    \* notifier_route_member: [route, person, meant]; meant is who the
            \* person was when the binding was written, 0 where there was none
  edit,     \* what a request is at, or None
  push,     \* the message under way, or None
  edits     \* edits and pushes so far

vars == <<route, person, bound, edit, push, edits>>

\* SQLite: one more than the largest id.
Fresh(rows, n) == /\ rows[n] = None
                  /\ \A m \in DOMAIN rows : IF m < n THEN \E k \in DOMAIN rows : k >= m /\ rows[k] # None
                                            ELSE rows[m] = None
Meant(p) == IF person[p] = None THEN 0 ELSE person[p].who

\* _sync_members: the bindings of a route are written anew, whatever the ids.
SyncMembers(r, people) ==
  {b \in bound : b.route # r} \cup {[route |-> r, person |-> p, meant |-> Meant(p)] : p \in people}

-----------------------------------------------------------------------------
(* notifiers.py and notifier_members.py *)

Asks(e, r) ==
  /\ edit[e] = None
  /\ edits < MaxAsks /\ edits' = edits + 1
  /\ edit' = [edit EXCEPT ![e] = r]
  /\ UNCHANGED <<route, person, bound, push>>

Commits(e, op) ==
  /\ edit[e] # None /\ edit[e].op = op
  /\ edit' = [edit EXCEPT ![e] = None]
  /\ UNCHANGED <<push, edits>>

\* create_notifier reads nothing before it writes.
CreateRoute ==
  /\ edits < MaxAsks /\ edits' = edits + 1
  /\ \E r \in RouteIds, row \in Kinds, people \in SUBSET PersonIds :
       /\ Fresh(route, r)
       /\ route' = [route EXCEPT ![r] = row]
       /\ bound' = SyncMembers(r, people)
  /\ UNCHANGED <<person, edit, push>>

AskUpdateRoute(e) ==
  \E r \in RouteIds, on \in BOOLEAN, people \in SUBSET PersonIds :
    route[r] # None /\ Asks(e, [op |-> "update_route", id |-> r, loaded |-> route[r].on,
                               on |-> on, people |-> people])

\* A row that is gone fails the commit only where a field of it has changed.
UpdateRoute(e) ==
  LET j == edit[e] IN
  /\ Commits(e, "update_route")
  /\ IF route[j.id] = None /\ j.on # j.loaded
     THEN UNCHANGED <<route, bound>>
     ELSE /\ route' = IF j.on = j.loaded THEN route ELSE [route EXCEPT ![j.id].on = j.on]
          /\ bound' = SyncMembers(j.id, j.people)
  /\ UNCHANGED person

AskDeleteRoute(e) ==
  \E r \in RouteIds : route[r] # None /\ Asks(e, [op |-> "delete_route", id |-> r])

DeleteRoute(e) ==
  /\ Commits(e, "delete_route")
  /\ route' = [route EXCEPT ![edit[e].id] = None]
  /\ bound' = SyncMembers(edit[e].id, {})
  /\ UNCHANGED person

CreatePerson ==
  /\ edits < MaxAsks /\ edits' = edits + 1
  /\ \E p \in PersonIds, on \in KnownOn :
       Fresh(person, p) /\ person' = [person EXCEPT ![p] = [known |-> on, who |-> edits']]
  /\ UNCHANGED <<route, bound, edit, push>>

UpdatePerson ==
  /\ edits < MaxAsks /\ edits' = edits + 1
  /\ \E p \in PersonIds, on \in KnownOn :
       person[p] # None /\ person' = [person EXCEPT ![p].known = on]
  /\ UNCHANGED <<route, bound, edit, push>>

AskDeletePerson(e) ==
  \E p \in PersonIds : person[p] # None /\ Asks(e, [op |-> "delete_person", id |-> p])

\* Mutant: the bindings stay behind.
DeletePersonOnly(e) ==
  /\ Commits(e, "delete_person")
  /\ person' = [person EXCEPT ![edit[e].id] = None]
  /\ UNCHANGED <<route, bound>>

DeletePerson(e) ==
  /\ Commits(e, "delete_person")
  /\ person' = [person EXCEPT ![edit[e].id] = None]
  /\ bound' = {b \in bound : b.person # edit[e].id}
  /\ UNCHANGED route

Administer ==
  \/ CreateRoute \/ CreatePerson \/ UpdatePerson
  \/ \E e \in Editors : \/ AskUpdateRoute(e) \/ UpdateRoute(e)
                        \/ AskDeleteRoute(e) \/ DeleteRoute(e)
                        \/ AskDeletePerson(e) \/ DeletePerson(e)

-----------------------------------------------------------------------------
(* dispatch and send_markdown *)

\* What a review or a report has to say: a low score, a good one, or none.
\* The worker hands on no project, whichever the review is about.
Launch ==
  /\ push = None /\ edits < MaxAsks /\ edits' = edits + 1
  /\ \E score \in {"low", "good", None}, project \in Projects \cup {None},
        author \in PersonIds \cup {None} :
       /\ IF score = None THEN project = None /\ author = None ELSE project # None
       /\ push' = [pc |-> "routes", score |-> score, about |-> project, for |-> None,
                   author |-> author, routes |-> <<>>, own |-> {}, sent |-> 0, done |-> <<>>]
  /\ UNCHANGED <<route, person, bound, edit>>

\* notifier_routes: what is on, for everyone or for the project handed on,
\* with the people bound to it that exist.
Matching == {r \in RouteIds : /\ route[r] # None /\ route[r].on
                              /\ route[r].project \in {None, push.for}}

RoutesOf(rs) ==
  [i \in 1..Cardinality(rs) |->
     LET r == CHOOSE x \in rs : Cardinality({y \in rs : y < x}) = i - 1
     IN  [id |-> r, row |-> route[r],
          people |-> {[id |-> b.person, known |-> person[b.person].known] :
                        b \in {x \in bound : x.route = r /\ person[x.person] # None}}]]

\* own is for the properties: what is kept for the project of the review.
FetchRoutes ==
  /\ push # None /\ push.pc = "routes"
  /\ push' = [push EXCEPT
       !.pc = "next", !.routes = RoutesOf(Matching),
       !.own = {r \in RouteIds : route[r] # None /\ route[r].on /\ route[r].project = push.about}]
  /\ UNCHANGED <<route, person, bound, edit, edits>>

Current == push.routes[Len(push.done) + 1]

\* build_notifier gives nothing for a channel that is not implemented.
Skip ==
  /\ push # None /\ push.pc = "next" /\ Len(push.done) < Len(push.routes)
  /\ Current.row.channel \notin Channels
  /\ push' = [push EXCEPT !.done = Append(@, [tries |-> 0, got |-> 0, ok |-> FALSE, at |-> {}])]
  /\ UNCHANGED <<route, person, bound, edit, edits>>

\* member_to_platform_id
OnChannel(people, channel) == {p.id : p \in {q \in people : channel \in q.known}}

\* _compose_at looks the author up now; _apply_at_threshold keeps the names
\* only for a score below the threshold.
Compose ==
  /\ push # None /\ push.pc = "next" /\ Len(push.done) < Len(push.routes)
  /\ Current.row.channel \in Channels
  /\ LET author == IF push.author = None \/ person[push.author] = None THEN {}
                   ELSE {[id |-> push.author, known |-> person[push.author].known]}
         at == IF Current.row.threshold /\ push.score = "low"
               THEN OnChannel(Current.people \cup author, Current.row.channel) ELSE {}
     IN  push' = [push EXCEPT !.pc = "send", !.done = Append(@, [tries |-> 0, got |-> 0,
                                                               ok |-> FALSE, at |-> at])]
  /\ UNCHANGED <<route, person, bound, edit, edits>>

\* One attempt: an answer, no delivery, or a delivery whose answer is lost.
Try ==
  LET n == Len(push.done)
      m == push.done[n]
  IN
  /\ push # None /\ push.pc = "send"
  /\ \E arrives, ok \in BOOLEAN :
       /\ ok => arrives
       /\ push' = [push EXCEPT
            !.done[n] = [tries |-> m.tries + 1, got |-> IF arrives THEN m.got + 1 ELSE m.got,
                         ok |-> ok, at |-> m.at],
            !.sent = IF ok THEN @ + 1 ELSE @,
            !.pc = IF ok \/ m.tries + 1 = Attempts THEN "next" ELSE "send"]
  /\ UNCHANGED <<route, person, bound, edit, edits>>

\* The routes and the author are looked up in the database outside the try of
\* a route: a failure ends the dispatch, and the routes left get nothing.
LookupFails ==
  /\ push # None
  /\ \/ push.pc = "routes"
     \/ /\ push.pc = "next" /\ Len(push.done) < Len(push.routes)
        /\ Current.row.channel \in Channels /\ push.author # None
  /\ push' = [push EXCEPT !.pc = "failed"]
  /\ UNCHANGED <<route, person, bound, edit, edits>>

Return ==
  /\ push # None
  /\ push.pc = "failed" \/ (push.pc = "next" /\ Len(push.done) = Len(push.routes))
  /\ push' = None
  /\ UNCHANGED <<route, person, bound, edit, edits>>

Dispatch == Launch \/ FetchRoutes \/ Skip \/ Compose \/ LookupFails \/ Try \/ Return

-----------------------------------------------------------------------------
Init ==
  /\ route = [r \in RouteIds |-> None]
  /\ person = [p \in PersonIds |-> None]
  /\ bound = {}
  /\ edit = [e \in Editors |-> None]
  /\ push = None
  /\ edits = 0

Next == Administer \/ Dispatch

Spec == Init /\ [][Next]_vars

-----------------------------------------------------------------------------
\* Types; a route binds a person once.
TypeOK ==
  /\ \A r \in RouteIds : route[r] # None => route[r] \in RouteRow
  /\ \A b \in bound : b.route \in RouteIds /\ b.person \in PersonIds
  /\ \A b, c \in bound : b.route = c.route /\ b.person = c.person => b = c

\* Who is named in a channel is who was meant: a person whose id was used
\* before inherits no binding of theirs, unless the binding was written for
\* an id without a row (no foreign keys; delete_member, _sync_members).
NamesMeant ==
  \A b \in bound : person[b.person] # None => b.meant \in {0, person[b.person].who}

\* A push leaves no route out for what sending to another one did: each gets
\* one to three attempts and only lost answers repeat a message; names are
\* used for low scores alone (dispatch.py _send_with_retry, dispatch).  What
\* leaves routes out is a failed lookup: of the routes, when none is tried, or
\* of the author between two of them.
EachRouteTried ==
  push # None =>
    /\ Len(push.done) <= Len(push.routes)
    /\ push.pc = "failed" =>
         push.routes = <<>> \/ (push.author # None /\ Len(push.done) < Len(push.routes))
    /\ push.sent = Cardinality({i \in DOMAIN push.done : push.done[i].ok})
    /\ \A i \in DOMAIN push.done :
         LET m == push.done[i]
             over == i < Len(push.done) \/ push.pc \in {"next", "failed"}
         IN  /\ m.got <= m.tries /\ m.tries <= Attempts
             /\ over /\ push.routes[i].row.channel \in Channels => m.ok \/ m.tries = Attempts
             /\ m.ok => m.got > 0
             /\ m.at # {} => push.score = "low"

\* A message about a project is tried on the routes that are that project's
\* own (models.py: a project_id is "the project's override").
ProjectRouteTold ==
  push # None /\ push.pc # "routes" =>
    \A r \in push.own : \E i \in DOMAIN push.routes : push.routes[i].id = r
=============================================================================
