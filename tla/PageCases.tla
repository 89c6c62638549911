------------------------------ MODULE PageCases ------------------------------
(***************************************************************************)
(* Rows and questions for the pages of PageOps, one page per behaviour,    *)
(* and how its numbers must add up: with each other, with the rows, and    *)
(* with what another page says of the same rows.  The rows are picked      *)
(* first and the question next.                                            *)
(***************************************************************************)
EXTENDS PageOps

CONSTANTS
  RowsMax,    \* bound: rows of review_task
  ValuesMax   \* bound: durations of a phase

VARIABLES
  shape,   \* "none", "rows of" a page, then the page
  input    \* the rows, then the rows and the question

vars == <<shape, input>>

A == "ann"
B == "bob"
Now == 60          \* Wednesday noon
Owner == [r1 |-> 1, r2 |-> 2]
NoQuestion == [tasks |-> <<>>]

Blank ==
  [id |-> 0, type |-> "mr", state |-> "completed", mode |-> "diff", project |-> 1, repo |-> "r1",
   author |-> A, pusher |-> Nil, commits |-> <<>>, queued |-> 30, created |-> Nil,
   started |-> 31, finished |-> 32, score |-> 80, adds |-> Nil, pr |-> 1, findings |-> 1]

Rows(variants) == UNION {[1..n -> variants] : n \in 1..RowsMax}
Numbered(rows) == [i \in DOMAIN rows |-> [rows[i] EXCEPT !.id = i]]

ListRows ==
  {Blank, [Blank EXCEPT !.finished = 50, !.score = 40, !.findings = 2],
   [Blank EXCEPT !.pr = 2, !.findings = 0], [Blank EXCEPT !.type = "push", !.pr = Nil],
   [Blank EXCEPT !.state = "failed", !.score = 0, !.findings = 0],
   [Blank EXCEPT !.state = "queued", !.mode = Nil, !.started = Nil, !.finished = Nil,
                 !.score = 0, !.findings = 0]}

StatsRows ==
  {[Blank EXCEPT !.mode = m] : m \in {"agentic", "diff", Nil}} \cup
  {[Blank EXCEPT !.queued = 5, !.started = 6, !.finished = 40, !.mode = m] : m \in {"agentic", "diff"}} \cup
  {[Blank EXCEPT !.state = "failed", !.mode = "agentic"],
   [Blank EXCEPT !.state = "running", !.mode = Nil, !.finished = Nil, !.queued = 59],
   [Blank EXCEPT !.started = 33]}

Commit(a, t) == [author |-> a, at |-> t]
WorkRows ==
  {[Blank EXCEPT !.author = a, !.created = t] : a \in {A, B, Nil}, t \in {Nil, 2}} \cup
  {[Blank EXCEPT !.project = 2, !.repo = "r2"], [Blank EXCEPT !.project = Nil],
   [Blank EXCEPT !.project = Nil, !.repo = "r2", !.queued = 5]} \cup
  {[Blank EXCEPT !.type = "push", !.author = Nil, !.pusher = p, !.commits = cs, !.project = 2, !.repo = "r2"] :
     p \in {B, Nil}, cs \in {<<>>, <<Commit(A, 1)>>, <<Commit(Nil, 47), Commit(A, Nil)>>}}

MemberRows ==
  {[Blank EXCEPT !.author = a, !.created = t] : a \in {A, Nil}, t \in {Nil, 2, 49}} \cup
  {[Blank EXCEPT !.author = B, !.score = 75, !.adds = 3],
   [Blank EXCEPT !.mode = Nil, !.adds = 2], [Blank EXCEPT !.state = "failed"],
   [Blank EXCEPT !.type = "push", !.author = Nil, !.pusher = A, !.queued = 23]}

NoFilter == [project |-> Nil, since |-> Nil, author |-> Nil]

-----------------------------------------------------------------------------
PickRows ==
  /\ shape = "none"
  /\ \E page \in {"lists", "stats", "work", "members"} :
       /\ shape' = page \o "?"
       /\ \E rows \in Rows(CASE page = "lists" -> ListRows [] page = "stats" -> StatsRows
                             [] page = "work" -> WorkRows [] OTHER -> MemberRows) :
            input' = [tasks |-> Numbered(rows)]

Asked(page, question) == shape = page \o "?" /\ shape' = page /\ input' = input @@ question

AskList ==
  \E state \in {Nil, "completed"}, least \in {Nil, 50}, from \in {Nil, 40}, limit \in 1..3 :
    Asked("lists", [limit |-> limit,
                    f |-> [state |-> state, least |-> least, from |-> from, to |-> Nil]])

AskStats   == \E days \in 1..3 : Asked("stats", [days |-> days])
AskWork    == \E since \in {Nil, 20} : Asked("work", [f |-> [NoFilter EXCEPT !.since = since]])
AskMembers == \E from \in 0..2, to \in 1..2, tz \in {0, -8, 5} :
                Asked("members", [from |-> from, to |-> to, tz |-> tz])

PickPhase ==
  /\ shape = "none" /\ shape' = "phase"
  /\ \E n \in 1..ValuesMax : \E vals \in [1..n -> {0, 1, 4, 9}] : input' = [vals |-> vals]

\* Commits at the hours of a week, or one on each of several days.
Hours == <<2, 7, 12, 23, 130, 150>>
PickEvents ==
  /\ shape = "none" /\ shape' = "report"
  /\ \E tz \in {0, -8} :
     \/ \E often \in [DOMAIN Hours -> 0..2], other \in SUBSET {1, 4} :
          input' = [tz |-> tz, events |-> FlattenSeq([i \in DOMAIN Hours |->
                      [k \in 1..often[i] |-> [author |-> IF i \in other THEN B ELSE A,
                                              at |-> Hours[i], project |-> 1, repo |-> "r1"]]])]
     \/ \E days \in SUBSET (0..8) :
          input' = [tz |-> tz, events |->
                      [i \in 1..Cardinality(days) |->
                         [author |-> A, at |-> 24 * Ordered(days)[i] + 15, project |-> 1, repo |-> "r1"]]]

PickConversation ==
  /\ shape = "none" /\ shape' = "conversation"
  /\ \E n \in 0..5, limit \in 1..3 : input' = [n |-> n, limit |-> limit]

PickDelete ==
  /\ shape = "none" /\ shape' = "delete"
  /\ \E n \in 0..3 : \E ids \in [1..n -> 1..3], exists, editable \in SUBSET (1..3) :
       input' = [ids |-> ids, exists |-> exists, editable |-> editable]

Init == shape = "none" /\ input = NoQuestion

Next == \/ PickRows \/ AskList \/ AskStats \/ AskWork \/ AskMembers
        \/ PickPhase \/ PickEvents \/ PickConversation \/ PickDelete

Spec == Init /\ [][Next]_vars

-----------------------------------------------------------------------------
Total(f) == SumFunction(f)
Sorted(s, less(_, _)) == \A i \in 1..(Len(s) - 1) : less(s[i], s[i + 1])

\* Paging through the list shows every review that passes once, the newest
\* first; the export has the findings of those and of no other; and what the
\* list shows as ended for a merge request is a round of that merge request.
ListsAgree ==
  LET t == input.tasks
      all == Listed(t, input.f)
      step == Min({input.limit, PageMax})
      pages == FlattenSeq([k \in 1..(Len(t) + 1) |->
                 ListReviews(t, input.f, input.limit, (k - 1) * step).items])
      mrs == MergeRequests(t, input.f)
  IN  /\ pages = all /\ Sorted(all, LAMBDA x, y : x.id > y.id)
      /\ Range(all) = {x \in Range(t) : Passes(x, input.f)}
      /\ {p[1] : p \in Range(Exported(t, input.f))} = {x.id : x \in {y \in Range(all) : y.findings > 0}}
      /\ Len(Exported(t, input.f)) = SumFunction([i \in DOMAIN all |-> all[i].findings])
      /\ \A i \in DOMAIN mrs : Sorted(mrs[i].rounds, LAMBDA x, y : x.id < y.id)
      /\ Sorted(mrs, LAMBDA x, y : Last(x.rounds).id > Last(y.rounds).id)
      /\ \A x \in Range(all) : x.state = "completed" /\ x.pr # Nil =>
           Cardinality({i \in DOMAIN mrs : mrs[i].pr = x.pr /\ x \in Range(mrs[i].rounds)}) = 1

\* The dashboard: the parts of a mode make its total, the modes the whole,
\* the days what was queued in them, the daily report no more than its days.
StatsAddUp ==
  LET t == input.tasks
      all == Aggregate(t, "all", Now, input.days)
      of(m) == Aggregate(t, m, Now, input.days)
  IN  /\ \A m \in {"all", "agentic", "diff"} :
           /\ Total(of(m).states) = of(m).total
           /\ Total(of(m).days) = Count(InMode(t, m), LAMBDA x : Day(x.queued) > Day(Now) - input.days)
           /\ of(m).agent = all.agent /\ of(m).dots = all.dots
           /\ Total(of(m).ended) <= of(m).total
      /\ all.total = of("agentic").total + of("diff").total + Count(t, LAMBDA x : x.mode = Nil)
      /\ Total(all.modes) = of("agentic").total + of("diff").total
      /\ all.dots <= all.agent /\ all.agent = of("agentic").total
      /\ Total(DailyStats(t, Now).states) = DailyStats(t, Now).total
      /\ input.days >= 2 => DailyStats(t, Now).total <= Total(all.days)

\* A box: its parts are in order, and inside the range from three tasks on.
BoxesInOrder ==
  LET box == PhaseBox(input.vals)
      n == Len(input.vals)
  IN  /\ box.q1 <= box.median /\ box.median <= box.q3
      /\ 4 * box.min <= box.median /\ box.median <= 4 * box.max
      /\ n >= 3 => 4 * box.min <= box.q1 /\ box.q3 <= 4 * box.max
      /\ box.mode \in box.min..box.max

\* What the filters of the working hours offer is what the report of the
\* choice has, but for rows without a project, which are offered under the
\* project of their repository and which the report of it leaves out.
OptionsHold ==
  LET t == input.tasks
      opts == Options(t, Owner, input.f)
      with(p, a) == Len(LoadEvents(t, Owner, [input.f EXCEPT !.project = p, !.author = a]))
      orphans(p) == LoadEvents(SelectSeq(t, LAMBDA x : x.project = Nil /\ Owner[x.repo] = p),
                               Owner, input.f)
  IN  /\ Total(opts.authors) = with(Nil, Nil) /\ Total(opts.projects) = with(Nil, Nil)
      /\ \A a \in DOMAIN opts.authors : opts.authors[a] = with(Nil, a)
      /\ \A p \in DOMAIN opts.projects : opts.projects[p] = with(p, Nil) + Len(orphans(p))

\* The report counts every commit once in each of its partitions, its longest
\* streak is the longest run of days, its index is within 0..1000, the same
\* for a team of one and its member, and its peaks are of different bands.
ReportAddsUp ==
  LET r == Report(input.events, input.tz)
      runs == {n \in 0..10 : \E d \in r.dates \cup {0} : d..(d + n - 1) \subseteq r.dates}
      peaks == Peaks(r)
  IN  /\ \A part \in {Total(r.hourly), Total(r.weekday), Total(r.monthly)} : part = r.total
      /\ Total([a \in DOMAIN r.authors |-> r.authors[a].commits]) = r.total
      /\ r.late <= r.night /\ r.night <= r.nonwork
      /\ Max({r.night, r.weekend}) <= r.either /\ r.either <= r.night + r.weekend
      /\ r.streak = Max(runs) /\ r.streak <= Cardinality(r.dates) /\ Cardinality(r.dates) <= r.span
      /\ r.index \in 0..1000 /\ (r.level = "none" <=> r.total = 0)
      /\ Cardinality(DOMAIN r.authors) = 1 => \A a \in DOMAIN r.authors : r.authors[a].index = r.index
      /\ \A i \in DOMAIN peaks : r.hourly[peaks[i]] > 0
      /\ Len(peaks) = 2 => /\ Band(peaks[1]) # Band(peaks[2])
                           /\ r.hourly[peaks[2]] <= r.hourly[peaks[1]]
      /\ Suggestions(r) # {} <=> r.total >= 5

\* The members: each task of the days asked for, as the client's clock has
\* them, counts for one member on one day.
MembersAddUp ==
  LET m == Members(input.tasks, input.from, input.to, input.tz)
      inside(x) == Day(Effective(x) - input.tz) \in input.from..input.to
  IN  /\ Total([a \in DOMAIN m |-> m[a].commits]) =
           Count(input.tasks, LAMBDA x : Who(x) # Nil /\ inside(x))
      /\ \A a \in DOMAIN m :
           /\ Total(m[a].trend) = m[a].commits
           /\ DOMAIN m[a].trend \subseteq input.from..input.to
           /\ m[a].scored <= m[a].commits
           /\ m[a].average # Nil => m[a].scored > 0 /\ m[a].average <= 1000

\* Whoever follows has_more reads every message once.
ConversationRead ==
  LET windows == (input.n \div input.limit) + 2
      page[k \in 1..windows] == Conversation(input.n, (k - 1) * input.limit, input.limit)
      last == Min({k \in 1..windows : ~page[k].has_more})
  IN  FlattenSeq([k \in 1..last |-> page[k].items]) = [i \in 1..input.n |-> i]

DeleteAccounts ==
  LET d == BatchDelete(input.ids, input.exists, input.editable)
  IN  /\ d.deleted + d.denied = Cardinality(Range(input.ids))
      /\ Cardinality(d.left) = Cardinality(input.exists) - d.deleted
      /\ input.exists \ input.editable \subseteq d.left

\* What the pages say adds up.
ReportsAddUp ==
  /\ shape = "lists"        => ListsAgree
  /\ shape = "stats"        => StatsAddUp
  /\ shape = "phase"        => BoxesInOrder
  /\ shape = "work"         => OptionsHold
  /\ shape = "report"       => ReportAddsUp
  /\ shape = "members"      => MembersAddUp
  /\ shape = "conversation" => ConversationRead
  /\ shape = "delete"       => DeleteAccounts
=============================================================================
