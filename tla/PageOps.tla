------------------------------- MODULE PageOps -------------------------------
(***************************************************************************)
(* What the pages show, computed from the rows of review_task: the lists   *)
(* of reviews, the dashboard, the working hours and the members.           *)
(* PageCases compares them with each other.                                *)
(*                                                                         *)
(* Tasks come as a sequence of rows by id.  Time is in hours since Monday  *)
(* 0:00 UTC of some week, a month has thirty days.  Rates and scores are   *)
(* in tenths, as they are rounded.                                         *)
(***************************************************************************)
EXTENDS Integers, Sequences, FiniteSets, FiniteSetsExt, Functions, SequencesExt

CONSTANTS
  Nil,      \* NULL
  PageMax   \* the largest page a client gets: 100

PageAssumption == PageMax \in Nat \ {0}

Count(s, P(_)) == Quantify(DOMAIN s, LAMBDA i : P(s[i]))
By(s, key(_))  == [k \in {key(s[i]) : i \in DOMAIN s} |-> Count(s, LAMBDA x : key(x) = k)]

Ordered(S) == [i \in 1..Cardinality(S) |->
                 CHOOSE x \in S : Cardinality({y \in S : y < x}) = i - 1]

\* Half a tenth rounds up.
Round(n, d) == IF d = 0 THEN 0 ELSE (2 * n + d) \div (2 * d)
Rate(n, total) == Round(1000 * n, total)

-----------------------------------------------------------------------------
(* reviews.py *)

\* _apply_review_filters: what is not asked for is Nil; a row without an end
\* is in no range of ends.
Passes(t, f) ==
  /\ f.state = Nil \/ t.state = f.state
  /\ f.least = Nil \/ t.score >= f.least
  /\ f.from  = Nil \/ (t.finished # Nil /\ t.finished >= f.from)
  /\ f.to    = Nil \/ (t.finished # Nil /\ t.finished <= f.to)

\* order_by(id.desc()).limit().offset()
Window(s, limit, offset) ==
  LET n == Max({1, Min({limit, PageMax})})
      k == Max({0, offset})
  IN  SubSeq(s, k + 1, Min({k + n, Len(s)}))

Listed(tasks, f) == Reverse(SelectSeq(tasks, LAMBDA t : Passes(t, f)))
ListReviews(tasks, f, limit, offset) ==
  [items |-> Window(Listed(tasks, f), limit, offset), total |-> Len(Listed(tasks, f))]

\* export_reviews joins the findings of what the list has.
Exported(tasks, f) ==
  FlattenSeq([i \in DOMAIN Listed(tasks, f) |->
    [k \in 1..Listed(tasks, f)[i].findings |-> <<Listed(tasks, f)[i].id, k>>]])

\* list_review_prs: the reviews that ended, by merge request, the newest
\* first; a range of time is about the end, or the queueing where there is none.
RoundsOf(tasks, f) ==
  SelectSeq(tasks, LAMBDA t :
    /\ t.type = "mr" /\ t.state = "completed" /\ t.pr # Nil
    /\ LET end == IF t.finished # Nil THEN t.finished ELSE t.queued
       IN  (f.from = Nil \/ end >= f.from) /\ (f.to = Nil \/ end <= f.to))

MergeRequests(tasks, f) ==
  LET rounds == RoundsOf(tasks, f)
      newest == SelectSeq(Reverse(rounds), LAMBDA t :
                  \A i \in DOMAIN rounds : rounds[i].pr = t.pr => rounds[i].id <= t.id)
  IN  [i \in DOMAIN newest |->
         [pr |-> newest[i].pr, rounds |-> SelectSeq(rounds, LAMBDA t : t.pr = newest[i].pr)]]

\* get_conversation: the next window, and whether there is more.
Conversation(n, offset, limit) ==
  LET items == SubSeq([i \in 1..n |-> i], offset + 1, Min({offset + limit, n}))
  IN  [items |-> items, has_more |-> offset + Len(items) < n]

\* batch_delete_reviews: each id once, each with its own check.
BatchDelete(ids, exists, editable) ==
  LET once == {ids[i] : i \in DOMAIN ids}
      gone == once \cap exists \cap editable
  IN  [deleted |-> Cardinality(gone), denied |-> Cardinality(once \ gone), left |-> exists \ gone]

-----------------------------------------------------------------------------
(* stats.py, and the daily report in periodic.py *)

\* _mode_clause
InMode(tasks, mode) ==
  IF mode = "all" THEN tasks ELSE SelectSeq(tasks, LAMBDA t : t.mode = mode)

Day(t)  == t \div 24
Hour(t) == t % 24

\* The last fourteen days, filled with zeros, are cut to Days days.
LastDays(now, days) == (Day(now) - days + 1)..Day(now)
ByDay(tasks, now, days) ==
  [d \in LastDays(now, days) |-> Count(tasks, LAMBDA t : Day(t.queued) = d)]

Timed(tasks) ==
  SelectSeq(tasks, LAMBDA t : /\ t.state = "completed" /\ t.started # Nil /\ t.finished # Nil
                              /\ t.finished >= t.started)

\* _mode: the most frequent value, the least of several.
Mode(vals) ==
  LET freq == By(vals, LAMBDA v : v)
  IN  Min({v \in DOMAIN freq : freq[v] = Max(Range(freq))})

\* statistics.quantiles(vals, n=4), times four: the ends are extrapolated.
Quartile(vals, i) ==
  LET s == SortSeq(vals, <)
      m == Len(s) + 1
      j == Max({1, Min({(i * m) \div 4, Len(s) - 1})})
      d == i * m - 4 * j
  IN  IF Len(s) = 1 THEN 4 * s[1] ELSE s[j] * (4 - d) + s[j + 1] * d

\* phase_box_stats for one phase.
PhaseBox(vals) ==
  [min |-> Min(Range(vals)), q1 |-> Quartile(vals, 1), median |-> Quartile(vals, 2),
   q3 |-> Quartile(vals, 3), max |-> Max(Range(vals)), mode |-> Mode(vals)]

\* aggregate_stats: what is about tasks follows the mode, what is about the
\* agent does not.
Aggregate(tasks, mode, now, days) ==
  LET ts == InMode(tasks, mode) IN
  [total  |-> Len(ts),
   states |-> By(ts, LAMBDA t : t.state),
   modes  |-> By(SelectSeq(ts, LAMBDA t : t.mode # Nil), LAMBDA t : t.mode),
   days   |-> ByDay(ts, now, days),
   ended  |-> [d \in LastDays(now, days) |-> Count(Timed(ts), LAMBDA t : Day(t.finished) = d)],
   agent  |-> Count(tasks, LAMBDA t : t.mode = "agentic"),
   dots   |-> Count(Timed(tasks), LAMBDA t : t.mode = "agentic")]

\* collect_daily_stats: a day back from now.
DailyStats(tasks, now) ==
  LET ts == SelectSeq(tasks, LAMBDA t : t.queued >= now - 24)
  IN  [total |-> Len(ts), states |-> By(ts, LAMBDA t : t.state)]

-----------------------------------------------------------------------------
(* workrate.py: events from rows *)

Or(x, y) == IF x # Nil THEN x ELSE y

\* _events_from_row: a commit each, by its author and time, else by whoever
\* pushed and when; without commits the push itself.
PushEvents(t) ==
  IF t.commits # <<>>
  THEN [i \in DOMAIN t.commits |-> [author |-> Or(t.commits[i].author, t.pusher),
                                    at |-> Or(t.commits[i].at, t.queued)]]
  ELSE <<[author |-> t.pusher, at |-> t.queued]>>

RowEvents(t) ==
  IF t.type = "push" THEN PushEvents(t)
  ELSE <<[author |-> t.author, at |-> Or(t.created, t.queued)]>>

\* Mutant: rows without a project are taken for every project.
LoadEventsLoose(tasks, owner, f) ==
  LET kept(t) == /\ f.project = Nil \/ t.project \in {f.project, Nil}
                 /\ f.since = Nil \/ t.queued >= f.since
      of(t) == SelectSeq([i \in DOMAIN RowEvents(t) |->
                            [author  |-> RowEvents(t)[i].author, at |-> RowEvents(t)[i].at,
                             project |-> Or(t.project, owner[t.repo]), repo |-> t.repo]],
                         LAMBDA e : e.author # Nil /\ (f.author = Nil \/ e.author = f.author))
      rows == SelectSeq(tasks, kept)
  IN  FlattenSeq([i \in DOMAIN rows |-> of(rows[i])])

\* _load_events: the window is about the queueing; a row without a project
\* gets that of its repository, after the filter on projects.
LoadEvents(tasks, owner, f) ==
  LET kept(t) == /\ f.project = Nil \/ t.project = f.project
                 /\ f.since = Nil \/ t.queued >= f.since
      of(t) == SelectSeq([i \in DOMAIN RowEvents(t) |->
                            [author  |-> RowEvents(t)[i].author, at |-> RowEvents(t)[i].at,
                             project |-> Or(t.project, owner[t.repo]), repo |-> t.repo]],
                         LAMBDA e : e.author # Nil /\ (f.author = Nil \/ e.author = f.author))
      rows == SelectSeq(tasks, kept)
  IN  FlattenSeq([i \in DOMAIN rows |-> of(rows[i])])

\* get_workrate_options
Options(tasks, owner, f) ==
  LET es == LoadEvents(tasks, owner, [f EXCEPT !.author = Nil])
  IN  [authors |-> By(es, LAMBDA e : e.author), projects |-> By(es, LAMBDA e : e.project)]

-----------------------------------------------------------------------------
(* workrate.py: the report *)

DeepNight == 0..5
Night     == {23} \cup 0..5
NonWork   == 18..23 \cup 0..8
Weekend   == {6, 7}
Local(e, tz)   == e.at - tz
IsoDay(t)      == (Day(t) % 7) + 1
Month(t)       == Day(t) \div 30
DatesOf(es, tz) == {Day(Local(es[i], tz)) : i \in DOMAIN es}

\* _hour_band
Band(h) == IF h <= 5 THEN "deep" ELSE IF h <= 8 THEN "dawn" ELSE IF h <= 17 THEN "work"
           ELSE IF h <= 22 THEN "evening" ELSE "night23"

\* _longest_streak walks the dates in order.
LongestStreak(dates) ==
  FoldLeft(LAMBDA acc, d :
             LET run == IF d - 1 = acc.last THEN acc.run + 1 ELSE 1
             IN  [last |-> d, run |-> run, best |-> Max({acc.best, run})],
           [last |-> -1000, run |-> 0, best |-> 0], Ordered(dates)).best

Span(dates) == IF dates = {} THEN 0 ELSE Max(dates) - Min(dates) + 1

\* _index_parts: six parts, each full at its basis; 100 in all.
Part(value, basis, full) == Min({10 * full, Round(full * value, basis)})
Index(es, tz) ==
  LET dates == DatesOf(es, tz)
      rate(P(_)) == Rate(Count(es, LAMBDA e : P(Local(e, tz))), Len(es))
      deep    == rate(LAMBDA t : Hour(t) \in DeepNight)
      night   == rate(LAMBDA t : Hour(t) \in Night)
      weekend == rate(LAMBDA t : IsoDay(t) \in Weekend)
      density == Round(10 * Len(es), Cardinality(dates))
  IN  Min({1000, Part(deep, 20, 25) + Part(night, 35, 15) + Part(weekend, 25, 15)
                 + Part(10 * LongestStreak(dates), 14, 20) + Part(density, 8, 15)
                 + Part(Rate(Cardinality(dates), Span(dates)), 70, 10)})

LevelOf(score) == IF score < 300 THEN "relaxed" ELSE IF score < 550 THEN "steady"
                  ELSE IF score < 750 THEN "intense" ELSE "extreme"

\* _aggregate
Report(es, tz) ==
  LET n(P(_)) == Count(es, LAMBDA e : P(Local(e, tz)))
      by(a) == SelectSeq(es, LAMBDA e : e.author = a)
  IN
  [total   |-> Len(es),
   hourly  |-> [h \in 0..23 |-> n(LAMBDA t : Hour(t) = h)],
   weekday |-> [d \in 1..7 |-> n(LAMBDA t : IsoDay(t) = d)],
   monthly |-> By(es, LAMBDA e : Month(Local(e, tz))),
   late    |-> n(LAMBDA t : Hour(t) \in DeepNight),
   night   |-> n(LAMBDA t : Hour(t) \in Night),
   nonwork |-> n(LAMBDA t : Hour(t) \in NonWork),
   weekend |-> n(LAMBDA t : IsoDay(t) \in Weekend),
   either  |-> n(LAMBDA t : Hour(t) \in Night \/ IsoDay(t) \in Weekend),
   dates   |-> DatesOf(es, tz),
   streak  |-> LongestStreak(DatesOf(es, tz)),
   span    |-> Span(DatesOf(es, tz)),
   index   |-> IF es = <<>> THEN 0 ELSE Index(es, tz),
   level   |-> IF es = <<>> THEN "none" ELSE LevelOf(Index(es, tz)),
   authors |-> [a \in {es[i].author : i \in DOMAIN es} |->
                  [commits |-> Len(by(a)), index |-> Index(by(a), tz)]]]

\* _narrate: the busiest hour, the busiest of another band, what to do.
Peaks(r) ==
  LET first(H) == CHOOSE h \in H : \A g \in H : r.hourly[g] < r.hourly[h]
                                          \/ (r.hourly[g] = r.hourly[h] /\ h <= g)
      one == first(0..23)
      rest == {h \in 0..23 : r.hourly[h] > 0 /\ Band(h) # Band(one)}
  IN  IF r.total < 5 THEN <<>> ELSE IF rest = {} THEN <<one>> ELSE <<one, first(rest)>>

Suggestions(r) ==
  IF r.total < 5 THEN {}
  ELSE LET s == (IF Rate(r.late, r.total) >= 50 THEN {"late_shift"} ELSE {})
                \cup (IF r.streak >= 7 THEN {"streak_rest"} ELSE {})
                \cup (IF Rate(r.either, r.total) >= 300 THEN {"rest_ratio"} ELSE {})
       IN  IF s = {} THEN {"healthy"} ELSE s

-----------------------------------------------------------------------------
(* workrate.py: get_workrate_members, for days from .. to of the client *)

Effective(t) == Or(t.created, t.queued)
Who(t) == IF t.type = "push" THEN t.pusher ELSE t.author

Members(tasks, from, to, tz) ==
  LET rows == SelectSeq(tasks, LAMBDA t : /\ Effective(t) >= 24 * from + tz
                                          /\ Effective(t) < 24 * (to + 1) + tz
                                          /\ Who(t) # Nil)
      by(a) == SelectSeq(rows, LAMBDA t : Who(t) = a)
      scored(a) == SelectSeq(by(a), LAMBDA t : t.state = "completed" /\ t.mode # Nil)
      exact(a)  == SelectSeq(by(a), LAMBDA t : t.adds # Nil)
  IN  [a \in {Who(rows[i]) : i \in DOMAIN rows} |->
         [commits |-> Len(by(a)),
          trend   |-> By(by(a), LAMBDA t : Day(Effective(t) - tz)),
          scored  |-> Len(scored(a)),
          average |-> IF scored(a) = <<>> THEN Nil
                      ELSE Round(10 * SumFunction([i \in DOMAIN scored(a) |-> scored(a)[i].score]),
                                 Len(scored(a))),
          adds    |-> IF exact(a) = <<>> THEN Nil
                      ELSE SumFunction([i \in DOMAIN exact(a) |-> exact(a)[i].adds])]]
=============================================================================
