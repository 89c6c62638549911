---------------------------- MODULE SystemNotices ----------------------------
(***************************************************************************)
(* The notices of the system itself (a webhook on a wrong path, the result *)
(* of a redelivery): a row that waits to be acknowledged, and a message to *)
(* every page that is open.  The message is sent inside the transaction,   *)
(* before the row is committed, and SQLite gives the id of a row that was  *)
(* rolled back to the next one.                                            *)
(***************************************************************************)
EXTENDS Integers, Sequences, FiniteSets

CONSTANTS
  Callers,    \* requests and background tasks that report something
  Titles,
  Pages,      \* browser pages
  ListLimit,  \* list_unacknowledged: 50
  None,
  MaxNotices, MaxClock, MaxLosses   \* bounds

NoticeIds == 1..MaxNotices
Message   == NoticeIds \X Titles
NoticeRow == [title : Titles, at : Nat, ack : BOOLEAN]
Report    == [pc : {"checked"}, title : Titles] \cup
             [pc : {"inserted"}, title : Titles, id : NoticeIds, at : Nat]
PageRow   == [read : BOOLEAN, floor : Nat, stream : Seq(Message) \cup {None},
              shown : SUBSET Message, whole : BOOLEAN, missed : SUBSET NoticeIds]

NoticesAssumption ==
  /\ IsFiniteSet(Callers)
  /\ None \notin NoticeRow \cup Report \cup PageRow \cup Seq(Message)
  /\ ListLimit \in Nat \ {0}
  /\ MaxNotices \in Nat /\ MaxClock \in Nat /\ MaxLosses \in Nat

VARIABLES
  notices,   \* committed rows by id: [title, at, ack] or None
  clock,     \* grows when a minute has passed since all that was stored
  report,    \* what a caller is at: [pc, title], with [id, at] once inserted, or None
  page,      \* [read, floor, stream, shown, whole, missed] or None
  phantoms,  \* ids that were announced and rolled back
  losses     \* what has failed

vars == <<notices, clock, report, page, phantoms, losses>>

Stored    == {n \in NoticeIds : notices[n] # None}
Open      == {p \in Pages : page[p] # None}
IdsOf(messages) == {m[1] : m \in messages}
Queued(p) == IF page[p].stream = None THEN {} ELSE {page[p].stream[i] : i \in DOMAIN page[p].stream}

\* SQLite has one writer: from the insert to the commit.
Writers == {c \in Callers : report[c] # None /\ report[c].pc = "inserted"}
NextId  == CHOOSE n \in 1..(MaxNotices + 1) :
             \A m \in NoticeIds : IF m < n THEN \E s \in Stored : s >= m ELSE m \notin Stored

-----------------------------------------------------------------------------
(* SystemNotificationRepository.create, and the commit of its caller       *)

\* A row of the same title within a minute is enough.
Check(c) ==
  /\ report[c] = None
  /\ \E t \in Titles :
       /\ \A n \in Stored : notices[n].title = t => notices[n].at < clock
       /\ report' = [report EXCEPT ![c] = [pc |-> "checked", title |-> t]]
  /\ UNCHANGED <<notices, clock, page, phantoms, losses>>

\* The flush gives the id; every stream gets the message at once.
Insert(c) ==
  /\ report[c] # None /\ report[c].pc = "checked" /\ Writers = {} /\ NextId <= MaxNotices
  /\ report' = [report EXCEPT ![c] = [pc |-> "inserted", title |-> @.title, id |-> NextId,
                                        at |-> clock]]
  /\ page' = [p \in Pages |->
                IF p \in Open /\ page[p].stream # None
                THEN [page[p] EXCEPT !.stream = Append(@, <<NextId, report[c].title>>)]
                ELSE page[p]]
  /\ UNCHANGED <<notices, clock, phantoms, losses>>

Commit(c) ==
  /\ c \in Writers
  /\ notices' = [notices EXCEPT ![report[c].id] =
                   [title |-> report[c].title, at |-> report[c].at, ack |-> FALSE]]
  /\ report' = [report EXCEPT ![c] = None]
  /\ UNCHANGED <<clock, page, phantoms, losses>>

\* The commit fails: it is logged, the message is out.
Rollback(c) ==
  /\ c \in Writers /\ losses < MaxLosses /\ losses' = losses + 1
  /\ phantoms' = phantoms \cup {report[c].id}
  /\ report' = [report EXCEPT ![c] = None]
  /\ UNCHANGED <<notices, clock, page>>

-----------------------------------------------------------------------------
(* A page reads the list and opens its stream, in any order.               *)

OpenPage(p) ==
  /\ page[p] = None
  /\ page' = [page EXCEPT ![p] = [read |-> FALSE, floor |-> 1, stream |-> None, shown |-> {},
                                  whole |-> TRUE, missed |-> {}]]
  /\ UNCHANGED <<notices, clock, report, phantoms, losses>>

\* list_unacknowledged: the newest ones.
Unacknowledged == {n \in Stored : ~notices[n].ack}
Newest == {n \in Unacknowledged : Cardinality({m \in Unacknowledged : m > n}) < ListLimit}

\* A message whose id is shown already is dropped.
ReadList(p) ==
  /\ p \in Open /\ ~page[p].read
  /\ page' = [page EXCEPT ![p] =
        [read |-> TRUE,
         floor |-> IF Newest = Unacknowledged THEN 1
                   ELSE CHOOSE n \in Newest : \A m \in Newest : n <= m,
         stream |-> @.stream,
         shown |-> @.shown \cup {<<n, notices[n].title>> : n \in Newest \ IdsOf(@.shown)},
         whole |-> @.whole /\ @.stream # None, missed |-> @.missed]]
  /\ UNCHANGED <<notices, clock, report, phantoms, losses>>

\* subscribe; whole and missed are for the properties: whether the stream
\* was there before the list was read, and what was announced before it.
Subscribe(p) ==
  /\ p \in Open /\ page[p].stream = None
  /\ page' = [page EXCEPT ![p] = [page[p] EXCEPT !.stream = <<>>,
                                                 !.missed = {report[c].id : c \in Writers}]]
  /\ UNCHANGED <<notices, clock, report, phantoms, losses>>

Receive(p) ==
  /\ p \in Open /\ page[p].stream \notin {None, <<>>}
  /\ LET m == Head(page[p].stream) IN
     page' = [page EXCEPT ![p] =
        [page[p] EXCEPT !.stream = Tail(@),
                        !.shown = IF m[1] \in IdsOf(@) THEN @ ELSE @ \cup {m}]]
  /\ UNCHANGED <<notices, clock, report, phantoms, losses>>

\* The stream breaks: its queue is gone; the page opens a new one and does
\* not read the list again.
Break(p) ==
  /\ p \in Open /\ page[p].stream # None /\ losses < MaxLosses /\ losses' = losses + 1
  /\ page' = [page EXCEPT ![p] = [page[p] EXCEPT !.stream = None, !.whole = FALSE]]
  /\ UNCHANGED <<notices, clock, report, phantoms>>

ClosePage(p) ==
  /\ p \in Open
  /\ page' = [page EXCEPT ![p] = None]
  /\ UNCHANGED <<notices, clock, report, phantoms, losses>>

\* acknowledge: by id, whatever the page shows under it.
Acknowledge(p) ==
  /\ p \in Open /\ Writers = {}
  /\ \E m \in page[p].shown :
       /\ page' = [page EXCEPT ![p].shown = @ \ {m}]
       /\ notices' = IF notices[m[1]] = None THEN notices
                     ELSE [notices EXCEPT ![m[1]].ack = TRUE]
  /\ UNCHANGED <<clock, report, phantoms, losses>>

\* acknowledge_all: also what this page has not shown yet.
AcknowledgeAll(p) ==
  /\ p \in Open /\ page[p].shown # {} /\ Writers = {}
  /\ notices' = [n \in NoticeIds |-> IF n \in Stored THEN [notices[n] EXCEPT !.ack = TRUE] ELSE None]
  /\ page' = [page EXCEPT ![p].shown = {}]
  /\ UNCHANGED <<clock, report, phantoms, losses>>

Tick ==
  /\ clock < MaxClock /\ clock' = clock + 1
  /\ UNCHANGED <<notices, report, page, phantoms, losses>>

-----------------------------------------------------------------------------
Init ==
  /\ notices = [n \in NoticeIds |-> None]
  /\ clock = 0
  /\ report = [c \in Callers |-> None]
  /\ page = [p \in Pages |-> None]
  /\ phantoms = {} /\ losses = 0

Next ==
  \/ \E c \in Callers : Check(c) \/ Insert(c) \/ Commit(c) \/ Rollback(c)
  \/ \E p \in Pages : \/ OpenPage(p) \/ ReadList(p) \/ Subscribe(p) \/ Receive(p)
                      \/ Break(p) \/ ClosePage(p) \/ Acknowledge(p) \/ AcknowledgeAll(p)
  \/ Tick

Spec == Init /\ [][Next]_vars

-----------------------------------------------------------------------------
\* Types; the ids of the rows have no gap.
TypeOK ==
  /\ \A n \in Stored : notices[n].title \in Titles /\ notices[n].at \in 0..clock
  /\ \A n, m \in NoticeIds : n < m /\ m \in Stored => n \in Stored
  /\ Cardinality(Writers) <= 1

\* A row that waits is on every page that listened before it read the list
\* and has not been cut off, except what the limit of the list hides and what
\* was announced before the page listened and stored after it read; a page
\* shows under an id the row of that id, unless a row of that id was rolled
\* back; and a title is stored within a minute at most once for each caller
\* (system_notification_repo.py create, notifications.py broadcast).
NoticesTold ==
  /\ \A p \in Open : page[p].read /\ page[p].whole =>
       \A n \in Unacknowledged :
         n >= page[p].floor => n \in IdsOf(page[p].shown \cup Queued(p)) \cup page[p].missed
  /\ \A p \in Open : \A m \in page[p].shown \cup Queued(p) :
       m[1] \in Stored \ phantoms => notices[m[1]].title = m[2]
  /\ \A n \in Stored :
       Cardinality({m \in Stored : notices[m].title = notices[n].title
                                   /\ notices[m].at = notices[n].at}) <= Cardinality(Callers)
=============================================================================
