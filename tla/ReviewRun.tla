------------------------------ MODULE ReviewRun ------------------------------
(***************************************************************************)
(* One review of a change: _review_agent_or_diff.  The agentic track runs  *)
(* a session per group under a semaphore (run_agentic_review), merges and  *)
(* scores; when it is switched off or says FAILED the diff track           *)
(* (review_in_groups) reviews instead, and so it does when the sessions    *)
(* found nothing.  asyncio.gather cancels nobody: the sessions beside one  *)
(* that failed go on.                                                      *)
(*                                                                         *)
(* A session is taken as AgentSession ends: with findings or without any,  *)
(* FAILED, or an exception.  What findings are and how they are merged is  *)
(* in ReviewOps.                                                           *)
(***************************************************************************)
EXTENDS Integers, Sequences, FiniteSets, Functions

CONSTANTS
  Plans,        \* the groupings group_diffs may return: sequences of sets of files
  Concurrency,  \* cfg.group_concurrency
  Scores,       \* scores an LLM may give, 0 among them
  Budget,       \* run_budget_seconds is set
  MaxGroups,    \* bound on the groups of a plan
  MaxFaults

Groups == 1..MaxGroups
Files  == UNION {UNION Range(plan) : plan \in Plans}

ReviewAssumption ==
  /\ \A plan \in Plans : plan \in Seq(SUBSET Files) /\ Len(plan) <= MaxGroups
  /\ Concurrency \in Nat \ {0} /\ MaxGroups \in Nat /\ MaxFaults \in Nat
  /\ Scores \subseteq Nat /\ 0 \in Scores
  /\ Budget \in BOOLEAN

VARIABLES
  phase,     \* "start", "agent", "scoring", "diff", "done", "failed"
  plan,      \* the grouping of the agentic track
  again,     \* the grouping of the diff track
  session,   \* agentic track, per group: "none", "waiting", "running", "ended",
             \* "skipped", "failed", "error"
  raised,    \* what gather raised first: "none", "disabled", "error"
  short,     \* less than _MIN_GROUP_BUDGET_SECONDS are left
  live,      \* the runtime is started and not stopped
  reports,   \* the groups whose session has findings
  partial,   \* diff track: the groups reviewed
  result,    \* [mode, found, skipped, score]
  breaks

vars == <<phase, plan, again, session, raised, short, live, reports, partial, result, breaks>>

NoResult == [mode |-> "none", found |-> {}, skipped |-> {}, score |-> 0]

Running == {g \in Groups : session[g] = "running"}

-----------------------------------------------------------------------------
(* Start *)

ToDiff == phase' = "diff" /\ again' \in Plans

\* runtime.start: switched off or without git it raises SandboxDisabled, a
\* clone that fails raises RuntimeError.
StartDisabled ==
  /\ phase = "start"
  /\ ToDiff
  /\ UNCHANGED <<plan, session, raised, short, live, reports, partial, result, breaks>>

StartError ==
  /\ phase = "start"
  /\ breaks < MaxFaults
  /\ breaks' = breaks + 1
  /\ phase' = "failed"
  /\ UNCHANGED <<plan, again, session, raised, short, live, reports, partial, result>>

StartAgent ==
  /\ phase = "start"
  /\ phase' = "agent"
  /\ live' = TRUE
  /\ plan' \in Plans
  /\ session' = [g \in Groups |-> IF g <= Len(plan') THEN "waiting" ELSE "none"]
  /\ UNCHANGED <<again, raised, short, reports, partial, result, breaks>>

-----------------------------------------------------------------------------
(* The sessions, also those a failed run has left behind *)

Slot == Cardinality(Running) < Concurrency

BeginSession(g) ==
  /\ session[g] = "waiting"
  /\ Slot
  /\ session' = [session EXCEPT ![g] = IF Budget /\ short THEN "skipped" ELSE "running"]
  /\ UNCHANGED <<phase, plan, again, raised, short, live, reports, partial, result, breaks>>

\* What a session left behind finds goes nowhere.
EndSession(g) ==
  /\ session[g] = "running"
  /\ session' = [session EXCEPT ![g] = "ended"]
  /\ \/ UNCHANGED reports
     \/ raised = "none" /\ reports' = reports \cup {g}
  /\ UNCHANGED <<phase, plan, again, raised, short, live, partial, result, breaks>>

\* gather raises the first exception and waits for nobody else.
Raise(cause) == raised' = IF raised = "none" THEN cause ELSE raised

FailSession(g) ==
  /\ session[g] = "running"
  /\ session' = [session EXCEPT ![g] = "failed"]
  /\ Raise("disabled")
  /\ UNCHANGED <<phase, plan, again, short, live, reports, partial, result, breaks>>

BreakSession(g) ==
  /\ session[g] = "running"
  /\ breaks < MaxFaults
  /\ breaks' = breaks + 1
  /\ session' = [session EXCEPT ![g] = "error"]
  /\ Raise("error")
  /\ UNCHANGED <<phase, plan, again, short, live, reports, partial, result>>

\* finally: runtime.stop.  SandboxDisabled is caught by the caller, any
\* other exception ends the task.
Abort ==
  /\ phase = "agent"
  /\ raised # "none"
  /\ live' = FALSE
  /\ IF raised = "disabled" THEN ToDiff ELSE phase' = "failed" /\ UNCHANGED again
  /\ UNCHANGED <<plan, session, raised, short, reports, partial, result, breaks>>

TimeRuns ==
  /\ ~short
  /\ short' = TRUE
  /\ UNCHANGED <<phase, plan, again, session, raised, live, reports, partial, result, breaks>>

-----------------------------------------------------------------------------
(* Merging *)

\* Mutant: the groups that are done are enough.
AllEndedOrOne == \E g \in Groups : session[g] = "ended"

AllEnded == \A g \in Groups : session[g] \in {"none", "ended", "skipped"}

Skipped == UNION {plan[g] : g \in {h \in Groups : session[h] = "skipped"}}

Merge ==
  /\ phase = "agent"
  /\ raised = "none"
  /\ AllEnded
  /\ phase' = "scoring"
  /\ result' = [result EXCEPT
       !.mode = "agentic",
       !.found = reports,
       !.skipped = Skipped]
  /\ UNCHANGED <<plan, again, session, raised, short, live, reports, partial, breaks>>

\* Scores are clamped; a scoring call that fails scores 0.  A run without a
\* finding falls back to the diff track with a result of its own.
Score ==
  /\ phase = "scoring"
  /\ live' = FALSE
  /\ IF result.found = {}
     THEN ToDiff /\ result' = NoResult
     ELSE /\ phase' = "done"
          /\ UNCHANGED again
          /\ \E s \in Scores : result' = [result EXCEPT !.score = s]
  /\ UNCHANGED <<plan, session, raised, short, reports, partial, breaks>>

-----------------------------------------------------------------------------
(* The diff track: each group once, no semaphore, one failure fails all *)

\* The LLM names the files it skipped; of the scores of the groups the
\* largest stays.
ReviewGroup(g) ==
  /\ phase = "diff"
  /\ g <= Len(again) /\ g \notin partial
  /\ partial' = partial \cup {g}
  /\ \E found \in SUBSET {g}, skipped \in {{}, again[g]}, s \in Scores :
       result' = [mode    |-> "diff",
                  found   |-> result.found \cup found,
                  skipped |-> result.skipped \cup skipped,
                  score   |-> IF s > result.score THEN s ELSE result.score]
  /\ UNCHANGED <<phase, plan, again, session, raised, short, live, reports, breaks>>

ReviewFails(g) ==
  /\ phase = "diff"
  /\ g <= Len(again) /\ g \notin partial
  /\ breaks < MaxFaults
  /\ breaks' = breaks + 1
  /\ phase' = "failed"
  /\ result' = NoResult
  /\ UNCHANGED <<plan, again, session, raised, short, live, reports, partial>>

Conclude ==
  /\ phase = "diff"
  /\ partial = 1..Len(again)
  /\ phase' = "done"
  /\ UNCHANGED <<plan, again, session, raised, short, live, reports, partial, result, breaks>>

-----------------------------------------------------------------------------
Init ==
  /\ phase = "start"
  /\ plan = <<>> /\ again = <<>>
  /\ session = [g \in Groups |-> "none"]
  /\ raised = "none"
  /\ short = FALSE /\ live = FALSE
  /\ reports = {}
  /\ partial = {}
  /\ result = NoResult
  /\ breaks = 0

Track ==
  \/ StartDisabled \/ StartError \/ StartAgent \/ Abort \/ Merge \/ Score \/ Conclude
  \/ \E g \in Groups : ReviewGroup(g) \/ ReviewFails(g)

Sessions(g) == BeginSession(g) \/ EndSession(g) \/ FailSession(g) \/ BreakSession(g)

Next == Track \/ TimeRuns \/ \E g \in Groups : Sessions(g)

Spec == Init /\ [][Next]_vars
FairSpec == Spec /\ WF_vars(Track) /\ WF_vars(\E g \in Groups : Sessions(g))

-----------------------------------------------------------------------------
TypeOK ==
  /\ phase \in {"start", "agent", "scoring", "diff", "done", "failed"}
  /\ plan \in Plans \cup {<<>>} /\ again \in Plans \cup {<<>>}
  /\ session \in [Groups -> {"none", "waiting", "running", "ended", "skipped",
                             "failed", "error"}]
  /\ raised \in {"none", "disabled", "error"}
  /\ short \in BOOLEAN /\ live \in BOOLEAN
  /\ partial \subseteq Groups
  /\ result.mode \in {"none", "agentic", "diff"} /\ result.score \in Scores
  /\ result.skipped \subseteq Files
  /\ breaks \in 0..MaxFaults
  /\ live <=> phase \in {"agent", "scoring"}
  /\ Cardinality(Running) <= Concurrency

\* An agentic result tells of every file that was grouped: a session reviewed
\* it or skipped_files names it; and no session is behind a result unless
\* another one failed (run_agentic_review: gather, budget_skipped).
FilesAccounted ==
  /\ phase = "done" /\ result.mode = "agentic" =>
       \A g \in DOMAIN plan : session[g] = "ended" \/ plan[g] \subseteq result.skipped
  /\ phase \in {"scoring", "diff", "done"} /\ raised = "none" =>
       \A g \in Groups : session[g] \notin {"waiting", "running"}

Settled == phase \in {"done", "failed"}
=============================================================================
