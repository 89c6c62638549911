---------------------------- MODULE AgentSession ----------------------------
(***************************************************************************)
(* One agentic review session, run_agent_session: rounds of an LLM call    *)
(* and its tool calls over a growing list of messages, the compression of  *)
(* the list (in place above one threshold, by a background call above a    *)
(* lower one), the grace round and the ends of the session.                *)
(*                                                                         *)
(* A message is [role, round, size, told]: the round that made it (0: the  *)
(* opening), its size in units of which MaxPrompt fill the prompt budget,  *)
(* and, for a summary, the rounds it tells of.  Steps are cut at the awaits (chat,    *)
(* summarize); the background call runs beside them.                       *)
(***************************************************************************)
EXTENDS Integers, Sequences, FiniteSets, SequencesExt

CONSTANTS
  MaxIterations,  \* cfg.max_iterations
  MaxPrompt,      \* cfg.max_prompt_tokens, in message units
  MaxEmpty,       \* cfg.max_empty_turns
  ActiveZone,     \* ACTIVE_ZONE_SIZE
  MaxTools,       \* bound: tool calls of one turn
  Openings,       \* bound: how large the opening prompt may be
  MaxFaults       \* bound: LLM calls that fail

SessionAssumption ==
  /\ MaxIterations \in Nat \ {0} /\ MaxPrompt \in Nat \ {0}
  /\ MaxEmpty \in Nat /\ ActiveZone \in Nat \ {0} /\ MaxTools \in Nat
  /\ Openings \subseteq Nat \ {0} /\ MaxFaults \in Nat

VARIABLES
  messages,
  it,        \* the round, from 0
  strikes,   \* empty_strikes
  grace,
  late,      \* max_time_seconds have passed
  pc,        \* "top", "summing", "offer", "chat", "ended", "raised"
  used,      \* the size estimate taken at the top of the round
  bg,        \* the background compression: [state, told]
  stray,     \* background calls nobody waits for or cancels
  offered,   \* the tools of the last chat: "all", "closing"
  reason,
  state,     \* ToolState: [done, failed]
  faults

vars == <<messages, it, strikes, grace, late, pc, used, bg, stray, offered,
          reason, state, faults>>

Roles == {"system", "user", "assistant", "tool", "summary"}
Message(role, round, size, told) ==
  [role |-> role, round |-> round, size |-> size, told |-> told]

NoBg == [state |-> "none", told |-> {}]

Used(ms) == FoldSeq(LAMBDA m, n : m.size + n, 0, ms)

\* ratio >= 0.8 and ratio >= 0.6
AtSync(n)  == 10 * n >= 8 * MaxPrompt
AtAsync(n) == 10 * n >= 6 * MaxPrompt

-----------------------------------------------------------------------------
(* The zones of the list.  A Python slice counts a negative bound from the  *)
(* end and cuts it at the start; Index does the same.                       *)

Index(ms, i) == IF i >= 0 THEN i ELSE IF Len(ms) + i > 0 THEN Len(ms) + i ELSE 0
Slice(ms, from, to) == SubSeq(ms, Index(ms, from) + 1, Index(ms, to))

Frozen(ms) == SubSeq(ms, 1, 2)

\* The left border of the active zone moves left over tool results, so that
\* they stay with the assistant turn that called them.
ActiveStart(ms) ==
  LET start == Len(ms) - ActiveZone
      stops == {i \in 2..start : i = 2 \/ ms[i + 1].role # "tool"}
  IN  IF start <= 2 THEN start
      ELSE CHOOSE i \in stops : \A j \in stops : j <= i

Compressible(ms) == Slice(ms, 2, ActiveStart(ms))
Active(ms)       == Slice(ms, ActiveStart(ms), Len(ms))

\* The rounds a list tells of, itself or through a summary in it.
Told(ms) == UNION {IF m.role = "summary" THEN m.told ELSE {m.round} : m \in Range(ms)}

\* Mutant: the summary is put in the list without the active zone's first
\* message, as if the border belonged to the compressed part.
AppliedShort(ms, told) ==
  Frozen(ms) \o <<Message("summary", 0, 1, told)>>
    \o Slice(ms, ActiveStart(ms) + 1, Len(ms))

Applied(ms, told) ==
  Frozen(ms) \o <<Message("summary", 0, 1, told)>> \o Active(ms)

-----------------------------------------------------------------------------
(* The top of a round *)

Leave(bg1) == stray' = stray + (IF bg1.state = "running" THEN 1 ELSE 0)

\* Above the high threshold the round waits for a summary.
CompressNow ==
  /\ pc = "top"
  /\ AtSync(Used(messages))
  /\ used' = Used(messages)
  /\ pc' = IF Compressible(messages) = <<>> THEN "offer" ELSE "summing"
  /\ IF pc' = "offer" THEN bg' = NoBg /\ Leave(bg) ELSE UNCHANGED <<bg, stray>>
  /\ UNCHANGED <<messages, it, strikes, grace, late, offered, reason, state, faults>>

\* A failed or empty summary leaves the list as it was.  The pending
\* background call is forgotten, not cancelled.
Compressed ==
  /\ pc = "summing"
  /\ \/ messages' = Applied(messages, Told(Compressible(messages))) /\ UNCHANGED faults
     \/ faults < MaxFaults /\ faults' = faults + 1 /\ UNCHANGED messages
  /\ bg' = NoBg
  /\ Leave(bg)
  /\ pc' = "offer"
  /\ UNCHANGED <<it, strikes, grace, late, used, offered, reason, state>>

\* A background summary that has arrived goes into the list as it is now.
Land ==
  /\ pc = "top"
  /\ ~AtSync(Used(messages))
  /\ bg.state \in {"ok", "empty"}
  /\ messages' = IF bg.state = "ok" THEN Applied(messages, bg.told) ELSE messages
  /\ used' = Used(messages)
  /\ bg' = NoBg
  /\ pc' = "offer"
  /\ UNCHANGED <<it, strikes, grace, late, stray, offered, reason, state, faults>>

\* result() of a background call that failed raises in the session.
LandFailure ==
  /\ pc = "top"
  /\ ~AtSync(Used(messages))
  /\ bg.state = "failed"
  /\ pc' = "raised"
  /\ UNCHANGED <<messages, it, strikes, grace, late, used, bg, stray, offered,
                 reason, state, faults>>

CompressBehind ==
  /\ pc = "top"
  /\ ~AtSync(Used(messages))
  /\ AtAsync(Used(messages))
  /\ bg.state = "none"
  /\ bg' = [state |-> "running", told |-> Told(Compressible(messages))]
  /\ used' = Used(messages)
  /\ pc' = "offer"
  /\ UNCHANGED <<messages, it, strikes, grace, late, stray, offered, reason, state, faults>>

NothingToCompress ==
  /\ pc = "top"
  /\ ~AtSync(Used(messages))
  /\ \/ bg.state = "running"
     \/ bg.state = "none" /\ ~AtAsync(Used(messages))
  /\ used' = Used(messages)
  /\ pc' = "offer"
  /\ UNCHANGED <<messages, it, strikes, grace, late, bg, stray, offered, reason, state, faults>>

\* An empty middle gives an empty summary without a call.
BgEnds ==
  /\ bg.state = "running"
  /\ \/ bg' = [bg EXCEPT !.state = IF bg.told = {} THEN "empty" ELSE "ok"] /\ UNCHANGED faults
     \/ /\ bg.told # {} /\ faults < MaxFaults
        /\ faults' = faults + 1
        /\ bg' = [bg EXCEPT !.state = "failed"]
  /\ UNCHANGED <<messages, it, strikes, grace, late, pc, used, stray, offered, reason, state>>

-----------------------------------------------------------------------------
(* What the model is offered, and its turn *)

LastRound == it >= MaxIterations - 1

\* Mutant: the last round is like the others.
TouchedWithoutRounds == late \/ used >= MaxPrompt

Touched == late \/ used >= MaxPrompt \/ LastRound

\* The estimate is the one of the top of the round, before any compression.
Offer ==
  /\ pc = "offer"
  /\ grace' = (grace \/ Touched)
  /\ messages' = IF Touched /\ ~grace
                 THEN Append(messages, Message("user", it + 1, 1, {})) ELSE messages
  /\ offered' = IF grace' THEN "closing" ELSE "all"
  /\ pc' = "chat"
  /\ UNCHANGED <<it, strikes, late, used, bg, stray, reason, state, faults>>

ChatFails ==
  /\ pc = "chat"
  /\ faults < MaxFaults
  /\ faults' = faults + 1
  /\ pc' = "raised"
  /\ UNCHANGED <<messages, it, strikes, grace, late, used, bg, stray, offered, reason, state>>

\* A background call still pending at the end is cancelled.
EndWith(why) ==
  /\ pc' = "ended"
  /\ reason' = why
  /\ bg' = IF bg.state = "running" THEN NoBg ELSE bg
  /\ UNCHANGED it

NextRound ==
  /\ pc' = "top"
  /\ it' = it + 1
  /\ UNCHANGED <<reason, bg>>

\* An empty turn is answered by a hint; the round after the last one does
\* not come, whatever the strikes.
EmptyTurn ==
  /\ pc = "chat"
  /\ strikes' = strikes + 1
  /\ IF strikes + 1 > MaxEmpty
     THEN EndWith("empty_rounds_exceeded") /\ UNCHANGED messages
     ELSE /\ messages' = Append(messages, Message("user", it + 1, 1, {}))
          /\ IF LastRound THEN EndWith("") ELSE NextRound
  /\ UNCHANGED <<grace, late, used, stray, offered, state, faults>>

\* The turn's tool calls run in order, whatever was offered.
Results(calls) == [i \in DOMAIN calls |-> Message("tool", it + 1, 1, {})]

WhyEnd ==
  IF state'.done THEN "task_done"
  ELSE IF grace THEN "grace_round"
  ELSE IF late THEN "time_exceeded" ELSE "max_iterations"

Turn ==
  /\ pc = "chat"
  /\ strikes' = 0
  /\ \E calls \in SeqOf({"other", "DONE", "FAILED"}, MaxTools) :
       /\ state' = [done   |-> Range(calls) \cap {"DONE", "FAILED"} # {},
                    failed |-> "FAILED" \in Range(calls)]
       /\ messages' = messages \o <<Message("assistant", it + 1, 1, {})>> \o Results(calls)
  /\ IF state'.done \/ grace \/ late \/ LastRound THEN EndWith(WhyEnd) ELSE NextRound
  /\ UNCHANGED <<grace, late, used, stray, offered, faults>>

\* The clock is read at the top of a round, before the offer.
TimePasses ==
  /\ pc \in {"top", "summing"}
  /\ ~late
  /\ late' = TRUE
  /\ UNCHANGED <<messages, it, strikes, grace, pc, used, bg, stray, offered, reason, state, faults>>

-----------------------------------------------------------------------------
Init ==
  /\ \E size \in Openings :
       messages = <<Message("system", 0, 1, {}), Message("user", 0, size, {})>>
  /\ it = 0 /\ strikes = 0 /\ used = 0 /\ stray = 0 /\ faults = 0
  /\ grace = FALSE /\ late = FALSE
  /\ pc = "top"
  /\ bg = NoBg
  /\ offered = "all"
  /\ reason = ""
  /\ state = [done |-> FALSE, failed |-> FALSE]

Step ==
  \/ CompressNow \/ Compressed \/ Land \/ LandFailure \/ CompressBehind
  \/ NothingToCompress \/ Offer \/ ChatFails \/ EmptyTurn \/ Turn

Next == Step \/ BgEnds \/ TimePasses

Spec == Init /\ [][Next]_vars
FairSpec == Spec /\ WF_vars(Step) /\ WF_vars(BgEnds)

-----------------------------------------------------------------------------
Outs == {"ended", "raised"}

TypeOK ==
  /\ it \in 0..MaxIterations - 1 /\ strikes \in 0..MaxEmpty + 1
  /\ used \in Nat /\ stray \in Nat /\ faults \in 0..MaxFaults
  /\ grace \in BOOLEAN /\ late \in BOOLEAN
  /\ pc \in {"top", "summing", "offer", "chat"} \cup Outs
  /\ bg.state \in {"none", "running", "ok", "empty", "failed"}
  /\ bg.told \subseteq 0..MaxIterations
  /\ offered \in {"all", "closing"}
  /\ reason \in {"", "task_done", "grace_round", "empty_rounds_exceeded"}
  /\ state \in [done : BOOLEAN, failed : BOOLEAN]
  /\ \A m \in Range(messages) :
       m.role \in Roles /\ m.round \in 0..MaxIterations /\ m.told \subseteq 0..MaxIterations

\* Every tool result follows the assistant turn that called it, and the
\* opening stands once at the head: a list the LLM accepts.
WellFormed(ms) ==
  /\ \A i \in DOMAIN ms : ms[i].role = "tool" =>
       \E j \in 1..i - 1 : ms[j].role = "assistant" /\ ms[j].round = ms[i].round
  /\ {i \in DOMAIN ms : ms[i].role = "system"} = {1}

\* Once the list is longer than the two opening messages and the active zone,
\* no compression cuts a tool result from its call or repeats the opening
\* (_split_zones; shorter lists of large messages are cut wrongly).
CutKeepsPairs ==
  [][Len(messages) >= ActiveZone + 2 /\ WellFormed(messages) => WellFormed(messages')]_vars

\* What a round found leaves the conversation only when a background summary
\* lands on a list that has grown since: a compression in place, one that
\* fails and one that is empty lose nothing (compress_messages).
LossOnlyByLanding ==
  [][Told(messages) \subseteq Told(messages') \/ (pc = "top" /\ bg.state = "ok")]_vars

\* A session that stops by a limit has asked for the comments first: its last
\* chat offered code_comment and task_done only (the grace round).
LimitsGrace ==
  pc = "ended" /\ ~state.done /\ reason # "empty_rounds_exceeded"
    => grace /\ offered = "closing"

Settled == pc \in Outs
=============================================================================
