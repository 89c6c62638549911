----------------------------- MODULE ReviewCases -----------------------------
(***************************************************************************)
(* Inputs for the algorithms of ReviewOps, one per behaviour, and what     *)
(* their results must satisfy.  The change of a case is picked first and   *)
(* what is done with it next, so that no set of all cases is built.        *)
(***************************************************************************)
EXTENDS ReviewOps

CONSTANTS
  LinesMax,    \* bound: lines of a hunk
  FoundMax,    \* bound: findings of a round
  NoPath       \* a path that is not in the change

CasesAssumption == OpsAssumption /\ LinesMax \in Nat /\ FoundMax \in Nat

VARIABLES
  kind,   \* "none", then which algorithm the case is for
  given   \* its input

vars == <<kind, given>>

Sizes  == {[churn |-> 1, tokens |-> 1], [churn |-> 2, tokens |-> 2],
           [churn |-> 2, tokens |-> GroupBudget + 1]}
Names  == <<"f1", "f2", "f3">>
Change == UNION {[1..n -> Sizes] : n \in 0..3}
Diffs(c) == [i \in DOMAIN c |->
               [path |-> Names[i], churn |-> c[i].churn, tokens |-> c[i].tokens]]

Asked    == {"f1", "f2", "f3", NoPath}
HunkLine == [type : {" ", "+", "-"}, text : {"a", "b", ""}]

Found    == [file : {"f1", "f2"}, text : {1, 2}]
Reported == [file : {"f1"}, body : {1, 2}, code : {3, 4}]

-----------------------------------------------------------------------------
PickGroups ==
  /\ kind = "none"
  /\ kind' = "change"
  /\ \E c \in Change : given' = [diffs |-> Diffs(c)]

AnswerGroups ==
  /\ kind = "change"
  /\ kind' = "groups"
  /\ \/ given' = [diffs |-> given.diffs, answer |-> <<>>]
     \/ /\ Len(given.diffs) = 3
        /\ \E one \in SeqOf(Asked, 3), two \in SeqOf(Asked, 2) :
             given' = [diffs |-> given.diffs, answer |-> <<one, two>>]

\* The file is a line, the hunk's new side and a line.
PickHunk ==
  /\ kind = "none"
  /\ kind' = "hunk"
  /\ \E lines \in SeqOf(HunkLine, LinesMax), top, bottom \in {"a", "b"} :
       given' = [hunk |-> [old |-> 2, new |-> 2, lines |-> lines],
                 top |-> top, bottom |-> bottom]

PickNeedle ==
  /\ kind = "hunk"
  /\ kind' = "anchor"
  /\ \E needle \in SeqOf({"a", "b"}, 2) :
       given' = [hunk |-> given.hunk, top |-> given.top, bottom |-> given.bottom,
                 needle |-> needle]

PickRounds ==
  /\ kind = "none"
  /\ kind' = "rounds"
  /\ \E before, after \in SeqOf(Found, FoundMax), covered \in SUBSET {"f1", "f2"} :
       given' = [before |-> before, after |-> after, covered |-> covered]

PickReports ==
  /\ kind = "none"
  /\ kind' = "reports"
  /\ \E found \in SeqOf(Reported, FoundMax),
        calls \in SeqOf([name : {"report", "approve", "other"}, ids : SUBSET {0, 2}], 2) :
       given' = [found |-> found, calls |-> calls]

PickArguments ==
  /\ kind = "none"
  /\ kind' = "arguments"
  /\ \E shape \in {"array", "object", "array_text", "object_text", "unreadable"},
        items \in SeqOf({"comment", "no text", "no object"}, 3), flat \in BOOLEAN :
       /\ shape \in {"object", "object_text"} => items # <<>>
       /\ given' = [shape |-> shape, items |-> items, flat |-> flat]

PickChain ==
  /\ kind = "none"
  /\ kind' = "chain"
  /\ \E answers \in SeqOf({"ok", "LLMError", "crash"}, 3) : given' = [answers |-> answers]

Init == kind = "none" /\ given = [diffs |-> <<>>]

Next ==
  \/ PickGroups \/ AnswerGroups \/ PickHunk \/ PickNeedle \/ PickRounds
  \/ PickReports \/ PickArguments \/ PickChain

Spec == Init /\ [][Next]_vars

-----------------------------------------------------------------------------
\* Every file that fits is in a group, in one only unless a single list of
\* the LLM repeats it; a group keeps to the limits or is one file
\* (grouping.py: no file is lost, whatever the LLM answers).
GroupsCover ==
  kind = "groups" =>
    LET groups == GroupDiffs(given.diffs, given.answer)
        named(d) == {g \in DOMAIN groups : d \in Range(groups[g])}
    IN  /\ \A d \in Range(given.diffs) :
             IF d.tokens > GroupBudget THEN named(d) = {}
             ELSE /\ named(d) # {}
                  /\ Cardinality(named(d)) > 1 =>
                       \E l \in DOMAIN given.answer : ~IsInjective(given.answer[l])
        /\ \A g \in DOMAIN groups :
             Len(groups[g]) <= MaxFiles /\ SumOf(LAMBDA d : d.tokens, groups[g]) <= GroupBudget

NewText(c) == <<c.top>> \o [i \in DOMAIN NewSide(c.hunk) |-> NewSide(c.hunk)[i][2]] \o <<c.bottom>>
OldText(c) == <<c.top>> \o [i \in DOMAIN OldSide(c.hunk) |-> OldSide(c.hunk)[i][2]] \o <<c.bottom>>

\* The lines of a text from first to last, without the blank ones.
Reads(text, a) == Filter(SubSeq(text, a.first, a.last), Range(text) \ {""})

\* An anchor names lines that read as the snippet, in the file of its side;
\* what the diff track can anchor the agentic one can; and a snippet with no
\* anchor is nowhere in the new file (location.py, relocation.py).
AnchorsRead ==
  kind = "anchor" =>
    LET hunks == <<given.hunk>>
        a == Located(hunks, NewText(given), given.needle)
        b == Relocated(hunks, NewText(given), given.needle)
    IN  /\ \A x \in {a, b} \ {NoAnchor} :
             /\ Reads(IF x.side = "RIGHT" THEN NewText(given) ELSE OldText(given), x)
                  = given.needle
             /\ x.side = "LEFT" => x.first \in CommentableLines(hunks, "LEFT")
        /\ a # NoAnchor => b # NoAnchor
        /\ a = NoAnchor /\ given.needle # <<>> =>
             InFile(NewText(given), given.needle) = NoAnchor

Multiplicity(s, ps, x) == Cardinality({i \in ps : s[i] = x})

\* For every finding the copies add up: those before are resolved, not
\* reviewed or persist, those after persist or are new, and a copy is new or
\* gone only when its like is not on the other side.  A rate of 100 says that
\* nothing is open; it is rounded, so one of 200 does not show (bucket_compare).
BucketsBalance ==
  kind = "rounds" =>
    LET b == Buckets(given.before, given.after, given.covered)
        rate == ConvergenceRate(<<[found |-> given.before, covered |-> {}],
                                  [found |-> given.after, covered |-> given.covered]>>)
    IN  /\ \A x \in Found :
             LET was  == Multiplicity(given.before, DOMAIN given.before, x)
                 is   == Multiplicity(given.after, DOMAIN given.after, x)
                 kept == Multiplicity(given.after, b.persisting, x)
                 gone == Multiplicity(given.before, b.resolved \cup b.not_reviewed, x)
             IN  /\ was = kept + gone
                 /\ is = kept + Multiplicity(given.after, b.new, x)
                 /\ gone = 0 \/ is = kept
        /\ rate \in 0..100
        /\ rate = 100 /\ Len(given.before) < 200 => b.persisting = {} /\ b.not_reviewed = {}

\* No two findings that are kept are the same, none is dropped without one
\* that is; the fact check drops only what its first verdict names; a batch
\* keeps its good comments whatever the others are; a chain of models fails
\* with LLMError only when each of them does.
AnswersKept ==
  /\ kind = "reports" =>
       LET m == Merged(given.found) IN
       /\ \A i, j \in DOMAIN m : i # j => ~Same(m[i], m[j])
       /\ \A f \in Range(given.found) : \E g \in Range(m) : Same(f, g)
       /\ Len(Kept(given.found, given.calls)) < Len(given.found) =>
            \E c \in Range(given.calls) : c.name = "report" /\ c.ids # {}
  /\ kind = "arguments" =>
       LET whole == given.shape \in {"array", "array_text"} IN
       /\ whole => Len(Accepted(given)) >=
            Cardinality({i \in DOMAIN given.items : given.items[i] = "comment"})
       /\ given.flat /\ given.shape = "unreadable" => Accepted(given) # <<>>
  /\ kind = "chain" =>
       (Completed(given.answers) = "LLMError") <=> (Range(given.answers) \subseteq {"LLMError"})
============================================================================
