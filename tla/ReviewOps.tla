------------------------------ MODULE ReviewOps ------------------------------
(***************************************************************************)
(* The pure algorithms of a review: how the files of a change are grouped, *)
(* where a quoted snippet is anchored in a diff, how findings are merged,  *)
(* filtered and compared between rounds, what is kept of what an LLM says. *)
(* ReviewCases compares them with reference definitions.                   *)
(***************************************************************************)
EXTENDS Integers, Sequences, FiniteSets, SequencesExt

CONSTANTS
  SmallFiles,  \* SMALL_FILE_THRESHOLD
  SmallChurn,  \* SMALL_CHURN_THRESHOLD
  MaxFiles,    \* MAX_FILES_PER_GROUP
  GroupBudget  \* group_token_budget

OpsAssumption ==
  /\ SmallFiles \in Nat /\ SmallChurn \in Nat
  /\ MaxFiles \in Nat \ {0} /\ GroupBudget \in Nat

\* What of s is in T, in its order: SelectSeq as a fold.
Filter(s, T) == FoldLeft(LAMBDA acc, x : IF x \in T THEN Append(acc, x) ELSE acc, <<>>, s)

SumOf(f(_), s) == FoldSeq(LAMBDA x, n : f(x) + n, 0, s)

-----------------------------------------------------------------------------
(* Grouping.  A change is a sequence of [path, churn, tokens].             *)

Paths(ds) == {ds[i].path : i \in DOMAIN ds}

PerFile(ds) == [i \in DOMAIN ds |-> <<ds[i]>>]

UsableFiles(ds) == Filter(ds, {d \in Range(ds) : d.tokens <= GroupBudget})

\* Few files are grouped without the LLM: all together when they are small.
ShortCircuit(ds) ==
  IF Len(ds) > 1 /\ SumOf(LAMBDA d : d.churn, ds) < SmallChurn THEN <<ds>> ELSE PerFile(ds)

Chunks(g) ==
  [k \in 1..((Len(g) + MaxFiles - 1) \div MaxFiles) |->
     SubSeq(g, (k - 1) * MaxFiles + 1, IF k * MaxFiles < Len(g) THEN k * MaxFiles ELSE Len(g))]

SplitOversized(groups) == FlattenSeq([i \in DOMAIN groups |-> Chunks(groups[i])])

\* A group over the budget is taken apart into its files.
WithinBudget(groups) ==
  FlattenSeq([i \in DOMAIN groups |->
    IF SumOf(LAMBDA d : d.tokens, groups[i]) <= GroupBudget
    THEN <<groups[i]>> ELSE PerFile(groups[i])])

\* The lists the LLM gives: a file goes to the first list that names it,
\* unknown paths are dropped, files no list names form groups of their own.
GroupedByPaths(ds, lists) ==
  LET named == FoldLeft(LAMBDA acc, list :
                 LET g == Filter(list, Paths(ds) \ acc.taken)
                 IN  [taken |-> acc.taken \cup Range(g),
                      out   |-> IF g = <<>> THEN acc.out
                                ELSE Append(acc.out, [i \in DOMAIN g |->
                                       CHOOSE d \in Range(ds) : d.path = g[i]])],
               [taken |-> {}, out |-> <<>>], lists)
  IN  named.out \o PerFile(Filter(ds, {d \in Range(ds) : d.path \notin named.taken}))

\* answer: what the grouping LLM gives, <<>> when it cannot be had (twice).
GroupDiffs(diffs, answer) ==
  LET ds == UsableFiles(diffs)
  IN  IF ds = <<>> THEN <<>>
      ELSE IF Len(ds) <= 1 \/ Len(ds) < SmallFiles
           THEN WithinBudget(SplitOversized(ShortCircuit(ds)))
      ELSE IF answer = <<>> THEN WithinBudget(PerFile(ds))
      ELSE WithinBudget(SplitOversized(GroupedByPaths(ds, answer)))

-----------------------------------------------------------------------------
(* Diffs and anchors.  A hunk is [old, new, lines], a line [type, text]     *)
(* with the normalised text, "" for a blank line.  A side of a hunk is a    *)
(* sequence of <<number, text>>.                                            *)

\* Mutant: deleted lines count on the new side.
NewSideCountingAll(h) ==
  FoldLeft(LAMBDA acc, l :
             [n   |-> acc.n + 1,
              out |-> IF l.type = "-" THEN acc.out ELSE Append(acc.out, <<acc.n, l.text>>)],
           [n |-> h.new, out |-> <<>>], h.lines).out

\* The lines of a side, numbered from first on; those of type other are not on it.
Side(lines, first, other) ==
  FoldLeft(LAMBDA acc, l :
             IF l.type = other THEN acc
             ELSE [n |-> acc.n + 1, out |-> Append(acc.out, <<acc.n, l.text>>)],
           [n |-> first, out |-> <<>>], lines).out

NewSide(h) == Side(h.lines, h.new, "-")
OldSide(h) == Side(h.lines, h.old, "+")

Solid(side) == Filter(side, {l \in Range(side) : l[2] # ""})

NoAnchor == [side |-> "none", first |-> 0, last |-> 0]

\* The first run of consecutive lines that reads needle.
MatchConsecutive(lines, needle, side) ==
  LET starts == {i \in 1..Len(lines) - Len(needle) + 1 :
                   \A k \in DOMAIN needle : lines[i + k - 1][2] = needle[k]}
      i == CHOOSE m \in starts : \A n \in starts : m <= n
  IN  IF needle = <<>> \/ starts = {} THEN NoAnchor
      ELSE [side |-> side, first |-> lines[i][1], last |-> lines[i + Len(needle) - 1][1]]

\* The first that is an anchor.
FirstOf(anchors) ==
  LET hits == {i \in DOMAIN anchors : anchors[i] # NoAnchor}
  IN  IF hits = {} THEN NoAnchor ELSE anchors[CHOOSE i \in hits : \A j \in hits : i <= j]

Numbered(content) == [i \in DOMAIN content |-> <<i, content[i]>>]

InFile(content, needle) == MatchConsecutive(Solid(Numbered(content)), needle, "RIGHT")

\* location.py: blank lines of a hunk are part of the run.
Located(hunks, content, needle) ==
  FirstOf([i \in DOMAIN hunks |-> MatchConsecutive(NewSide(hunks[i]), needle, "RIGHT")]
       \o [i \in DOMAIN hunks |-> MatchConsecutive(OldSide(hunks[i]), needle, "LEFT")]
       \o <<InFile(content, needle)>>)

\* relocation.py: they are passed over.
Relocated(hunks, content, needle) ==
  FirstOf([i \in DOMAIN hunks |-> MatchConsecutive(Solid(NewSide(hunks[i])), needle, "RIGHT")]
       \o [i \in DOMAIN hunks |-> MatchConsecutive(Solid(OldSide(hunks[i])), needle, "LEFT")]
       \o <<InFile(content, needle)>>)

\* The lines of a side a comment may be put on.
CommentableLines(hunks, side) ==
  UNION {{l[1] : l \in Range(IF side = "RIGHT" THEN NewSide(hunks[i]) ELSE OldSide(hunks[i]))} :
           i \in DOMAIN hunks}

\* The one other file a snippet is in; none when several have it.
FoundElsewhere(contents, needle) ==
  LET hits == {f \in DOMAIN contents : InFile(contents[f], needle) # NoAnchor}
  IN  IF Cardinality(hits) = 1 THEN CHOOSE f \in hits : TRUE ELSE "none"

-----------------------------------------------------------------------------
(* Findings.  [file, body, code] within a run, fingerprints between rounds. *)

Same(a, b) == a.file = b.file /\ {a.body, a.code} \cap {b.body, b.code} # {}

\* What is kept of the groups' findings, in their order (_fingerprint_dup).
Merged(found) ==
  FoldLeft(LAMBDA acc, f :
             IF \E i \in DOMAIN acc : Same(acc[i], f) THEN acc ELSE Append(acc, f),
           <<>>, found)

\* The findings a fact check keeps: the first verdict counts, ids that name
\* no candidate do not, and no verdict at all approves.  A call is
\* [name, ids].
Kept(found, calls) ==
  LET verdicts == Filter(calls, {c \in Range(calls) : c.name \in {"report", "approve"}})
      dropped  == IF verdicts = <<>> \/ verdicts[1].name = "approve" THEN {}
                  ELSE verdicts[1].ids
      index    == Filter([i \in DOMAIN found |-> i], {i \in DOMAIN found : i - 1 \notin dropped})
  IN  [k \in DOMAIN index |-> found[index[k]]]

Occurrences(s, x, n) == Cardinality({i \in 1..n : s[i] = x})

\* Mutant: a finding that is there before and after is one of both sides,
\* however often it is there.
PersistingOnce(before, after) ==
  {i \in DOMAIN after : after[i] \in Range(before)}

\* Of the copies of a finding after, as many as there were before persist.
Persisting(before, after) ==
  {i \in DOMAIN after :
     Occurrences(after, after[i], i) <= Occurrences(before, after[i], Len(before))}

\* bucket_compare: positions in after (new, persisting) and before (resolved,
\* not_reviewed); the file of a finding is part of its fingerprint.
Buckets(before, after, covered) ==
  LET gone == {i \in DOMAIN before :
                 Occurrences(before, before[i], i) > Occurrences(after, before[i], Len(after))}
  IN  [persisting   |-> Persisting(before, after),
       new          |-> DOMAIN after \ Persisting(before, after),
       resolved     |-> {i \in gone : before[i].file \in covered},
       not_reviewed |-> {i \in gone : before[i].file \notin covered}]

\* round(resolved / counted * 100), halves to even; all is well with nothing
\* to converge.
Rate(resolved, counted) ==
  LET q == (100 * resolved) \div counted
      r == 2 * ((100 * resolved) % counted)
  IN  IF counted = 0 THEN 100
      ELSE IF r < counted THEN q
      ELSE IF r > counted THEN q + 1 ELSE q + (q % 2)

\* The rounds of a pull request, each compared with the one before it; the
\* last one gives the rate.  A round is [found, covered].
LastDelta(rounds) ==
  LET n      == Len(rounds)
      before == IF n = 1 THEN <<>> ELSE rounds[n - 1].found
  IN  Buckets(before, rounds[n].found, rounds[n].covered)

ConvergenceRate(rounds) ==
  LET d == LastDelta(rounds)
      r == Cardinality(d.resolved)
      p == Cardinality(d.persisting) + Cardinality(d.not_reviewed)
  IN  Rate(r, r + p)

-----------------------------------------------------------------------------
(* What is taken from an LLM's answer.                                      *)

\* The comments of a code_comment call, whatever shape the model gave them:
\* an array, an array or an object as a string, one object, or the fields of
\* one comment at the top.  args is [shape, items, flat].
CommentItems(args) ==
  IF args.shape \in {"array", "array_text"} /\ args.items # <<>> THEN args.items
  ELSE IF args.shape \in {"object", "object_text"} THEN SubSeq(args.items, 1, 1)
  ELSE IF args.flat THEN <<"comment">> ELSE <<>>

\* A comment without a text, or without a path in a session that has no group
\* key, is dropped; the others of the call stay.
Accepted(args) == Filter(CommentItems(args), {"comment"})

Clamp(value, cap) == IF value < 0 THEN 0 ELSE IF value > cap THEN cap ELSE value

\* The chain of models: LLMError goes on to the next one, any other
\* exception comes out at once.
Completed(answers) ==
  LET stops == {i \in DOMAIN answers : answers[i] # "LLMError"}
  IN  IF stops = {} THEN "LLMError" ELSE answers[CHOOSE i \in stops : \A j \in stops : i <= j]

\* A reply that cannot be read is asked for once more.
Reviewed(first, second) ==
  IF first = "ok" THEN "ok" ELSE IF first = "LLMError" THEN "LLMError" ELSE second

\* Whether a group gets a plan first.
PlanRequired(g, single, whole) ==
  g # <<>> /\ SumOf(LAMBDA d : d.churn, g) >= (IF Len(g) = 1 THEN single ELSE whole)
============================================================================
