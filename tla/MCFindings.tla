----------------------------- MODULE MCFindings -----------------------------
EXTENDS Findings, TLC

CONSTANTS h1, h2, h3, fa, fb, i1, i2, v1, v2

\* i1 is in file fa, i2 in file fb.
MCFileOf == i1 :> fa @@ i2 :> fb

\* A head adds fb, the next one changes it, the file fa stays the same; or fa
\* is deleted and comes back as it was.
MCContents ==
  {h1 :> (fa :> v1 @@ fb :> None) @@ h2 :> (fa :> v1 @@ fb :> v1)
      @@ h3 :> (fa :> v1 @@ fb :> v2),
   h1 :> (fa :> v1 @@ fb :> v1) @@ h2 :> (fa :> Gone @@ fb :> None)
      @@ h3 :> (fa :> v1 @@ fb :> v1)}

Perms == Permutations(Reviewers)
=============================================================================
