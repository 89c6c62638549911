--------------------------- MODULE Reviews_proofs ---------------------------
(***************************************************************************)
(* Theorems about the algorithms of a review, for any changes, answers,    *)
(* hunks, files and findings: no file, comment or finding is lost, and an  *)
(* anchor names lines that read as the snippet.                            *)
(*                                                                         *)
(* The algorithms are folds over sequences.  A fold has a history, the     *)
(* values it takes after each element (FoldHistory); what it computes is   *)
(* shown by induction along the history (Induction), which is about sets   *)
(* of numbers and needs no operator as a parameter.                        *)
(***************************************************************************)
EXTENDS Console, SequenceTheorems, FiniteSetTheorems, WellFoundedInduction, TLAPS

-----------------------------------------------------------------------------
(* Induction and folds *)

\* A set of numbers that is not empty has a least one.
LEMMA LeastNat ==
  ASSUME NEW T0 \in SUBSET Nat, T0 # {}
  PROVE  \E m \in T0 : \A n \in T0 : m <= n
<1> DEFINE R1 == {ss \in Nat \X Nat : ss[1] < ss[2]}
<1>1. IsWellFoundedOn(R1, Nat)
  BY NatLessThanWellFounded DEF OpToRel
<1>2. \A x, y \in Nat : y < x => <<y, x>> \in R1
  OBVIOUS
<1> HIDE DEF R1
<1>3. PICK x \in T0 : \A y \in T0 : ~ (<<y, x>> \in R1)
  BY <1>1, WFMin
<1>4. ASSUME NEW n \in T0
      PROVE  x <= n
  <2>1. x \in Nat /\ n \in Nat
    OBVIOUS
  <2>2. ~ (n < x)
    BY <2>1, <1>2, <1>3
  <2> QED
    BY <2>1, <2>2
<1> QED
  BY <1>4

\* A set that has 0, and k + 1 with every k, has all the numbers up to n.
LEMMA Induction ==
  ASSUME NEW n \in Nat, NEW T0, 0 \in T0, \A k \in 0..n - 1 : k \in T0 => k + 1 \in T0
  PROVE  \A k \in 0..n : k \in T0
<1> DEFINE U == {k \in 0..n : k \notin T0}
<1>1. SUFFICES ASSUME U # {}
               PROVE  FALSE
  OBVIOUS
<1>2. U \in SUBSET Nat
  OBVIOUS
<1>3. PICK m \in U : \A k \in U : m <= k
  BY <1>1, <1>2, LeastNat
<1>4. m \in 1..n
  OBVIOUS
<1>5. m - 1 \in 0..n - 1 /\ m - 1 \notin U
  BY <1>3, <1>4
<1>6. (m - 1) + 1 \in T0
  BY <1>5
<1> QED
  BY <1>4, <1>6

\* The greatest element, as folds choose it.
Top(t) == CHOOSE x \in t : \A y \in t : x >= y

\* A set of numbers that is not empty and has a bound has a greatest one.
LEMMA TopIsGreatest ==
  ASSUME NEW n \in Nat, NEW t \in SUBSET (1..n), t # {}
  PROVE  Top(t) \in t /\ \A y \in t : Top(t) >= y
<1> DEFINE U == {n - k : k \in t}
<1>1. \A k \in t : k \in 1..n /\ n - k \in Nat
  OBVIOUS
<1>2. U \in SUBSET Nat /\ U # {}
  BY <1>1
<1>3. PICK u \in U : \A k \in U : u <= k
  BY <1>2, LeastNat
<1>4. PICK m \in t : u = n - m
  BY <1>3
<1>5. ASSUME NEW k \in t
      PROVE  m >= k
  <2>1. n - m <= n - k
    BY <1>3, <1>4
  <2> QED
    BY <1>1, <2>1
<1> QED
  BY <1>5 DEF Top

\* The greatest element of a set up to k that has k.
LEMMA TopOfInterval ==
  ASSUME NEW n \in Nat, NEW k \in 1..n, NEW t \in SUBSET (1..k), k \in t
  PROVE  Top(t) = k
<1>1. t \in SUBSET (1..n)
  OBVIOUS
<1>2. Top(t) \in t /\ Top(t) >= k
  BY <1>1, TopIsGreatest
<1>3. Top(t) \in 1..k
  BY <1>2
<1> QED
  BY <1>2, <1>3

\* The equation of a fold of values in Y with steps G: what is left of a set
\* without its greatest element comes first.
Folds(f, n, base, Y, G) ==
  /\ f[{}] = base
  /\ \A t \in SUBSET (1..n) :
       t # {} /\ f[t \ {Top(t)}] \in Y => f[t] = G[<<Top(t), f[t \ {Top(t)}]>>]

\* The equation has a solution.
LEMMA FoldExists ==
  ASSUME NEW n \in Nat, NEW Y, NEW base \in Y, NEW G \in [(1..n) \X Y -> Y]
  PROVE  \E f \in [SUBSET (1..n) -> Y] : Folds(f, n, base, Y, G)
<1> DEFINE Solved(k) == \E f \in [SUBSET (1..k) -> Y] : Folds(f, k, base, Y, G)
           Good == {k \in 0..n : Solved(k)}
<1>1. Solved(0)
  <2> DEFINE f == [t \in SUBSET (1..0) |-> base]
  <2>1. \A t \in SUBSET (1..0) : t = {}
    OBVIOUS
  <2>2. f \in [SUBSET (1..0) -> Y] /\ f[{}] = base
    OBVIOUS
  <2> HIDE DEF f
  <2>3. Folds(f, 0, base, Y, G)
    BY ONLY <2>1, <2>2 DEF Folds
  <2> QED
    BY <2>2, <2>3
<1>2. ASSUME NEW k \in 0..n - 1, Solved(k)
      PROVE  Solved(k + 1)
  <2>1. PICK f \in [SUBSET (1..k) -> Y] : Folds(f, k, base, Y, G)
    BY <1>2
  <2> DEFINE g == [t \in SUBSET (1..k + 1) |->
                     IF k + 1 \in t THEN G[<<k + 1, f[t \ {k + 1}]>>] ELSE f[t]]
  <2>2. ASSUME NEW t \in SUBSET (1..k + 1)
        PROVE  /\ t \ {k + 1} \in SUBSET (1..k)
               /\ k + 1 \notin t => t \in SUBSET (1..k)
               /\ g[t] \in Y
    <3>1. t \ {k + 1} \in SUBSET (1..k) /\ (k + 1 \notin t => t \in SUBSET (1..k))
      OBVIOUS
    <3>2. k + 1 \in 1..n
      OBVIOUS
    <3> QED
      BY <3>1, <3>2
  <2>3. g[{}] = base
    <3>1. {} \in SUBSET (1..k + 1) /\ k + 1 \notin {}
      OBVIOUS
    <3> QED
      BY <2>1, <3>1 DEF Folds
  <2>4. ASSUME NEW t \in SUBSET (1..k + 1), t # {}
        PROVE  g[t] = G[<<Top(t), g[t \ {Top(t)}]>>]
    <3>1. CASE k + 1 \in t
      <4>1. Top(t) = k + 1
        BY <3>1, TopOfInterval
      <4>2. t \ {k + 1} \in SUBSET (1..k + 1) /\ k + 1 \notin t \ {k + 1}
        OBVIOUS
      <4> QED
        BY <3>1, <4>1, <4>2
    <3>2. CASE k + 1 \notin t
      <4>1. t \in SUBSET (1..k)
        BY <2>2, <3>2
      <4>2. f[t] = G[<<Top(t), f[t \ {Top(t)}]>>]
        BY <2>1, <2>4, <4>1 DEF Folds
      <4>3. t \ {Top(t)} \in SUBSET (1..k + 1) /\ k + 1 \notin t \ {Top(t)}
        BY <3>2
      <4>4. g[t \ {Top(t)}] = f[t \ {Top(t)}] /\ g[t] = f[t]
        BY <3>2, <4>3
      <4> QED
        BY <4>2, <4>4
    <3> QED
      BY <3>1, <3>2
  <2>5. g \in [SUBSET (1..k + 1) -> Y]
    BY <2>2
  <2> HIDE DEF g
  <2>6. Folds(g, k + 1, base, Y, G)
    BY <2>3, <2>4 DEF Folds
  <2> QED
    BY <2>5, <2>6
<1> HIDE DEF Solved
<1>3. 0 \in Good /\ \A k \in 0..n - 1 : k \in Good => k + 1 \in Good
  BY <1>1, <1>2
<1> HIDE DEF Good
<1>4. n \in Good
  BY <1>3, Induction
<1> QED
  BY <1>4 DEF Good, Solved

\* The history of a fold: it begins with the base, each element makes a step,
\* and whatever solves the equation ends with it.
History(h, n, base, Y, G) ==
  /\ h \in [0..n -> Y]
  /\ h[0] = base
  /\ \A i \in 1..n : h[i] = G[<<i, h[i - 1]>>]
  /\ \A f : Folds(f, n, base, Y, G) => f[1..n] = h[n]

\* Every fold has a history.
LEMMA FoldHistory ==
  ASSUME NEW n \in Nat, NEW Y, NEW base \in Y, NEW G \in [(1..n) \X Y -> Y]
  PROVE  \E h : History(h, n, base, Y, G)
<1>1. PICK it \in [SUBSET (1..n) -> Y] : Folds(it, n, base, Y, G)
  BY FoldExists
<1> DEFINE h == [i \in 0..n |-> it[1..i]]
<1>2. \A i \in 0..n : 1..i \in SUBSET (1..n)
  OBVIOUS
<1>3. h \in [0..n -> Y]
  BY <1>2
<1>4. ASSUME NEW f, Folds(f, n, base, Y, G), NEW i \in 1..n, f[1..i - 1] \in Y
      PROVE  f[1..i] = G[<<i, f[1..i - 1]>>]
  <2>1. i \in 1..i /\ 1..i # {} /\ 1..i \in SUBSET (1..n)
    OBVIOUS
  <2>2. (1..i) \ {i} = 1..i - 1
    <3>1. i \in Nat
      OBVIOUS
    <3>2. (1..i) \ {i} \subseteq 1..i - 1
      BY ONLY <3>1
    <3>3. 1..i - 1 \subseteq (1..i) \ {i}
      BY ONLY <3>1
    <3> QED
      BY ONLY <3>2, <3>3
  <2>3. Top(1..i) = i
    BY <2>1, TopOfInterval
  <2> QED
    BY <1>4, <2>1, <2>3, <2>2 DEF Folds
<1>5. 1..0 = {}
  OBVIOUS
<1>6. h[0] = base
  BY <1>1, <1>5 DEF Folds
<1>7. \A i \in 1..n : h[i] = G[<<i, h[i - 1]>>]
  <2> TAKE i \in 1..n
  <2>1. i \in 0..n /\ i - 1 \in 0..n
    OBVIOUS
  <2>2. it[1..i - 1] \in Y
    BY <1>2, <2>1
  <2> QED
    BY <1>1, <1>4, <2>1, <2>2
<1> HIDE DEF h
<1>8. ASSUME NEW f, Folds(f, n, base, Y, G)
      PROVE  f[1..n] = h[n]
  <2> DEFINE Good == {i \in 0..n : f[1..i] = h[i]}
  <2>1. 0 \in Good
    BY <1>5, <1>6, <1>8 DEF Folds
  <2>2. \A k \in 0..n - 1 : k \in Good => k + 1 \in Good
    <3> TAKE k \in 0..n - 1
    <3>1. k + 1 \in 1..n /\ (k + 1) - 1 = k
      OBVIOUS
    <3>2. h[k + 1] = G[<<k + 1, h[k]>>] /\ h[k] \in Y
      BY <1>3, <1>7, <3>1
    <3>3. f[1..k] = h[k] => f[1..k + 1] = G[<<k + 1, f[1..k]>>]
      BY <1>4, <1>8, <3>1, <3>2
    <3> QED
      BY <3>2, <3>3
  <2> HIDE DEF Good
  <2>3. n \in Good
    BY <2>1, <2>2, Induction
  <2> QED
    BY <2>3 DEF Good
<1> QED
  BY <1>3, <1>6, <1>7, <1>8 DEF History

-----------------------------------------------------------------------------
(* Filter *)

\* The history of a filter.
Filtering(h, s, T0, X) ==
  /\ h \in [0..Len(s) -> Seq(X)]
  /\ h[0] = <<>>
  /\ \A i \in 1..Len(s) : h[i] = IF s[i] \in T0 THEN Append(h[i - 1], s[i]) ELSE h[i - 1]
  /\ R!Filter(s, T0) = h[Len(s)]

\* A filter has a history.
LEMMA FilterHistory ==
  ASSUME NEW X, NEW s \in Seq(X), NEW T0
  PROVE  \E h : Filtering(h, s, T0, X)
<1> DEFINE n == Len(s)
           D == 1..n
           Y == Seq(X)
           step(f, t) == IF s[Top(t)] \in T0 THEN Append(f[t \ {Top(t)}], s[Top(t)])
                         ELSE f[t \ {Top(t)}]
           body(f) == [t \in SUBSET D |-> IF t = {} THEN <<>> ELSE step(f, t)]
           iter == CHOOSE f : f = body(f)
           G == [p \in D \X Y |-> IF s[p[1]] \in T0 THEN Append(p[2], s[p[1]]) ELSE p[2]]
<1>1. n \in Nat /\ DOMAIN s = D /\ \A i \in D : s[i] \in X
  BY LenProperties, ElementOfSeq
<1>2. R!Filter(s, T0) = iter[D]
  BY <1>1 DEF R!Filter, R!FoldLeft, R!MapThenFoldSet, R!Max, Top
<1>3. G \in [D \X Y -> Y] /\ <<>> \in Y
  <2>1. ASSUME NEW i \in D, NEW q \in Y
        PROVE  Append(q, s[i]) \in Y
    BY <1>1, AppendProperties
  <2> QED
    BY <2>1
<1>4. \A i \in D, q \in Y : G[<<i, q>>] = IF s[i] \in T0 THEN Append(q, s[i]) ELSE q
  OBVIOUS
<1> HIDE DEF G, D, n, Y
<1>5. \A t \in SUBSET D : t # {} => Top(t) \in D
  BY <1>1, TopIsGreatest DEF D
<1>6. \E f : f = body(f)
  <2>1. PICK it \in [SUBSET D -> Y] : Folds(it, n, <<>>, Y, G)
    BY <1>1, <1>3, FoldExists DEF D
  <2>2. ASSUME NEW t \in SUBSET D
        PROVE  it[t] = IF t = {} THEN <<>> ELSE step(it, t)
    <3>1. t \ {Top(t)} \in SUBSET D /\ it[t \ {Top(t)}] \in Y
      OBVIOUS
    <3> QED
      BY <1>4, <1>5, <2>1, <3>1 DEF Folds, D
  <2> QED
    BY <2>1, <2>2
<1>7. iter = body(iter)
  BY <1>6
<1> HIDE DEF iter
<1>8. Folds(iter, n, <<>>, Y, G)
  <2>1. \A t \in SUBSET D : iter[t] = IF t = {} THEN <<>> ELSE step(iter, t)
    BY <1>7
  <2> QED
    BY <1>4, <1>5, <2>1 DEF Folds, D
<1>9. PICK h : History(h, n, <<>>, Y, G)
  BY <1>1, <1>3, FoldHistory DEF D
<1>10. R!Filter(s, T0) = h[n]
  BY <1>2, <1>8, <1>9 DEF D, History
<1>11. ASSUME NEW i \in 1..n
       PROVE  h[i] = IF s[i] \in T0 THEN Append(h[i - 1], s[i]) ELSE h[i - 1]
  <2>1. i \in D /\ i - 1 \in 0..n
    BY <1>1 DEF D
  <2> QED
    BY <1>4, <1>9, <2>1 DEF History
<1> QED
  BY <1>9, <1>10, <1>11 DEF n, Y, History, Filtering
\* r is what the first m elements of s have in T0, and e its positions in s.
Picks(e, r, s, m, T0) ==
  /\ e \in [1..Len(r) -> 1..m]
  /\ \A j, k \in 1..Len(r) : j < k => e[j] < e[k]
  /\ \A k \in 1..Len(r) : r[k] = s[e[k]] /\ r[k] \in T0
  /\ \A i \in 1..m : s[i] \in T0 => \E k \in 1..Len(r) : e[k] = i

\* A filter picks the elements in the set, all of them and in their order.
LEMMA FilterPicks ==
  ASSUME NEW X, NEW s \in Seq(X), NEW T0
  PROVE  /\ R!Filter(s, T0) \in Seq(X)
         /\ \E e : Picks(e, R!Filter(s, T0), s, Len(s), T0)
<1> DEFINE n == Len(s)
<1>1. n \in Nat
  BY LenProperties
<1>2. PICK h : Filtering(h, s, T0, X)
  BY FilterHistory
<1>3. /\ h \in [0..n -> Seq(X)]
      /\ h[0] = <<>>
      /\ \A i \in 1..n : h[i] = IF s[i] \in T0 THEN Append(h[i - 1], s[i]) ELSE h[i - 1]
      /\ R!Filter(s, T0) = h[n]
  BY <1>2 DEF Filtering
<1> HIDE DEF n
<1> DEFINE Good == {i \in 0..n : \E e : Picks(e, h[i], s, i, T0)}
<1>4. 0 \in Good
  <2>1. \A e : e \in [1..0 -> 1..0] => Picks(e, <<>>, s, 0, T0)
    BY DEF Picks
  <2>2. [k \in 1..0 |-> k] \in [1..0 -> 1..0]
    OBVIOUS
  <2> QED
    BY <1>1, <1>3, <2>1, <2>2
<1>5. ASSUME NEW i \in 0..n - 1, i \in Good
      PROVE  i + 1 \in Good
  <2>1. PICK e : Picks(e, h[i], s, i, T0)
    BY <1>5
  <2> DEFINE r == h[i]
             l == Len(r)
  <2>2. /\ i \in Nat /\ i + 1 \in 1..n /\ i + 1 \in 0..n /\ r \in Seq(X) /\ l \in Nat
        /\ s[i + 1] \in X
        /\ h[i + 1] = IF s[i + 1] \in T0 THEN Append(r, s[i + 1]) ELSE r
    <3>1. i \in 0..n /\ i + 1 \in 1..n /\ (i + 1) - 1 = i
      BY <1>1
    <3>2. r \in Seq(X) /\ l \in Nat
      BY <1>3, <3>1, LenProperties
    <3> QED
      BY <1>3, <3>1, <3>2, ElementOfSeq DEF n
  <2> HIDE DEF r
  <2>3. CASE s[i + 1] \notin T0
    <3>1. Picks(e, r, s, i + 1, T0)
      BY <2>1, <2>2, <2>3 DEF Picks, r
    <3> QED
      BY <2>2, <2>3, <3>1 DEF r
  <2>4. CASE s[i + 1] \in T0
    <3> DEFINE q == Append(r, s[i + 1])
               g == [k \in 1..l + 1 |-> IF k = l + 1 THEN i + 1 ELSE e[k]]
    <3>1. Len(q) = l + 1 /\ q[l + 1] = s[i + 1] /\ \A k \in 1..l : q[k] = r[k]
      BY <2>2, AppendProperties
    <3>2. /\ e \in [1..l -> 1..i]
          /\ \A j, k \in 1..l : j < k => e[j] < e[k]
          /\ \A k \in 1..l : r[k] = s[e[k]] /\ r[k] \in T0
          /\ \A x \in 1..i : s[x] \in T0 => \E k \in 1..l : e[k] = x
      BY <2>1 DEF Picks, r
    <3> HIDE DEF q, l
    <3>3. /\ g \in [1..l + 1 -> 1..i + 1] /\ g[l + 1] = i + 1
          /\ \A k \in 1..l : g[k] = e[k] /\ e[k] \in 1..i
      BY <2>2, <3>2
    <3> HIDE DEF g
    <3>4. \A j, k \in 1..l + 1 : j < k => g[j] < g[k]
      <4> TAKE j, k \in 1..l + 1
      <4> HAVE j < k
      <4>1. j \in 1..l /\ (k \in 1..l \/ k = l + 1)
        BY <2>2
      <4>2. CASE k \in 1..l
        <5>1. e[j] < e[k]
          BY <3>2, <4>1, <4>2
        <5> QED
          BY <3>3, <4>1, <4>2, <5>1
      <4>3. CASE k = l + 1
        <5>1. g[j] \in 1..i /\ g[k] = i + 1
          BY <3>3, <4>1, <4>3
        <5> QED
          BY <2>2, <5>1
      <4> QED
        BY <4>1, <4>2, <4>3
    <3>5. \A k \in 1..l + 1 : q[k] = s[g[k]] /\ q[k] \in T0
      <4> TAKE k \in 1..l + 1
      <4>1. k \in 1..l \/ k = l + 1
        BY <2>2
      <4> QED
        BY <2>4, <3>1, <3>2, <3>3, <4>1
    <3>6. \A x \in 1..i + 1 : s[x] \in T0 => \E k \in 1..l + 1 : g[k] = x
      <4> TAKE x \in 1..i + 1
      <4> HAVE s[x] \in T0
      <4>1. CASE x \in 1..i
        <5>1. PICK k \in 1..l : e[k] = x
          BY <3>2, <4>1
        <5>2. k \in 1..l + 1
          BY <2>2
        <5> QED
          BY <3>3, <5>1, <5>2
      <4>2. CASE x = i + 1
        <5>1. l + 1 \in 1..l + 1
          BY <2>2
        <5> QED
          BY <3>3, <4>2, <5>1
      <4> QED
        BY <2>2, <4>1, <4>2
    <3>7. Picks(g, q, s, i + 1, T0)
      BY <3>1, <3>3, <3>4, <3>5, <3>6 DEF Picks
    <3> QED
      BY <2>2, <2>4, <3>7 DEF q
  <2> QED
    BY <2>3, <2>4
<1>6. \A k \in 0..n - 1 : k \in Good => k + 1 \in Good
  BY <1>5
<1> HIDE DEF Good
<1>7. \A k \in 0..n : k \in Good
  BY ONLY <1>1, <1>4, <1>6, Induction
<1>8. n \in Good
  BY <1>1, <1>7
<1> QED
  BY <1>1, <1>3, <1>8 DEF Good, n
\* The library's Cardinality and Range are the same in every instance.
LEMMA SameLibrary ==
  ASSUME NEW S0
  PROVE  R!Cardinality(S0) = Cardinality(S0) /\ R!Range(S0) = Range(S0)
BY DEF R!Cardinality, Cardinality, R!Range, Range

\* How many numbers there are up to n.
LEMMA IntervalCount ==
  ASSUME NEW n \in Nat
  PROVE  IsFiniteSet(1..n) /\ Cardinality(1..n) = n
<1>1. 1 \in Int /\ n \in Int /\ (IF 1 > n THEN 0 ELSE n - 1 + 1) = n
  OBVIOUS
<1> QED
  BY <1>1, FS_Interval

\* A filter keeps as many elements as are in the set.
LEMMA FilterCount ==
  ASSUME NEW X, NEW s \in Seq(X), NEW T0
  PROVE  /\ IsFiniteSet({i \in 1..Len(s) : s[i] \in T0})
         /\ Len(R!Filter(s, T0)) = Cardinality({i \in 1..Len(s) : s[i] \in T0})
<1> DEFINE r == R!Filter(s, T0)
           U == {i \in 1..Len(s) : s[i] \in T0}
<1>1. Len(r) \in Nat /\ Len(s) \in Nat
  BY FilterPicks, LenProperties
<1>2. PICK e : Picks(e, r, s, Len(s), T0)
  BY FilterPicks
<1> HIDE DEF r
<1>3. e \in [1..Len(r) -> U]
  BY <1>2 DEF Picks
<1>4. \A j, k \in 1..Len(r) : j # k => e[j] # e[k]
  <2>1. \A j \in 1..Len(r) : e[j] \in Int
    BY <1>3
  <2>2. \A j, k \in 1..Len(r) : j < k => e[j] # e[k]
    BY <1>2, <2>1 DEF Picks
  <2>3. \A j, k \in 1..Len(r) : j # k => j < k \/ k < j
    BY <1>1
  <2> QED
    BY <2>2, <2>3
<1>5. \A u \in U : \E k \in 1..Len(r) : e[k] = u
  BY <1>2 DEF Picks
<1>6. e \in Bijection(1..Len(r), U)
  BY <1>3, <1>4, <1>5 DEF Bijection, Injection, Surjection, IsInjective
<1> HIDE DEF U
<1>7. ExistsBijection(1..Len(r), U)
  BY <1>6 DEF ExistsBijection
<1>8. IsFiniteSet(U) /\ Cardinality(U) = Len(r)
  <2>1. IsFiniteSet(1..Len(r)) /\ Cardinality(1..Len(r)) = Len(r)
    BY <1>1, IntervalCount
  <2> QED
    BY <1>7, <2>1, FS_Bijection
<1> QED
  BY <1>8 DEF r, U

\* A filter that everything passes keeps the length.
LEMMA FilterAll ==
  ASSUME NEW X, NEW s \in Seq(X), NEW T0, \A i \in 1..Len(s) : s[i] \in T0
  PROVE  Len(R!Filter(s, T0)) = Len(s)
<1>1. Len(s) \in Nat /\ {i \in 1..Len(s) : s[i] \in T0} = 1..Len(s)
  BY LenProperties
<1>2. Cardinality(1..Len(s)) = Len(s)
  BY <1>1, IntervalCount
<1> QED
  BY <1>1, <1>2, FilterCount

-----------------------------------------------------------------------------
(* What is kept of an answer *)

\* The fact check drops nothing but what its first verdict names
\* (parse_filter_result).
LEMMA KeptUnlessReported ==
  ASSUME NEW X, NEW found \in Seq(X), NEW Z, NEW calls \in Seq(Z),
         Len(R!Kept(found, calls)) < Len(found)
  PROVE  \E c \in R!Range(calls) : c.name = "report" /\ c.ids # {}
<1> DEFINE named == {c \in R!Range(calls) : c.name \in {"report", "approve"}}
           verdicts == R!Filter(calls, named)
           dropped == IF verdicts = <<>> \/ verdicts[1].name = "approve" THEN {}
                      ELSE verdicts[1].ids
           places == [i \in DOMAIN found |-> i]
           stay == {i \in DOMAIN found : i - 1 \notin dropped}
           index == R!Filter(places, stay)
<1>1. /\ Len(found) \in Nat /\ DOMAIN found = 1..Len(found)
      /\ places \in Seq(Nat) /\ Len(places) = Len(found)
  <2>1. Len(found) \in Nat /\ DOMAIN found = 1..Len(found)
    BY LenProperties
  <2>2. [i \in 1..Len(found) |-> i] \in Seq(Nat)
    BY <2>1
  <2> QED
    BY <2>1, <2>2
<1>2. R!Kept(found, calls) = [k \in DOMAIN index |-> found[index[k]]]
  BY DEF R!Kept
<1>3. index \in Seq(Nat) /\ Len(index) \in Nat /\ DOMAIN index = 1..Len(index)
  BY <1>1, FilterPicks, LenProperties
<1> HIDE DEF index
<1>4. Len(R!Kept(found, calls)) = Len(index)
  BY <1>2, <1>3
<1>5. dropped # {}
  <2> SUFFICES ASSUME dropped = {}
               PROVE  FALSE
    OBVIOUS
  <2>1. \A i \in 1..Len(places) : places[i] \in stay
    BY <1>1
  <2>2. Len(index) = Len(places)
    BY <1>1, <2>1, FilterAll DEF index
  <2> QED
    BY <1>1, <1>4, <2>2
<1>6. PICK e : Picks(e, verdicts, calls, Len(calls), named)
  BY FilterPicks
<1>7. verdicts \in Seq(Z) /\ Len(verdicts) \in Nat
  BY FilterPicks, LenProperties
<1>8. verdicts # <<>> /\ verdicts[1].name # "approve" /\ verdicts[1].ids # {}
  BY <1>5
<1> HIDE DEF verdicts
<1>9. 1 \in 1..Len(verdicts)
  BY <1>7, <1>8, EmptySeq
<1>10. verdicts[1] \in named
  BY <1>6, <1>9 DEF Picks
<1> QED
  BY <1>8, <1>10

\* A batch keeps its good comments (_t_code_comment).
LEMMA AcceptedCount ==
  ASSUME NEW args, NEW X, args.items \in Seq(X), args.shape \in {"array", "array_text"}
  PROVE  Len(R!Accepted(args)) >= R!Cardinality({i \in DOMAIN args.items : args.items[i] = "comment"})
<1> DEFINE items == args.items
           good == {i \in DOMAIN items : items[i] = "comment"}
<1>1. /\ Len(items) \in Nat /\ DOMAIN items = 1..Len(items)
      /\ good = {i \in 1..Len(items) : items[i] \in {"comment"}}
  BY LenProperties
<1>2. CASE items # <<>>
  <2>1. R!Accepted(args) = R!Filter(items, {"comment"})
    BY <1>2 DEF R!Accepted, R!CommentItems
  <2>2. Len(R!Filter(items, {"comment"})) \in Nat
    BY FilterPicks, LenProperties
  <2>3. Len(R!Filter(items, {"comment"})) = Cardinality(good)
    <3>1. Len(R!Filter(items, {"comment"})) =
            Cardinality({i \in 1..Len(items) : items[i] \in {"comment"}})
      BY ONLY FilterCount, items \in Seq(X)
    <3> QED
      BY ONLY <1>1, <3>1
  <2> QED
    BY <2>1, <2>2, <2>3, SameLibrary
<1>3. CASE items = <<>>
  <2>1. good = {}
    BY <1>1, <1>3
  <2>2. R!Cardinality(good) = 0
    BY <2>1, SameLibrary, FS_EmptySet
  <2>3. R!CommentItems(args) \in {<<"comment">>, <<>>}
    BY <1>3 DEF R!CommentItems
  <2>4. R!CommentItems(args) \in Seq({"comment"})
    <3>1. <<"comment">> \in Seq({"comment"}) /\ <<>> \in Seq({"comment"})
      OBVIOUS
    <3> QED
      BY <2>3, <3>1
  <2>5. Len(R!Accepted(args)) \in Nat
    BY <2>4, FilterPicks, LenProperties DEF R!Accepted
  <2> QED
    BY <2>2, <2>5
<1> QED
  BY <1>2, <1>3

\* One comment at the top is taken when nothing else can be read.
LEMMA AcceptedFlat ==
  ASSUME NEW args, args.flat, args.shape = "unreadable"
  PROVE  R!Accepted(args) # <<>>
<1>1. R!CommentItems(args) = <<"comment">>
  BY DEF R!CommentItems
<1>2. <<"comment">> \in Seq({"comment"}) /\ Len(<<"comment">>) = 1
  OBVIOUS
<1>3. \A i \in 1..Len(<<"comment">>) : <<"comment">>[i] \in {"comment"}
  OBVIOUS
<1>4. Len(R!Accepted(args)) = 1
  BY <1>1, <1>2, <1>3, FilterAll DEF R!Accepted
<1> QED
  BY <1>4, EmptySeq

\* A chain fails with LLMError only when each of its models does
\* (FallbackGateway.complete).
LEMMA CompletedChain ==
  ASSUME NEW Z, NEW answers \in Seq(Z)
  PROVE  R!Completed(answers) = "LLMError" <=> R!Range(answers) \subseteq {"LLMError"}
<1> DEFINE stops == {i \in DOMAIN answers : answers[i] # "LLMError"}
<1>1. stops \in SUBSET Nat
  BY LenProperties
<1>2. CASE stops = {}
  BY <1>2 DEF R!Completed, R!Range
<1>3. CASE stops # {}
  <2> DEFINE i0 == CHOOSE i \in stops : \A j \in stops : i <= j
  <2>1. i0 \in stops
    BY <1>1, <1>3, LeastNat
  <2>2. R!Completed(answers) = answers[i0]
    BY <1>3 DEF R!Completed
  <2> HIDE DEF i0
  <2> QED
    BY <2>1, <2>2 DEF R!Range
<1> QED
  BY <1>2, <1>3

-----------------------------------------------------------------------------
(* What is kept of the groups' findings *)

\* Being the same does not depend on the order.
LEMMA SameIsMutual ==
  ASSUME NEW a, NEW b
  PROVE  R!Same(a, a) /\ (R!Same(a, b) <=> R!Same(b, a))
<1>1. a.body \in {a.body, a.code} \cap {a.body, a.code}
  OBVIOUS
<1>2. {a.body, a.code} \cap {b.body, b.code} = {b.body, b.code} \cap {a.body, a.code}
  OBVIOUS
<1> QED
  BY <1>1, <1>2 DEF R!Same

\* The history of a merge.
Merging(h, found, X) ==
  /\ h \in [0..Len(found) -> Seq(X)]
  /\ h[0] = <<>>
  /\ \A i \in 1..Len(found) :
       h[i] = IF \E j \in DOMAIN h[i - 1] : R!Same(h[i - 1][j], found[i]) THEN h[i - 1]
              ELSE Append(h[i - 1], found[i])
  /\ R!Merged(found) = h[Len(found)]

\* A merge has a history.
LEMMA MergedHistory ==
  ASSUME NEW X, NEW found \in Seq(X)
  PROVE  \E h : Merging(h, found, X)
<1> DEFINE n == Len(found)
           D == 1..n
           Y == Seq(X)
           Has(q, x) == \E j \in DOMAIN q : R!Same(q[j], x)
           step(f, t) == IF Has(f[t \ {Top(t)}], found[Top(t)]) THEN f[t \ {Top(t)}]
                         ELSE Append(f[t \ {Top(t)}], found[Top(t)])
           body(f) == [t \in SUBSET D |-> IF t = {} THEN <<>> ELSE step(f, t)]
           iter == CHOOSE f : f = body(f)
           G == [p \in D \X Y |-> IF Has(p[2], found[p[1]]) THEN p[2]
                                  ELSE Append(p[2], found[p[1]])]
<1>1. n \in Nat /\ DOMAIN found = D /\ \A i \in D : found[i] \in X
  BY LenProperties, ElementOfSeq
<1>2. R!Merged(found) = iter[D]
  BY <1>1 DEF R!Merged, R!FoldLeft, R!MapThenFoldSet, R!Max, Top
<1> HIDE DEF Has
<1>3. G \in [D \X Y -> Y] /\ <<>> \in Y
  <2>1. ASSUME NEW i \in D, NEW q \in Y
        PROVE  Append(q, found[i]) \in Y
    BY <1>1, AppendProperties
  <2> QED
    BY <2>1
<1>4. \A i \in D, q \in Y : G[<<i, q>>] = IF Has(q, found[i]) THEN q ELSE Append(q, found[i])
  OBVIOUS
<1> HIDE DEF G, D, n, Y
<1>5. \A t \in SUBSET D : t # {} => Top(t) \in D
  BY <1>1, TopIsGreatest DEF D
<1>6. \E f : f = body(f)
  <2>1. PICK it \in [SUBSET D -> Y] : Folds(it, n, <<>>, Y, G)
    BY <1>1, <1>3, FoldExists DEF D
  <2>2. ASSUME NEW t \in SUBSET D
        PROVE  it[t] = IF t = {} THEN <<>> ELSE step(it, t)
    <3>1. t \ {Top(t)} \in SUBSET D /\ it[t \ {Top(t)}] \in Y
      OBVIOUS
    <3> QED
      BY <1>4, <1>5, <2>1, <3>1 DEF Folds, D
  <2> QED
    BY <2>1, <2>2
<1>7. iter = body(iter)
  BY <1>6
<1> HIDE DEF iter
<1>8. Folds(iter, n, <<>>, Y, G)
  <2>1. \A t \in SUBSET D : iter[t] = IF t = {} THEN <<>> ELSE step(iter, t)
    BY <1>7
  <2> QED
    BY <1>4, <1>5, <2>1 DEF Folds, D
<1>9. PICK h : History(h, n, <<>>, Y, G)
  BY <1>1, <1>3, FoldHistory DEF D
<1>10. R!Merged(found) = h[n]
  BY <1>2, <1>8, <1>9 DEF D, History
<1>11. ASSUME NEW i \in 1..n
       PROVE  h[i] = IF Has(h[i - 1], found[i]) THEN h[i - 1] ELSE Append(h[i - 1], found[i])
  <2>1. i \in D /\ i - 1 \in 0..n
    BY <1>1 DEF D
  <2> QED
    BY <1>4, <1>9, <2>1 DEF History
<1> QED
  BY <1>9, <1>10, <1>11 DEF n, Y, History, Has, Merging

\* No two findings that are kept are the same, and none is dropped without one
\* that is the same (_fingerprint_dup).
LEMMA MergedKeeps ==
  ASSUME NEW X, NEW found \in Seq(X)
  PROVE  LET m == R!Merged(found) IN
         /\ \A i, j \in DOMAIN m : i # j => ~R!Same(m[i], m[j])
         /\ \A f \in R!Range(found) : \E g \in R!Range(m) : R!Same(f, g)
<1> DEFINE n == Len(found)
           Apart(q) == \A i, j \in DOMAIN q : i # j => ~R!Same(q[i], q[j])
           Covers(q, k) == \A l \in 1..k : \E j \in DOMAIN q : R!Same(found[l], q[j])
<1>1. n \in Nat /\ DOMAIN found = 1..n /\ \A i \in 1..n : found[i] \in X
  BY LenProperties, ElementOfSeq
<1>2. PICK h : Merging(h, found, X)
  BY MergedHistory
<1>3. /\ h \in [0..n -> Seq(X)] /\ h[0] = <<>> /\ R!Merged(found) = h[n]
      /\ \A i \in 1..n :
           h[i] = IF \E j \in DOMAIN h[i - 1] : R!Same(h[i - 1][j], found[i]) THEN h[i - 1]
                  ELSE Append(h[i - 1], found[i])
  BY <1>2 DEF Merging
<1> HIDE DEF n
<1> DEFINE Good == {k \in 0..n : Apart(h[k]) /\ Covers(h[k], k)}
<1>4. 0 \in Good
  <2>1. DOMAIN h[0] = {}
    BY <1>3
  <2> QED
    BY <1>1, <2>1
<1>5. ASSUME NEW k \in 0..n - 1, Apart(h[k]), Covers(h[k], k)
      PROVE  Apart(h[k + 1]) /\ Covers(h[k + 1], k + 1)
  <2> DEFINE q == h[k]
             x == found[k + 1]
  <2>1. /\ k \in Nat /\ k + 1 \in 1..n /\ (k + 1) - 1 = k /\ q \in Seq(X) /\ x \in X
        /\ DOMAIN q = 1..Len(q) /\ Len(q) \in Nat
    <3>1. k \in 0..n /\ k + 1 \in 1..n
      BY <1>1
    <3>2. q \in Seq(X)
      BY <1>3, <3>1
    <3>3. DOMAIN q = 1..Len(q) /\ Len(q) \in Nat
      BY <3>2, LenProperties
    <3> QED
      BY <1>1, <3>1, <3>2, <3>3
  <2>2. h[k + 1] = IF \E j \in DOMAIN q : R!Same(q[j], x) THEN q ELSE Append(q, x)
    BY <1>3, <2>1
  <2> HIDE DEF q
  <2>3. \A l \in 1..k + 1 : l \in 1..k \/ l = k + 1
    BY <2>1
  <2>4. CASE \E j \in DOMAIN q : R!Same(q[j], x)
    <3>1. h[k + 1] = q
      BY <2>2, <2>4
    <3>2. \E j \in DOMAIN q : R!Same(x, q[j])
      BY <2>4, SameIsMutual
    <3> QED
      BY <1>5, <2>3, <3>1, <3>2 DEF q
  <2>5. CASE ~ \E j \in DOMAIN q : R!Same(q[j], x)
    <3> DEFINE l0 == Len(q) + 1
               r == Append(q, x)
    <3>1. /\ h[k + 1] = r /\ DOMAIN r = 1..l0 /\ r[l0] = x
          /\ \A j \in DOMAIN q : r[j] = q[j] /\ j \in DOMAIN r
          /\ \A j \in DOMAIN r : j \in DOMAIN q \/ j = l0
      <4>1. r \in Seq(X) /\ Len(r) = l0 /\ r[l0] = x /\ \A j \in 1..Len(q) : r[j] = q[j]
        BY <2>1, AppendProperties
      <4>2. DOMAIN r = 1..l0
        BY <4>1, LenProperties
      <4> QED
        BY <2>1, <2>2, <2>5, <4>1, <4>2
    <3> HIDE DEF r, l0
    <3>2. \A j \in DOMAIN q : ~R!Same(q[j], x) /\ ~R!Same(x, q[j])
      BY <2>5, SameIsMutual
    <3>3. Apart(r)
      <4> SUFFICES ASSUME NEW i \in DOMAIN r, NEW j \in DOMAIN r, i # j
                   PROVE  ~R!Same(r[i], r[j])
        OBVIOUS
      <4>1. CASE i \in DOMAIN q /\ j \in DOMAIN q
        BY <1>5, <3>1, <4>1 DEF q
      <4>2. CASE i = l0 /\ j \in DOMAIN q
        BY <3>1, <3>2, <4>2
      <4>3. CASE j = l0 /\ i \in DOMAIN q
        BY <3>1, <3>2, <4>3
      <4> QED
        BY <3>1, <4>1, <4>2, <4>3
    <3>4. Covers(r, k + 1)
      <4> SUFFICES ASSUME NEW l \in 1..k + 1
                   PROVE  \E j \in DOMAIN r : R!Same(found[l], r[j])
        OBVIOUS
      <4>1. CASE l \in 1..k
        <5>1. PICK j \in DOMAIN q : R!Same(found[l], q[j])
          BY <1>5, <4>1 DEF q
        <5> QED
          BY <3>1, <5>1
      <4>2. CASE l = k + 1
        <5>1. l0 \in DOMAIN r
          BY <2>1, <3>1 DEF l0
        <5>2. R!Same(x, x)
          BY SameIsMutual
        <5> QED
          BY <3>1, <4>2, <5>1, <5>2
      <4> QED
        BY <2>3, <4>1, <4>2
    <3> QED
      BY <3>1, <3>3, <3>4
  <2> QED
    BY <2>4, <2>5
<1> HIDE DEF Apart, Covers
<1>6. \A k \in 0..n - 1 : k \in Good => k + 1 \in Good
  <2> TAKE k \in 0..n - 1
  <2> HAVE k \in Good
  <2>1. k + 1 \in 0..n
    BY <1>1
  <2>2. Apart(h[k + 1]) /\ Covers(h[k + 1], k + 1)
    BY <1>5
  <2> QED
    BY <2>1, <2>2
<1> HIDE DEF Good
<1>7. \A k \in 0..n : k \in Good
  BY ONLY <1>1, <1>4, <1>6, Induction
<1>8. n \in Good
  BY <1>1, <1>7
<1>9. Apart(R!Merged(found)) /\ Covers(R!Merged(found), n)
  BY <1>3, <1>8 DEF Good
<1> QED
  BY <1>1, <1>9 DEF R!Range, Apart, Covers

-----------------------------------------------------------------------------
(* What the comparison of two rounds counts *)

\* As many values as steps, when each is above the one before.
LEMMA IncreasingCount ==
  ASSUME NEW n \in Nat, NEW l \in Nat, NEW e \in [1..l -> 1..n],
         \A i, j \in 1..l : i < j => e[i] < e[j], NEW k \in 0..l
  PROVE  Cardinality({e[i] : i \in 1..k}) = k
<1> DEFINE S == {e[i] : i \in 1..k}
           g == [i \in 1..k |-> e[i]]
<1>1. /\ k \in Nat
      /\ \A i \in 1..k : i \in 1..l /\ e[i] \in Int
      /\ \A i, j \in 1..k : i # j => i < j \/ j < i
  OBVIOUS
<1>2. \A i, j \in 1..k : i # j => e[i] # e[j]
  <2>1. \A i, j \in 1..k : i < j => e[i] < e[j]
    BY <1>1
  <2> QED
    BY <1>1, <2>1
<1>3. g \in [1..k -> S] /\ \A y \in S : \E i \in 1..k : g[i] = y
  OBVIOUS
<1>4. \A i, j \in 1..k : i # j => g[i] # g[j]
  BY <1>2
<1> HIDE DEF S, g
<1>5. ExistsBijection(1..k, S)
  BY <1>3, <1>4 DEF ExistsBijection, Bijection, Injection, Surjection, IsInjective
<1> QED
  BY <1>1, <1>5, IntervalCount, FS_Bijection DEF S

\* Of the places of a value, the first w are those with at most w up to them.
Ranked(s, x, w) ==
  LET at  == {i \in 1..Len(s) : s[i] = x}
      low == {i \in at : R!Occurrences(s, x, i) <= w}
  IN  /\ IsFiniteSet(at)
      /\ Cardinality(at) \in Nat
      /\ R!Occurrences(s, x, Len(s)) = Cardinality(at)
      /\ Cardinality(low) = IF w < Cardinality(at) THEN w ELSE Cardinality(at)
      /\ Cardinality(at \ low) = Cardinality(at) - Cardinality(low)
      /\ \A i \in at : R!Occurrences(s, x, i) \in 1..Cardinality(at)
      /\ \A k \in 1..Cardinality(at) : \E i \in at : R!Occurrences(s, x, i) = k
      /\ \A i, j \in at : R!Occurrences(s, x, i) = R!Occurrences(s, x, j) => i = j

\* So it is in every sequence.
LEMMA RankedCount ==
  ASSUME NEW X, NEW s \in Seq(X), NEW x, NEW w \in Nat
  PROVE  Ranked(s, x, w)
<1> DEFINE n == Len(s)
           r == R!Filter(s, {x})
           l == Len(r)
           at == {i \in 1..n : s[i] = x}
           low == {i \in at : R!Occurrences(s, x, i) <= w}
           top == IF w < l THEN w ELSE l
<1>1. n \in Nat /\ l \in Nat
  BY FilterPicks, LenProperties
<1>2. PICK e : Picks(e, r, s, n, {x})
  BY FilterPicks
<1> HIDE DEF r, n, l
<1>3. /\ e \in [1..l -> 1..n]
      /\ \A i, j \in 1..l : i < j => e[i] < e[j]
      /\ \A i \in 1..n : s[i] = x <=> \E k \in 1..l : e[k] = i
  BY <1>2 DEF Picks, l
<1>4. \A k \in 0..l : Cardinality({e[i] : i \in 1..k}) = k
  BY <1>1, <1>3, IncreasingCount
<1>5. at = {e[i] : i \in 1..l}
  BY <1>3
<1>6. IsFiniteSet(at) /\ Cardinality(at) = l
  <2>1. at \in SUBSET (1..n)
    OBVIOUS
  <2>2. IsFiniteSet(at)
    BY <1>1, <2>1, IntervalCount, FS_Subset
  <2>3. l \in 0..l
    BY <1>1
  <2> QED
    BY <1>4, <1>5, <2>2, <2>3
<1>7. ASSUME NEW k \in 1..l
      PROVE  R!Occurrences(s, x, e[k]) = k
  <2>1. {i \in 1..e[k] : s[i] = x} = {e[i] : i \in 1..k}
    <3>1. ASSUME NEW i \in 1..e[k], s[i] = x
          PROVE  i \in {e[j] : j \in 1..k}
      <4>1. e[k] \in 1..n /\ i \in 1..n
        BY <1>1, <1>3
      <4>2. PICK j \in 1..l : e[j] = i
        BY <1>3, <3>1, <4>1
      <4>3. ~(k < j)
        BY <1>3, <4>1, <4>2
      <4> QED
        BY <1>1, <4>2, <4>3
    <3>2. ASSUME NEW j \in 1..k
          PROVE  e[j] \in 1..e[k] /\ s[e[j]] = x
      <4>1. j \in 1..l /\ (j = k \/ j < k)
        BY <1>1
      <4>2. e[j] \in 1..n /\ e[k] \in 1..n
        BY <1>3, <4>1
      <4>3. e[j] <= e[k]
        BY <1>3, <4>1, <4>2
      <4> QED
        BY <1>3, <4>1, <4>2, <4>3
    <3> QED
      BY <3>1, <3>2
  <2>2. k \in 0..l
    BY <1>1
  <2> QED
    BY <1>4, <2>1, <2>2, SameLibrary DEF R!Occurrences
<1>8. low = {e[i] : i \in 1..top}
  <2> HIDE DEF at
  <2>1. \A k \in 1..l : e[k] \in at /\ (R!Occurrences(s, x, e[k]) <= w <=> k <= w)
    BY <1>5, <1>7
  <2>2. \A k \in 1..l : k \in 1..top <=> k <= w
    BY <1>1
  <2>3. top \in 0..l
    BY <1>1
  <2>4. \A k \in 1..top : k \in 1..l
    BY <1>1, <2>3
  <2> HIDE DEF top
  <2> QED
    BY <1>5, <2>1, <2>2, <2>4
<1>9. Cardinality(low) = top
  <2>1. top \in 0..l
    BY <1>1
  <2> QED
    BY <1>4, <1>8, <2>1
<1>10. Cardinality(at \ low) = l - top
  <2>1. at \cap low = low
    OBVIOUS
  <2> HIDE DEF at, low, top
  <2>2. Cardinality(at \ low) = Cardinality(at) - Cardinality(at \cap low)
    BY ONLY <1>6, FS_Difference
  <2> QED
    BY <1>6, <1>9, <2>1, <2>2
<1>11. R!Occurrences(s, x, n) = Cardinality(at)
  BY SameLibrary DEF R!Occurrences
<1>12. /\ \A i \in at : R!Occurrences(s, x, i) \in 1..l
       /\ \A k \in 1..l : \E i \in at : R!Occurrences(s, x, i) = k
       /\ \A i, j \in at : R!Occurrences(s, x, i) = R!Occurrences(s, x, j) => i = j
  <2> HIDE DEF at
  <2>1. \A i \in at : \E k \in 1..l : e[k] = i
    BY <1>5
  <2>2. \A k \in 1..l : e[k] \in at
    BY <1>5
  <2> QED
    BY <1>7, <2>1, <2>2
<1> HIDE DEF at, low
<1> QED
  BY <1>1, <1>6, <1>9, <1>10, <1>11, <1>12 DEF at, low, n, Ranked
\* What must hold of the copies of a finding.
AddUp(before, after, covered, x) ==
  LET b    == R!Buckets(before, after, covered)
      was  == R!Multiplicity(before, DOMAIN before, x)
      is   == R!Multiplicity(after, DOMAIN after, x)
      kept == R!Multiplicity(after, b.persisting, x)
      gone == R!Multiplicity(before, b.resolved \cup b.not_reviewed, x)
  IN  /\ was = kept + gone
      /\ is = kept + R!Multiplicity(after, b.new, x)
      /\ gone = 0 \/ is = kept

\* For every finding the copies of both rounds add up (bucket_compare).
LEMMA BucketsAddUp ==
  ASSUME NEW X, NEW before \in Seq(X), NEW after \in Seq(X), NEW covered, NEW x
  PROVE  AddUp(before, after, covered, x)
<1> DEFINE b == R!Buckets(before, after, covered)
           at(s) == {i \in 1..Len(s) : s[i] = x}
           low(s, w) == {i \in at(s) : R!Occurrences(s, x, i) <= w}
           was == Cardinality(at(before))
           is == Cardinality(at(after))
           kept == low(after, was)
           stay == low(before, is)
<1>1. /\ DOMAIN before = 1..Len(before) /\ DOMAIN after = 1..Len(after)
      /\ Len(before) \in Nat /\ Len(after) \in Nat
  BY LenProperties
<1>2. /\ was \in Nat /\ R!Occurrences(before, x, Len(before)) = was
      /\ is \in Nat /\ R!Occurrences(after, x, Len(after)) = is
  <2>1. 0 \in Nat
    OBVIOUS
  <2>2. Ranked(before, x, 0) /\ Ranked(after, x, 0)
    BY <2>1, RankedCount
  <2> QED
    BY <2>2 DEF Ranked
<1>3. /\ Cardinality(kept) = IF was < is THEN was ELSE is
      /\ Cardinality(at(after) \ kept) = is - Cardinality(kept)
  <2> HIDE DEF was
  <2>1. was \in Nat
    BY <1>2
  <2>2. Ranked(after, x, was)
    BY <2>1, RankedCount
  <2> QED
    BY <2>2 DEF Ranked
<1>4. /\ Cardinality(stay) = IF is < was THEN is ELSE was
      /\ Cardinality(at(before) \ stay) = was - Cardinality(stay)
  <2> HIDE DEF is
  <2>1. is \in Nat
    BY <1>2
  <2>2. Ranked(before, x, is)
    BY <2>1, RankedCount
  <2> QED
    BY <2>2 DEF Ranked
<1>5. \A i \in 1..Len(before) :
        R!Occurrences(before, x, i) \in Nat
  <2> TAKE i \in 1..Len(before)
  <2>1. i \in Nat /\ {j \in 1..i : before[j] = x} \in SUBSET (1..i)
    OBVIOUS
  <2>2. IsFiniteSet({j \in 1..i : before[j] = x})
    BY <2>1, IntervalCount, FS_Subset
  <2> QED
    BY <2>2, SameLibrary, FS_CardinalityType DEF R!Occurrences
<1>6. {i \in b.persisting : after[i] = x} = kept
  <2>1. b.persisting = {i \in 1..Len(after) :
          R!Occurrences(after, after[i], i) <= R!Occurrences(before, after[i], Len(before))}
    BY <1>1 DEF R!Buckets, R!Persisting
  <2> HIDE DEF b, was
  <2> QED
    BY <1>2, <2>1
<1>7. {i \in b.new : after[i] = x} = at(after) \ kept
  <2>1. b.new = (1..Len(after)) \ b.persisting
    BY <1>1 DEF R!Buckets
  <2> HIDE DEF b, was
  <2> QED
    BY <1>6, <2>1
<1>8. {i \in b.resolved \cup b.not_reviewed : before[i] = x} = at(before) \ stay
  <2>1. b.resolved \cup b.not_reviewed = {i \in 1..Len(before) :
          R!Occurrences(before, before[i], i) > R!Occurrences(after, before[i], Len(after))}
    <3> DEFINE lost == {i \in DOMAIN before : R!Occurrences(before, before[i], i)
                                            > R!Occurrences(after, before[i], Len(after))}
    <3>1. b.resolved = {i \in lost : before[i].file \in covered}
      BY DEF R!Buckets
    <3>2. b.not_reviewed = {i \in lost : before[i].file \notin covered}
      BY DEF R!Buckets
    <3> HIDE DEF b
    <3> QED
      BY <1>1, <3>1, <3>2
  <2> HIDE DEF b, is
  <2>2. \A i \in 1..Len(before) : before[i] = x =>
          (R!Occurrences(before, x, i) > is <=> ~(R!Occurrences(before, x, i) <= is))
    BY <1>2, <1>5
  <2> QED
    BY <1>2, <2>1, <2>2
<1>9. /\ R!Multiplicity(before, DOMAIN before, x) = was
      /\ R!Multiplicity(after, DOMAIN after, x) = is
      /\ R!Multiplicity(after, b.persisting, x) = Cardinality(kept)
      /\ R!Multiplicity(after, b.new, x) = is - Cardinality(kept)
      /\ R!Multiplicity(before, b.resolved \cup b.not_reviewed, x) = was - Cardinality(stay)
  <2> HIDE DEF b, kept, stay
  <2> QED
    BY <1>1, <1>3, <1>4, <1>6, <1>7, <1>8, SameLibrary DEF R!Multiplicity
<1> HIDE DEF b, was, is, kept, stay
<1> QED
  BY <1>2, <1>3, <1>4, <1>9 DEF b, AddUp

\* A rate is a percentage, and below 200 findings it is 100 only when none is
\* open (convergence_rate).
LEMMA RateBounds ==
  ASSUME NEW r \in Nat, NEW p \in Nat
  PROVE  /\ R!Rate(r, r + p) \in 0..100
         /\ R!Rate(r, r + p) = 100 /\ r + p < 200 => p = 0
<1> DEFINE c == r + p
           q == (100 * r) \div c
           m == (100 * r) % c
<1>1. CASE c = 0
  BY <1>1 DEF R!Rate
<1>2. CASE c # 0
  <2>1. c \in Nat /\ c > 0 /\ r <= c
    BY <1>2
  <2>2. /\ q \in Int /\ m \in 0..c - 1
        /\ 100 * r = c * q + m
    BY <2>1
  <2>3. R!Rate(r, r + p) = IF 2 * m < c THEN q ELSE IF 2 * m > c THEN q + 1 ELSE q + (q % 2)
    BY <1>2 DEF R!Rate
  <2> HIDE DEF c, q, m
  <2>4. q \in 0..100
    <3>1. q >= 0
      <4>1. ~(q <= -1)
        <5> SUFFICES ASSUME q <= -1 PROVE FALSE
          OBVIOUS
        <5>1. c * q <= c * (-1)
          BY <2>1, <2>2
        <5> QED
          BY <2>1, <2>2, <5>1
      <4> QED
        BY <2>2, <4>1
    <3>2. ~(q >= 101)
      <4> SUFFICES ASSUME q >= 101 PROVE FALSE
        OBVIOUS
      <4>1. c * q >= c * 101
        BY <2>1, <2>2
      <4> QED
        BY <2>1, <2>2, <4>1
    <3> QED
      BY <2>2, <3>1, <3>2
  <2>5. CASE q \in 0..98
    <3>1. q % 2 \in 0..1
      BY <2>5
    <3> QED
      BY <2>2, <2>3, <2>5, <3>1
  <2>6. CASE q = 99
    <3>1. 100 * r = 99 * c + m /\ q % 2 = 1
      BY <2>1, <2>2, <2>6
    <3>2. 2 * m < c \/ 100 * p = c - m
      BY <2>1, <2>2, <3>1 DEF c
    <3> QED
      BY <2>1, <2>2, <2>3, <2>6, <3>1, <3>2 DEF c
  <2>7. CASE q = 100
    <3>1. 100 * r = 100 * c + m /\ q % 2 = 0
      BY <2>1, <2>2, <2>7
    <3>2. m = 0 /\ p = 0
      BY <2>1, <2>2, <3>1 DEF c
    <3> QED
      BY <2>1, <2>2, <2>3, <2>7, <3>1, <3>2 DEF c
  <2> QED
    BY <2>4, <2>5, <2>6, <2>7
<1> QED
  BY <1>1, <1>2
\* What the rate must say.
Tells(before, after, covered) ==
  LET b    == R!Buckets(before, after, covered)
      rate == R!ConvergenceRate(<<[found |-> before, covered |-> {}],
                                  [found |-> after, covered |-> covered]>>)
  IN  /\ rate \in 0..100
      /\ rate = 100 /\ Len(before) < 200 => b.persisting = {} /\ b.not_reviewed = {}

\* The findings counted after are not more than there were before, and 100 says
\* that none of them is open (convergence_rate).
LEMMA RateTells ==
  ASSUME NEW X, NEW before \in Seq(X), NEW after \in Seq(X), NEW covered
  PROVE  Tells(before, after, covered)
<1> DEFINE b == R!Buckets(before, after, covered)
           rounds == <<[found |-> before, covered |-> {}], [found |-> after, covered |-> covered]>>
           n == Len(before)
           m == Len(after)
           Was(x, i) == R!Occurrences(before, x, i)
           Is(x, i) == R!Occurrences(after, x, i)
           lost == {i \in 1..n : Was(before[i], i) > Is(before[i], m)}
           held == {i \in 1..m : Is(after[i], i) <= Was(after[i], n)}
           stay == (1..n) \ lost
<1>1. n \in Nat /\ m \in Nat /\ DOMAIN before = 1..n /\ DOMAIN after = 1..m
  BY LenProperties
<1>2. /\ b.persisting = held
      /\ b.resolved = {i \in lost : before[i].file \in covered}
      /\ b.not_reviewed = {i \in lost : before[i].file \notin covered}
  <2>1. b.persisting = held
    BY <1>1 DEF R!Buckets, R!Persisting
  <2>2. /\ b.resolved = {i \in lost : before[i].file \in covered}
        /\ b.not_reviewed = {i \in lost : before[i].file \notin covered}
    BY <1>1 DEF R!Buckets
  <2> QED
    BY <2>1, <2>2
<1>3. R!LastDelta(rounds) = b
  <2>1. Len(rounds) = 2 /\ rounds[2] = [found |-> after, covered |-> covered]
        /\ rounds[2 - 1] = [found |-> before, covered |-> {}]
    OBVIOUS
  <2> HIDE DEF rounds
  <2> QED
    BY <2>1 DEF R!LastDelta
<1>4. \A x : /\ \A i \in 1..n : before[i] = x => Was(x, i) \in 1..Was(x, n)
             /\ \A i \in 1..m : after[i] = x => Is(x, i) \in 1..Is(x, m)
             /\ \A k \in 1..Was(x, n) : \E i \in 1..n : before[i] = x /\ Was(x, i) = k
             /\ \A i, j \in 1..m : after[i] = x /\ after[j] = x /\ Is(x, i) = Is(x, j) => i = j
             /\ Was(x, n) \in Nat /\ Is(x, m) \in Nat
  <2> TAKE x
  <2>1. 0 \in Nat
    OBVIOUS
  <2>2. Ranked(before, x, 0) /\ Ranked(after, x, 0)
    BY <2>1, RankedCount
  <2> QED
    BY <2>2 DEF Ranked
<1>5. \E f \in [held -> stay] : \A i, j \in held : f[i] = f[j] => i = j
  <2> DEFINE f == [i \in held |-> CHOOSE j \in 1..n : before[j] = after[i]
                                                    /\ Was(after[i], j) = Is(after[i], i)]
  <2>1. ASSUME NEW i \in held
        PROVE  /\ f[i] \in 1..n /\ before[f[i]] = after[i]
               /\ Was(after[i], f[i]) = Is(after[i], i)
               /\ f[i] \in stay
    <3>1. i \in 1..m /\ Is(after[i], i) \in 1..Is(after[i], m) /\ Is(after[i], i) <= Was(after[i], n)
      BY <1>4
    <3>2. Is(after[i], i) \in 1..Was(after[i], n)
      BY <1>4, <3>1
    <3>3. /\ f[i] \in 1..n /\ before[f[i]] = after[i]
          /\ Was(after[i], f[i]) = Is(after[i], i)
      BY <1>4, <3>2
    <3>4. ~(Was(after[i], f[i]) > Is(after[i], m))
      BY <1>4, <3>1, <3>3
    <3> QED
      BY <3>3, <3>4
  <2>2. f \in [held -> stay]
    BY <2>1
  <2>3. ASSUME NEW i \in held, NEW j \in held, f[i] = f[j]
        PROVE  i = j
    <3>1. /\ before[f[i]] = after[i] /\ Was(after[i], f[i]) = Is(after[i], i)
          /\ before[f[j]] = after[j] /\ Was(after[j], f[j]) = Is(after[j], j)
      BY <2>1
    <3>2. after[i] = after[j] /\ Is(after[i], i) = Is(after[i], j)
      BY <2>3, <3>1
    <3> QED
      BY <1>4, <3>2
  <2> HIDE DEF f
  <2> QED
    BY <2>2, <2>3
<1> DEFINE back == {i \in lost : before[i].file \in covered}
           left == {i \in lost : before[i].file \notin covered}
<1>6. /\ IsFiniteSet(1..n) /\ Cardinality(1..n) = n
      /\ lost \in SUBSET (1..n) /\ stay \in SUBSET (1..n)
      /\ back \in SUBSET lost /\ left = lost \ back /\ (1..n) \cap lost = lost /\ lost \cap back = back
  BY <1>1, IntervalCount
<1> HIDE DEF lost, stay, held, back, left, n, m, b
<1>7. /\ IsFiniteSet(lost) /\ IsFiniteSet(stay)
      /\ Cardinality(stay) = n - Cardinality(lost)
  <2>1. IsFiniteSet(lost) /\ IsFiniteSet(stay)
    BY <1>6, FS_Subset
  <2>2. Cardinality((1..n) \ lost) = Cardinality(1..n) - Cardinality((1..n) \cap lost)
    BY ONLY <1>6, FS_Difference
  <2> QED
    BY <1>6, <2>1, <2>2 DEF stay
<1>8. /\ IsFiniteSet(back) /\ IsFiniteSet(left)
      /\ Cardinality(left) = Cardinality(lost) - Cardinality(back)
  <2>1. IsFiniteSet(back)
    BY <1>6, <1>7, FS_Subset
  <2>2. IsFiniteSet(lost \ back) /\ Cardinality(lost \ back) = Cardinality(lost) - Cardinality(lost \cap back)
    BY ONLY <1>7, FS_Difference
  <2> QED
    BY <1>6, <2>1, <2>2
<1>9. IsFiniteSet(held) /\ Cardinality(held) <= Cardinality(stay)
  <2>1. PICK f \in [held -> stay] : \A i, j \in held : f[i] = f[j] => i = j
    BY <1>5
  <2>2. f \in Injection(held, stay)
    BY <2>1 DEF Injection, IsInjective
  <2> QED
    BY <1>7, <2>2, FS_Injection
<1>10. /\ Cardinality(held) \in Nat /\ Cardinality(back) \in Nat /\ Cardinality(left) \in Nat
       /\ Cardinality(stay) \in Nat /\ Cardinality(lost) \in Nat
  BY <1>7, <1>8, <1>9, FS_CardinalityType
<1>11. Cardinality(back) + (Cardinality(held) + Cardinality(left)) <= n
  BY <1>1, <1>7, <1>8, <1>9, <1>10
<1> DEFINE r == Cardinality(back)
           p == Cardinality(held) + Cardinality(left)
<1>12. R!ConvergenceRate(rounds) = R!Rate(r, r + p)
  <2>1. b.persisting = held /\ b.resolved = back /\ b.not_reviewed = left
    BY <1>2 DEF back, left
  <2> HIDE DEF rounds
  <2> QED
    BY <1>3, <2>1, SameLibrary DEF R!ConvergenceRate
<1>13. r \in Nat /\ p \in Nat
  BY <1>10
<1>14. p = 0 => held = {} /\ left = {}
  <2>1. p = 0 => Cardinality(held) = 0 /\ Cardinality(left) = 0
    BY <1>10
  <2>2. /\ Cardinality(held) = 0 => held = {}
        /\ Cardinality(left) = 0 => left = {}
    BY ONLY <1>8, <1>9, FS_EmptySet
  <2> QED
    BY <2>1, <2>2
<1> HIDE DEF r, p, rounds
<1>15. /\ R!Rate(r, r + p) \in 0..100
       /\ R!Rate(r, r + p) = 100 /\ r + p < 200 => p = 0
  BY <1>13, RateBounds
<1>16. n < 200 => r + p < 200
  BY <1>1, <1>11, <1>13 DEF r, p
<1> QED
  BY <1>2, <1>12, <1>14, <1>15, <1>16 DEF b, rounds, n, back, left, Tells

-----------------------------------------------------------------------------
(* Sequences of sequences put together *)

\* The history of a flattening.
Flattening(h, seqs, Y) ==
  /\ h \in [0..Len(seqs) -> Seq(Y)]
  /\ h[0] = <<>>
  /\ \A i \in 1..Len(seqs) : h[i] = h[i - 1] \o seqs[i]
  /\ R!FlattenSeq(seqs) = h[Len(seqs)]

\* Every flattening has one.
LEMMA FlattenHistory ==
  ASSUME NEW Y, NEW seqs \in Seq(Seq(Y))
  PROVE  \E h : Flattening(h, seqs, Y)
<1> DEFINE n == Len(seqs)
           Z == Seq(Y)
           G == [p \in (1..n) \X Z |-> p[2] \o seqs[p[1]]]
           body(f) == [i \in 1..n |-> IF i = 1 THEN seqs[i] ELSE f[i - 1] \o seqs[i]]
           iter == CHOOSE f : f = body(f)
<1>1. n \in Nat /\ \A i \in 1..n : seqs[i] \in Z
  BY LenProperties, ElementOfSeq
<1>2. G \in [(1..n) \X Z -> Z] /\ <<>> \in Z
  <2>1. ASSUME NEW i \in 1..n, NEW q \in Z
        PROVE  q \o seqs[i] \in Z
    BY <1>1, ConcatProperties
  <2> QED
    BY <2>1
<1>3. \A i \in 1..n, q \in Z : G[<<i, q>>] = q \o seqs[i]
  OBVIOUS
<1>4. R!FlattenSeq(seqs) = IF n = 0 THEN seqs ELSE iter[n]
  BY DEF R!FlattenSeq
<1> HIDE DEF G, n, Z
<1>5. PICK h : History(h, n, <<>>, Z, G)
  BY <1>1, <1>2, FoldHistory
<1>6. /\ h \in [0..n -> Z] /\ h[0] = <<>>
      /\ \A i \in 1..n : h[i] = h[i - 1] \o seqs[i]
  <2>1. h \in [0..n -> Z] /\ h[0] = <<>> /\ \A i \in 1..n : h[i] = G[<<i, h[i - 1]>>]
    BY <1>5 DEF History
  <2>2. ASSUME NEW i \in 1..n
        PROVE  h[i] = h[i - 1] \o seqs[i]
    <3>1. i - 1 \in 0..n
      BY <1>1
    <3> QED
      BY <1>3, <2>1, <3>1
  <2> QED
    BY <2>1, <2>2
<1>7. ASSUME n # 0
      PROVE  iter[n] = h[n]
  <2>1. \E f : f = body(f)
    <3> DEFINE f == [i \in 1..n |-> h[i]]
    <3>1. ASSUME NEW i \in 1..n
          PROVE  f[i] = IF i = 1 THEN seqs[i] ELSE f[i - 1] \o seqs[i]
      <4>1. CASE i = 1
        <5>1. 1 \in 1..n /\ h[1] = h[0] \o seqs[1] /\ seqs[1] \in Seq(Y)
          <6>1. 1 \in 1..n /\ 1 - 1 = 0
            BY <1>1, <4>1
          <6> QED
            BY <1>1, <1>6, <6>1 DEF Z
        <5>2. <<>> \o seqs[1] = seqs[1]
          BY <5>1, ConcatEmptySeq
        <5> QED
          BY <1>6, <4>1, <5>1, <5>2
      <4>2. CASE i # 1
        <5>1. i - 1 \in 1..n
          BY <1>1, <4>2
        <5> QED
          BY <1>6, <4>2, <5>1
      <4> QED
        BY <4>1, <4>2
    <3>2. f = body(f)
      BY <3>1
    <3> QED
      BY <3>2
  <2>2. iter = body(iter)
    BY <2>1
  <2> HIDE DEF iter
  <2>3. \A i \in 1..n : iter[i] = IF i = 1 THEN seqs[i] ELSE iter[i - 1] \o seqs[i]
    BY <2>2
  <2> DEFINE Good == {0} \cup {k \in 1..n : iter[k] = h[k]}
  <2>4. \A k \in 0..n - 1 : k \in Good => k + 1 \in Good
    <3> TAKE k \in 0..n - 1
    <3> HAVE k \in Good
    <3>1. k + 1 \in 1..n /\ (k + 1) - 1 = k /\ k \in 0..n
      BY <1>1
    <3>2. CASE k = 0
      <4>1. h[1] = h[0] \o seqs[1] /\ seqs[1] \in Seq(Y)
        <5>1. 1 \in 1..n /\ 1 - 1 = 0
          BY <1>1, <3>1, <3>2
        <5> QED
          BY <1>1, <1>6, <5>1 DEF Z
      <4>2. <<>> \o seqs[1] = seqs[1]
        BY <4>1, ConcatEmptySeq
      <4>3. iter[1] = h[1]
        BY <1>6, <2>3, <3>1, <3>2, <4>1, <4>2
      <4> QED
        BY <3>1, <3>2, <4>3
    <3>3. CASE k # 0
      <4>1. k \in 1..n /\ iter[k] = h[k] /\ k + 1 # 1
        BY <3>1, <3>3
      <4>2. iter[k + 1] = iter[k] \o seqs[k + 1] /\ h[k + 1] = h[k] \o seqs[k + 1]
        BY <1>6, <2>3, <3>1, <4>1
      <4> QED
        BY <3>1, <4>1, <4>2
    <3> QED
      BY <3>2, <3>3
  <2>5. 0 \in Good
    OBVIOUS
  <2> HIDE DEF Good
  <2>6. \A k \in 0..n : k \in Good
    BY ONLY <1>1, <2>4, <2>5, Induction
  <2>7. n \in Good /\ n # 0
    BY <1>1, <1>7, <2>6
  <2> QED
    BY <2>7 DEF Good
<1>8. R!FlattenSeq(seqs) = h[n]
  <2>1. CASE n = 0
    <3>1. seqs = <<>>
      BY <2>1, EmptySeq DEF n
    <3> QED
      BY <1>4, <1>6, <2>1, <3>1
  <2> QED
    BY <1>4, <1>7, <2>1
<1>9. Flattening(h, seqs, Y)
  BY <1>6, <1>8 DEF Flattening, n, Z
<1> QED
  BY <1>9

\* w gives for every place of r the sequence and the place in it that it
\* comes from: each of the places of the first k sequences once.
Places(w, r, seqs, k) ==
  /\ w \in [1..Len(r) -> (1..k) \X Nat]
  /\ \A p \in 1..Len(r) : /\ w[p][2] \in 1..Len(seqs[w[p][1]])
                          /\ r[p] = seqs[w[p][1]][w[p][2]]
  /\ \A g \in 1..k : \A i \in 1..Len(seqs[g]) : \E p \in 1..Len(r) : w[p] = <<g, i>>
  /\ \A p, q \in 1..Len(r) : w[p] = w[q] => p = q

\* A flattening loses nothing and repeats nothing.
LEMMA FlattenPlaces ==
  ASSUME NEW Y, NEW seqs \in Seq(Seq(Y))
  PROVE  /\ R!FlattenSeq(seqs) \in Seq(Y)
         /\ \E w : Places(w, R!FlattenSeq(seqs), seqs, Len(seqs))
<1> DEFINE n == Len(seqs)
<1>1. n \in Nat /\ \A i \in 1..n : seqs[i] \in Seq(Y)
  BY LenProperties, ElementOfSeq
<1>2. PICK h : Flattening(h, seqs, Y)
  BY FlattenHistory
<1>3. /\ h \in [0..n -> Seq(Y)] /\ h[0] = <<>>
      /\ \A i \in 1..n : h[i] = h[i - 1] \o seqs[i]
      /\ R!FlattenSeq(seqs) = h[n]
  BY <1>2 DEF Flattening
<1> HIDE DEF n
<1> DEFINE Good == {k \in 0..n : \E w : Places(w, h[k], seqs, k)}
<1>4. 0 \in Good
  <2> DEFINE w == [p \in 1..0 |-> <<0, 0>>]
  <2>1. Len(h[0]) = 0
    BY <1>3
  <2>2. Places(w, h[0], seqs, 0)
    BY <2>1 DEF Places
  <2>3. 0 \in 0..n
    BY <1>1
  <2> HIDE DEF w
  <2> QED
    BY <2>2, <2>3
<1>5. ASSUME NEW k \in 0..n - 1, k \in Good
      PROVE  k + 1 \in Good
  <2> DEFINE q == h[k]
             t == seqs[k + 1]
             r == q \o t
             l == Len(q)
             m == Len(t)
  <2>1. /\ k \in 0..n /\ k + 1 \in 1..n /\ (k + 1) - 1 = k
        /\ q \in Seq(Y) /\ t \in Seq(Y)
        /\ l \in Nat /\ m \in Nat
        /\ h[k + 1] = r
    <3>1. k \in 0..n /\ k + 1 \in 1..n /\ (k + 1) - 1 = k
      BY <1>1
    <3> QED
      BY <1>1, <1>3, <3>1, LenProperties
  <2>2. /\ Len(r) = l + m
        /\ \A p \in 1..l : r[p] = q[p]
        /\ \A p \in 1..m : r[l + p] = t[p]
    <3>1. Len(r) = l + m /\ \A p \in 1..l + m : r[p] = IF p <= l THEN q[p] ELSE t[p - l]
      BY <2>1, ConcatProperties
    <3> HIDE DEF r, q, t, l, m
    <3>2. \A p \in 1..m : l + p \in 1..l + m /\ ~(l + p <= l) /\ (l + p) - l = p
      BY <2>1
    <3>3. \A p \in 1..l : p \in 1..l + m /\ p <= l
      BY <2>1
    <3> QED
      BY <3>1, <3>2, <3>3
  <2>3. PICK w : Places(w, q, seqs, k)
    BY <1>5
  <2>4. /\ w \in [1..l -> (1..k) \X Nat]
        /\ \A p \in 1..l : w[p][2] \in 1..Len(seqs[w[p][1]]) /\ q[p] = seqs[w[p][1]][w[p][2]]
        /\ \A g \in 1..k : \A i \in 1..Len(seqs[g]) : \E p \in 1..l : w[p] = <<g, i>>
        /\ \A p, o \in 1..l : w[p] = w[o] => p = o
    BY <2>3 DEF Places
  <2> HIDE DEF q, t, r, l, m
  <2> DEFINE v == [p \in 1..l + m |-> IF p <= l THEN w[p] ELSE <<k + 1, p - l>>]
  <2>5. \A p \in 1..l + m : p \in 1..l \/ (p - l \in 1..m /\ p = l + (p - l) /\ ~(p <= l))
    BY <2>1
  <2>6. /\ \A p \in 1..l : p \in 1..l + m /\ v[p] = w[p]
        /\ \A p \in 1..m : l + p \in 1..l + m /\ v[l + p] = <<k + 1, p>>
    <3>1. \A p \in 1..l : p \in 1..l + m /\ p <= l
      BY <2>1
    <3>2. \A p \in 1..m : l + p \in 1..l + m /\ ~(l + p <= l) /\ (l + p) - l = p
      BY <2>1
    <3> QED
      BY <3>1, <3>2
  <2>7. DOMAIN v = 1..l + m /\ v = [p \in 1..l + m |-> v[p]]
    OBVIOUS
  <2> HIDE DEF v
  <2>8. v \in [1..l + m -> (1..k + 1) \X Nat]
    <3>1. ASSUME NEW p \in 1..l + m
          PROVE  v[p] \in (1..k + 1) \X Nat
      <4>1. CASE p \in 1..l
        <5>1. w[p] \in (1..k) \X Nat /\ 1..k \subseteq 1..k + 1
          BY <2>1, <2>4, <4>1
        <5> QED
          BY <2>6, <4>1, <5>1
      <4>2. CASE p - l \in 1..m /\ p = l + (p - l)
        <5>1. v[p] = <<k + 1, p - l>> /\ k + 1 \in 1..k + 1 /\ p - l \in Nat
          <6>1. k + 1 \in 1..k + 1 /\ p - l \in Nat
            BY <1>1, <2>1, <4>2
          <6> QED
            BY <2>6, <4>2, <6>1
        <5> QED
          BY <5>1
      <4> QED
        BY <2>5, <4>1, <4>2
    <3> QED
      BY <2>7, <3>1
  <2>9. ASSUME NEW p \in 1..l + m
        PROVE  v[p][2] \in 1..Len(seqs[v[p][1]]) /\ r[p] = seqs[v[p][1]][v[p][2]]
    <3>1. CASE p \in 1..l
      BY <2>2, <2>4, <2>6, <3>1
    <3>2. CASE p - l \in 1..m /\ p = l + (p - l)
      <4>1. v[p] = <<k + 1, p - l>> /\ r[p] = t[p - l]
        BY <2>2, <2>6, <3>2
      <4> QED
        BY <3>2, <4>1 DEF t, m
    <3> QED
      BY <2>5, <3>1, <3>2
  <2>10. ASSUME NEW g \in 1..k + 1, NEW i \in 1..Len(seqs[g])
         PROVE  \E p \in 1..l + m : v[p] = <<g, i>>
    <3>1. CASE g \in 1..k
      <4>1. PICK p \in 1..l : w[p] = <<g, i>>
        BY <2>4, <3>1
      <4> QED
        BY <2>6, <4>1
    <3>2. CASE g = k + 1
      <4>1. i \in 1..m
        BY <3>2 DEF t, m
      <4> QED
        BY <2>6, <3>2, <4>1
    <3> QED
      BY <2>1, <3>1, <3>2
  <2>11. ASSUME NEW p \in 1..l + m, NEW o \in 1..l + m, v[p] = v[o]
         PROVE  p = o
    <3>1. CASE p \in 1..l /\ o \in 1..l
      BY <2>4, <2>6, <2>11, <3>1
    <3>2. \A x \in 1..l : v[x][1] # k + 1
      <4>1. \A x \in 1..l : w[x][1] \in 1..k
        BY <2>4
      <4>2. k + 1 \notin 1..k
        BY <2>1
      <4> QED
        BY <2>6, <4>1, <4>2
    <3>3. \A x \in 1..l + m : x \notin 1..l => v[x][1] = k + 1 /\ v[x][2] = x - l
      BY <2>5, <2>6
    <3>4. CASE p \notin 1..l /\ o \notin 1..l
      <4>1. p - l = o - l /\ p \in Int /\ o \in Int /\ l \in Int
        <5>1. v[p][2] = p - l /\ v[o][2] = o - l
          BY <3>3, <3>4
        <5>2. p - l = o - l
          BY <2>11, <5>1
        <5> QED
          BY <2>1, <5>2
      <4> QED
        BY ONLY <4>1
    <3> QED
      BY <2>11, <3>1, <3>2, <3>3, <3>4
  <2>12. Places(v, r, seqs, k + 1)
    <3>1. \A p \in 1..l + m : v[p][2] \in 1..Len(seqs[v[p][1]]) /\ r[p] = seqs[v[p][1]][v[p][2]]
      BY <2>9
    <3>2. \A g \in 1..k + 1 : \A i \in 1..Len(seqs[g]) : \E p \in 1..l + m : v[p] = <<g, i>>
      BY <2>10
    <3>3. \A p, o \in 1..l + m : v[p] = v[o] => p = o
      BY <2>11
    <3>4. Len(r) = l + m
      BY <2>2
    <3> QED
      BY ONLY <2>8, <3>1, <3>2, <3>3, <3>4 DEF Places
  <2> QED
    BY <2>1, <2>12
<1>6. \A k \in 0..n - 1 : k \in Good => k + 1 \in Good
  BY <1>5
<1> HIDE DEF Good
<1>7. \A k \in 0..n : k \in Good
  BY ONLY <1>1, <1>4, <1>6, Induction
<1>8. n \in Good
  BY <1>1, <1>7
<1> QED
  BY <1>1, <1>3, <1>8 DEF Good, n

-----------------------------------------------------------------------------
(* Grouping *)

\* The groups hold S, and nothing else.
Cover(groups, S) ==
  /\ groups \in Seq(Seq(S))
  /\ \A d \in S : \E g \in 1..Len(groups) : \E i \in 1..Len(groups[g]) : groups[g][i] = d

\* Nothing is in the groups twice.
Once(groups) ==
  \A x, y \in 1..Len(groups) : \A k \in 1..Len(groups[x]) : \A l \in 1..Len(groups[y]) :
    groups[x][k] = groups[y][l] => x = y /\ k = l

\* What is at two places of such groups is at one.
LEMMA OnceApplies ==
  ASSUME NEW s, NEW a, NEW b, NEW i, NEW j, Once(s), a \in 1..Len(s), b \in 1..Len(s),
         i \in 1..Len(s[a]), j \in 1..Len(s[b]), s[a][i] = s[b][j]
  PROVE  a = b /\ i = j
BY DEF Once

Distinct(s) == \A i, j \in 1..Len(s) : s[i] = s[j] => i = j

\* The parts of a group hold what it holds, and repeat nothing themselves.
Splits(parts, group) ==
  /\ \A i \in 1..Len(group) :
       \E a \in 1..Len(parts) : \E j \in 1..Len(parts[a]) : parts[a][j] = group[i]
  /\ \A a \in 1..Len(parts) : \A j \in 1..Len(parts[a]) :
       \E i \in 1..Len(group) : parts[a][j] = group[i]
  /\ Distinct(group) => Once(parts)

\* Groups that are split hold together what they held.
LEMMA SplitCovers ==
  ASSUME NEW S, NEW groups, Cover(groups, S),
         NEW parts, parts \in Seq(Seq(Seq(S))), Len(parts) = Len(groups),
         \A g \in 1..Len(groups) : Splits(parts[g], groups[g])
  PROVE  /\ Cover(R!FlattenSeq(parts), S)
         /\ Once(groups) => Once(R!FlattenSeq(parts))
<1> DEFINE F == R!FlattenSeq(parts)
           n == Len(groups)
<1>1. F \in Seq(Seq(S))
  BY FlattenPlaces
<1>2. PICK w : Places(w, F, parts, Len(parts))
  BY FlattenPlaces
<1> HIDE DEF F, n
<1>3. /\ w \in [1..Len(F) -> (1..n) \X Nat]
      /\ \A p \in 1..Len(F) : w[p][2] \in 1..Len(parts[w[p][1]]) /\ F[p] = parts[w[p][1]][w[p][2]]
      /\ \A g \in 1..n : \A a \in 1..Len(parts[g]) : \E p \in 1..Len(F) : w[p] = <<g, a>>
      /\ \A p, q \in 1..Len(F) : w[p] = w[q] => p = q
  BY <1>2 DEF Places, n
<1>4. ASSUME NEW d \in S
      PROVE  \E p \in 1..Len(F) : \E j \in 1..Len(F[p]) : F[p][j] = d
  <2>1. PICK g \in 1..n : \E i \in 1..Len(groups[g]) : groups[g][i] = d
    BY DEF Cover, n
  <2>2. PICK i \in 1..Len(groups[g]) : groups[g][i] = d
    BY <2>1
  <2>3. PICK a \in 1..Len(parts[g]) : \E j \in 1..Len(parts[g][a]) : parts[g][a][j] = d
    BY <2>2 DEF Splits, n
  <2>4. PICK p \in 1..Len(F) : w[p] = <<g, a>>
    BY <1>3
  <2>5. F[p] = parts[g][a]
    BY <1>3, <2>4
  <2> QED
    BY <2>3, <2>5
<1>5. ASSUME Once(groups)
      PROVE  Once(F)
  <2> SUFFICES ASSUME NEW p \in 1..Len(F), NEW q \in 1..Len(F),
                      NEW i, NEW j, i \in 1..Len(F[p]), j \in 1..Len(F[q]), F[p][i] = F[q][j]
               PROVE  p = q /\ i = j
    BY DEF Once
  <2> DEFINE g0 == w[p][1]
             a0 == w[p][2]
             h0 == w[q][1]
             b0 == w[q][2]
  <2>1. /\ g0 \in 1..n /\ a0 \in 1..Len(parts[g0]) /\ F[p] = parts[g0][a0]
        /\ h0 \in 1..n /\ b0 \in 1..Len(parts[h0]) /\ F[q] = parts[h0][b0]
        /\ w[p] = <<g0, a0>> /\ w[q] = <<h0, b0>>
    <3>1. w[p] \in (1..n) \X Nat /\ w[q] \in (1..n) \X Nat
      BY <1>3
    <3>2. w[p] = <<w[p][1], w[p][2]>> /\ w[q] = <<w[q][1], w[q][2]>>
      BY ONLY <3>1
    <3>3. w[p][1] \in 1..n /\ w[q][1] \in 1..n
      BY ONLY <3>1
    <3> QED
      BY <1>3, <3>2, <3>3
  <2> HIDE DEF g0, a0, h0, b0
  <2>2. PICK g \in 1..n, h \in 1..n : g = g0 /\ h = h0
    BY <2>1
  <2>3. PICK a \in 1..Len(parts[g]), b \in 1..Len(parts[h]) : a = a0 /\ b = b0
    BY <2>1, <2>2
  <2>4. F[p] = parts[g][a] /\ F[q] = parts[h][b] /\ w[p] = <<g, a>> /\ w[q] = <<h, b>>
    BY <2>1, <2>2, <2>3
  <2>5. \A x \in 1..n : Splits(parts[x], groups[x])
    BY DEF n
  <2>6. i \in 1..Len(parts[g][a]) /\ j \in 1..Len(parts[h][b]) /\ parts[g][a][i] = parts[h][b][j]
    BY <2>4
  <2>7. PICK x \in 1..Len(groups[g]) : parts[g][a][i] = groups[g][x]
    BY <2>4, <2>5, <2>6 DEF Splits
  <2>8. PICK y \in 1..Len(groups[h]) : parts[h][b][j] = groups[h][y]
    BY <2>4, <2>5, <2>6 DEF Splits
  <2>9. g = h
    <3>1. groups[g][x] = groups[h][y]
      BY <2>6, <2>7, <2>8
    <3> QED
      BY <1>5, <2>4, <3>1 DEF Once, n
  <2>10. Once(parts[g])
    <3>1. Distinct(groups[g])
      BY <1>5, <2>4 DEF Once, Distinct, n
    <3> QED
      BY <2>4, <2>5, <3>1 DEF Splits
  <2>11. a = b /\ i = j
    <3>1. b \in 1..Len(parts[g]) /\ j \in 1..Len(parts[g][b]) /\ parts[g][a][i] = parts[g][b][j]
      BY <2>4, <2>6, <2>9
    <3> QED
      <4>1. a \in 1..Len(parts[g]) /\ i \in 1..Len(parts[g][a])
        BY <2>4, <2>6
      <4> QED
        BY ONLY <2>10, <3>1, <4>1, OnceApplies
  <2>12. w[p] = w[q]
    BY ONLY <2>4, <2>9, <2>11
  <2> QED
    BY <1>3, <2>11, <2>12
<1> QED
  BY <1>1, <1>4, <1>5 DEF Cover, F

\* Products of what is smaller are smaller.
LEMMA TimesMonotone ==
  ASSUME NEW a \in Int, NEW b \in Int, NEW m \in Nat, a <= b
  PROVE  a * m <= b * m
<1>1. b - a \in Nat /\ (b - a) * m >= 0 /\ (b - a) * m = b * m - a * m
  OBVIOUS
<1> QED
  BY <1>1

\* The limits of a group.
LEMMA GroupLimits ==
  /\ MaxFiles \in Nat /\ MaxFiles > 0
  /\ GroupBudget \in Nat
<1>1. R!CasesAssumption
  BY ConsoleAssumption
<1> QED
  BY <1>1 DEF R!CasesAssumption, R!OpsAssumption

\* A group that is too large is split into chunks that are not
\* (_split_oversized).
LEMMA ChunksSplit ==
  ASSUME NEW S, NEW group \in Seq(S)
  PROVE  /\ R!Chunks(group) \in Seq(Seq(S))
         /\ Splits(R!Chunks(group), group)
         /\ \A k \in 1..Len(R!Chunks(group)) : Len(R!Chunks(group)[k]) <= MaxFiles
<1> DEFINE m == MaxFiles
           n == Len(group)
           c == (n + m - 1) \div m
           low(k) == (k - 1) * m
           high(k) == IF k * m < n THEN k * m ELSE n
           C0 == R!Chunks(group)
<1>1. m \in Nat /\ m > 0 /\ n \in Nat /\ \A i \in 1..n : group[i] \in S
  <2>1. n \in Nat /\ \A i \in 1..n : group[i] \in S
    BY LenProperties, ElementOfSeq
  <2> QED
    BY ONLY <2>1, GroupLimits DEF m
<1>2. C0 = [k \in 1..c |-> SubSeq(group, low(k) + 1, high(k))]
  BY DEF R!Chunks
<1> HIDE DEF m, n, C0
<1>3. c \in Int /\ n + m - 1 = m * c + ((n + m - 1) % m) /\ (n + m - 1) % m \in 0..m - 1
  BY <1>1
<1> HIDE DEF c
<1>4. c \in Nat /\ c * m <= n + m - 1 /\ (c + 1) * m > n + m - 1
  <2>1. c * m <= n + m - 1 /\ (c + 1) * m > n + m - 1
    BY <1>1, <1>3
  <2>2. ~(c + 1 <= 0)
    <3> SUFFICES ASSUME c + 1 <= 0 PROVE FALSE
      OBVIOUS
    <3>1. (c + 1) * m <= 0 * m
      BY <1>1, <1>3, TimesMonotone
    <3> QED
      <4>1. 0 * m = 0 /\ (c + 1) * m \in Int
        BY <1>1, <1>3
      <4> QED
        BY <1>1, <2>1, <3>1, <4>1
  <2> QED
    BY <1>3, <2>1, <2>2
<1>5. ASSUME NEW k \in 1..c
      PROVE  /\ low(k) \in Nat /\ high(k) \in Nat
             /\ low(k) < high(k) /\ high(k) <= n /\ high(k) <= low(k) + m
  <2>1. k * m <= c * m /\ (k - 1) * m = k * m - m /\ (k - 1) * m >= 0 * m /\ k * m \in Int
    BY <1>1, <1>4, TimesMonotone
  <2>2. low(k) = k * m - m /\ k * m - m >= 0
    BY <1>1, <2>1
  <2>3. k * m - m < n
    BY <1>1, <1>4, <2>1
  <2> HIDE DEF low
  <2> QED
    BY <1>1, <2>1, <2>2, <2>3
<1>6. ASSUME NEW k \in 1..c
      PROVE  /\ C0[k] \in Seq(S)
             /\ Len(C0[k]) = high(k) - low(k)
             /\ \A j \in 1..high(k) - low(k) : C0[k][j] = group[low(k) + j]
  <2>1. C0[k] = SubSeq(group, low(k) + 1, high(k))
    BY <1>2
  <2>2. low(k) + 1 \in Int /\ high(k) \in Int /\ low(k) + 1 <= high(k)
    BY <1>5
  <2>3. \A i \in low(k) + 1..high(k) : group[i] \in S
    BY <1>1, <1>5
  <2> HIDE DEF low, high
  <2>4. /\ SubSeq(group, low(k) + 1, high(k)) \in Seq(S)
        /\ Len(SubSeq(group, low(k) + 1, high(k))) = high(k) - (low(k) + 1) + 1
        /\ \A j \in 1..high(k) - (low(k) + 1) + 1 :
             SubSeq(group, low(k) + 1, high(k))[j] = group[(low(k) + 1) + j - 1]
    BY <2>2, <2>3, SubSeqProperties
  <2>5. low(k) \in Nat /\ high(k) \in Nat
    BY <1>5 DEF low, high
  <2>6. /\ high(k) - (low(k) + 1) + 1 = high(k) - low(k)
        /\ \A j \in 1..high(k) - low(k) : (low(k) + 1) + j - 1 = low(k) + j
    BY <2>5
  <2> QED
    BY <2>1, <2>4, <2>6
<1>7. C0 \in Seq(Seq(S)) /\ Len(C0) = c
  BY <1>2, <1>4, <1>6
<1>8. ASSUME NEW k \in 1..c
      PROVE  Len(C0[k]) <= m
  <2> HIDE DEF low, high
  <2>1. low(k) \in Nat /\ high(k) \in Nat /\ high(k) <= low(k) + m
    BY <1>5 DEF low, high
  <2> QED
    <3>1. Len(C0[k]) = high(k) - low(k)
      BY <1>6 DEF low, high
    <3> QED
      BY <1>1, <2>1, <3>1
<1>9. ASSUME NEW i \in 1..n
      PROVE  \E a \in 1..c : \E j \in 1..Len(C0[a]) : C0[a][j] = group[i]
  <2> DEFINE k == (i - 1) \div m
             r == (i - 1) % m
  <2>1. k \in Int /\ r \in 0..m - 1 /\ i - 1 = m * k + r
    BY <1>1
  <2> HIDE DEF k, r
  <2>2. k * m = i - 1 - r /\ (k + 1) * m = k * m + m /\ k * m \in Int
    BY <1>1, <2>1
  <2>3. k >= 0
    <3> SUFFICES ASSUME k + 1 <= 0 PROVE FALSE
      BY <2>1
    <3>1. (k + 1) * m <= 0 * m
      BY <1>1, <2>1, TimesMonotone
    <3> QED
      BY <1>1, <2>1, <2>2, <3>1
  <2>4. k + 1 <= c
    <3> SUFFICES ASSUME c + 1 <= k + 1 PROVE FALSE
      BY <1>4, <2>1
    <3>1. (c + 1) * m <= (k + 1) * m
      BY <1>1, <1>4, <2>1, TimesMonotone
    <3> QED
      BY <1>1, <1>4, <2>1, <2>2, <3>1
  <2>5. k + 1 \in 1..c /\ (k + 1) - 1 = k
    BY <1>4, <2>1, <2>3, <2>4
  <2>6. low(k + 1) = i - 1 - r /\ r + 1 \in 1..high(k + 1) - low(k + 1) /\ low(k + 1) + (r + 1) = i
    <3>1. low(k + 1) = i - 1 - r
      BY <2>2, <2>5
    <3>2. high(k + 1) = n \/ high(k + 1) = (i - 1 - r) + m
      BY <2>2
    <3> HIDE DEF low, high
    <3> QED
      BY <1>1, <2>1, <3>1, <3>2
  <2>7. r + 1 \in 1..Len(C0[k + 1]) /\ C0[k + 1][r + 1] = group[low(k + 1) + (r + 1)]
    BY <1>6, <2>5, <2>6
  <2> QED
    BY <2>5, <2>6, <2>7
<1>10. ASSUME NEW a \in 1..c, NEW j \in 1..Len(C0[a])
       PROVE  low(a) + j \in 1..n /\ C0[a][j] = group[low(a) + j] /\ j <= m /\ j >= 1
  <2> HIDE DEF low, high
  <2>1. low(a) \in Nat /\ high(a) \in Nat /\ high(a) <= n /\ high(a) <= low(a) + m
    BY <1>5 DEF low, high
  <2>2. Len(C0[a]) = high(a) - low(a) /\ \A x \in 1..high(a) - low(a) : C0[a][x] = group[low(a) + x]
    BY <1>6 DEF low, high
  <2>3. j \in 1..high(a) - low(a)
    BY <2>2
  <2>4. C0[a][j] = group[low(a) + j]
    BY <2>2, <2>3
  <2>5. low(a) + j \in 1..n /\ j <= m /\ j >= 1
    <3> DEFINE l == low(a)
               u == high(a)
    <3>1. l \in Nat /\ u \in Nat /\ u <= n /\ u <= l + m /\ j \in 1..u - l /\ n \in Nat /\ m \in Nat
      BY <1>1, <2>1, <2>3
    <3> HIDE DEF l, u
    <3>2. l + j \in 1..n /\ j <= m /\ j >= 1
      BY ONLY <3>1
    <3> QED
      BY <3>2 DEF l
  <2> QED
    BY <2>4, <2>5
<1>11. ASSUME Distinct(group)
       PROVE  Once(C0)
  <2> SUFFICES ASSUME NEW a \in 1..c, NEW b \in 1..c,
                      NEW i \in 1..Len(C0[a]), NEW j \in 1..Len(C0[b]), C0[a][i] = C0[b][j]
               PROVE  a = b /\ i = j
    BY <1>7 DEF Once
  <2>1. low(a) + i = low(b) + j
    <3>1. /\ low(a) + i \in 1..n /\ C0[a][i] = group[low(a) + i]
          /\ low(b) + j \in 1..n /\ C0[b][j] = group[low(b) + j]
      BY <1>10
    <3> HIDE DEF low
    <3> QED
      BY <1>11, <3>1 DEF Distinct, n
  <2>2. i \in Int /\ j \in Int /\ i >= 1 /\ j >= 1 /\ i <= m /\ j <= m
    BY <1>10
  <2>3. a * m = low(a) + m /\ b * m = low(b) + m /\ low(a) \in Int /\ low(b) \in Int
    <3>1. a \in Int /\ b \in Int /\ m \in Int
      BY <1>1
    <3> QED
      BY ONLY <3>1 DEF low
  <2>4. ~(a <= b - 1)
    <3> SUFFICES ASSUME a <= b - 1 PROVE FALSE
      OBVIOUS
    <3>1. a * m <= (b - 1) * m
      BY <1>1, TimesMonotone
    <3> QED
      BY <1>1, <2>1, <2>2, <2>3, <3>1
  <2>5. ~(b <= a - 1)
    <3> SUFFICES ASSUME b <= a - 1 PROVE FALSE
      OBVIOUS
    <3>1. b * m <= (a - 1) * m
      BY <1>1, TimesMonotone
    <3> QED
      BY <1>1, <2>1, <2>2, <2>3, <3>1
  <2>6. a = b
    BY <2>4, <2>5
  <2> QED
    BY <2>1, <2>2, <2>3, <2>6
<1>12. \A a \in 1..c : \A j \in 1..Len(C0[a]) : \E i \in 1..n : C0[a][j] = group[i]
  BY <1>10
<1>13. Splits(C0, group)
  BY <1>7, <1>9, <1>11, <1>12 DEF Splits, n
<1> QED
  BY <1>7, <1>8, <1>13 DEF C0, m
\* A group by itself, and a group taken apart into its files.
LEMMA PlainSplits ==
  ASSUME NEW S, NEW group \in Seq(S)
  PROVE  /\ <<group>> \in Seq(Seq(S)) /\ Len(<<group>>) = 1 /\ <<group>>[1] = group
         /\ R!PerFile(group) \in Seq(Seq(S)) /\ Len(R!PerFile(group)) = Len(group)
         /\ \A i \in 1..Len(group) : R!PerFile(group)[i] = <<group[i]>>
         /\ Splits(<<group>>, group)
         /\ Splits(R!PerFile(group), group)
<1> DEFINE n == Len(group)
           F == R!PerFile(group)
<1>1. n \in Nat /\ DOMAIN group = 1..n /\ \A i \in 1..n : group[i] \in S
  BY LenProperties, ElementOfSeq
<1>2. /\ <<group>> \in Seq(Seq(S)) /\ Len(<<group>>) = 1 /\ <<group>>[1] = group
  OBVIOUS
<1>3. F = [i \in 1..n |-> <<group[i]>>]
  BY <1>1 DEF R!PerFile
<1> HIDE DEF n, F
<1>4. \A i \in 1..n : F[i] = <<group[i]>> /\ Len(F[i]) = 1 /\ F[i][1] = group[i] /\ F[i] \in Seq(S)
  <2>1. \A x \in S : <<x>> \in Seq(S) /\ Len(<<x>>) = 1 /\ <<x>>[1] = x
    OBVIOUS
  <2> QED
    BY <1>1, <1>3, <2>1
<1>5. F \in Seq(Seq(S)) /\ Len(F) = n
  BY <1>1, <1>3, <1>4
<1>6. 1 \in 1..1 /\ \A i \in 1..1 : i = 1
  OBVIOUS
<1>7. Splits(<<group>>, group)
  <2> DEFINE P0 == <<group>>
  <2>1. Len(P0) = 1 /\ P0[1] = group
    BY <1>2
  <2> HIDE DEF P0
  <2>2. \A i \in 1..n : \E a \in 1..Len(P0) : \E j \in 1..Len(P0[a]) : P0[a][j] = group[i]
    BY <1>6, <2>1 DEF n
  <2>3. \A a \in 1..Len(P0) : \A j \in 1..Len(P0[a]) : \E i \in 1..n : P0[a][j] = group[i]
    BY <1>6, <2>1 DEF n
  <2>4. Distinct(group) => Once(P0)
    BY <1>6, <2>1 DEF Distinct, Once
  <2>5. Splits(P0, group)
    BY <2>2, <2>3, <2>4 DEF Splits, n
  <2> QED
    BY <2>5 DEF P0
<1>8. Splits(F, group)
  <2>1. \A i \in 1..n : \E a \in 1..Len(F) : \E j \in 1..Len(F[a]) : F[a][j] = group[i]
    BY <1>4, <1>5, <1>6
  <2>2. \A a \in 1..Len(F) : \A j \in 1..Len(F[a]) : \E i \in 1..n : F[a][j] = group[i]
    BY <1>4, <1>5, <1>6
  <2>3. Distinct(group) => Once(F)
    BY <1>4, <1>5, <1>6 DEF Distinct, Once, n
  <2> QED
    BY <2>1, <2>2, <2>3 DEF Splits, n
<1> QED
  BY <1>2, <1>4, <1>5, <1>7, <1>8 DEF F, n

\* The tokens of one file.
LEMMA SumOfOne ==
  ASSUME NEW x, x.tokens \in Nat
  PROVE  R!SumOf(LAMBDA d : d.tokens, <<x>>) = x.tokens
<1> DEFINE D == {1}
           s == <<x>>
           pick(t) == CHOOSE y \in t : TRUE
           body(f) == [t \in SUBSET D |-> IF t = {} THEN 0
                                          ELSE s[pick(t)].tokens + f[t \ {pick(t)}]]
           iter == CHOOSE f : f = body(f)
<1>1. DOMAIN s = D /\ s[1] = x
  OBVIOUS
<1>2. R!SumOf(LAMBDA d : d.tokens, s) = iter[D]
  BY <1>1 DEF R!SumOf, R!FoldSeq, R!FoldFunction, R!FoldFunctionOnSet, R!MapThenFoldSet
<1>3. \A t \in SUBSET D : t = {} \/ t = {1}
  OBVIOUS
<1>4. pick({1}) = 1 /\ {1} \ {1} = {} /\ {1} # {} /\ {} \in SUBSET D /\ {1} \in SUBSET D
  OBVIOUS
<1> HIDE DEF pick
<1>5. \E f : f = body(f)
  <2> DEFINE f == [t \in SUBSET D |-> IF t = {} THEN 0 ELSE x.tokens]
  <2>1. f[{}] = 0 /\ f[{1}] = x.tokens
    BY <1>4
  <2>2. \A t \in SUBSET D : f[t] = IF t = {} THEN 0 ELSE s[pick(t)].tokens + f[t \ {pick(t)}]
    <3> HIDE DEF f
    <3>1. x.tokens = s[1].tokens + 0 /\ {} # {1}
      BY <1>1
    <3>2. f[{1}] = s[pick({1})].tokens + f[{1} \ {pick({1})}]
      BY <1>4, <2>1, <3>1
    <3> HIDE DEF s
    <3> QED
      BY <1>3, <1>4, <2>1, <3>2
  <2>3. f = [t \in SUBSET D |-> f[t]]
    OBVIOUS
  <2> HIDE DEF f
  <2>4. f = body(f)
    BY <2>2, <2>3
  <2> QED
    BY <2>4
<1>6. iter = body(iter)
  BY <1>5
<1> HIDE DEF iter
<1>7. iter[{}] = 0 /\ iter[{1}] = s[1].tokens + iter[{}]
  BY <1>4, <1>6
<1> QED
  BY <1>1, <1>2, <1>7
\* Every element of F is one of a part.
From(F, parts) ==
  \A p \in 1..Len(F) : \E g \in 1..Len(parts) : \E a \in 1..Len(parts[g]) : F[p] = parts[g][a]

\* The elements of a flattening are those of its parts.
LEMMA FlattenFrom ==
  ASSUME NEW Y, NEW parts, parts \in Seq(Seq(Y))
  PROVE  From(R!FlattenSeq(parts), parts)
<1> DEFINE F == R!FlattenSeq(parts)
<1>1. PICK w : Places(w, F, parts, Len(parts))
  BY FlattenPlaces
<1> HIDE DEF F
<1>2. \A p \in 1..Len(F) : /\ w[p] \in (1..Len(parts)) \X Nat
                           /\ w[p][2] \in 1..Len(parts[w[p][1]])
                           /\ F[p] = parts[w[p][1]][w[p][2]]
  BY <1>1 DEF Places
<1>3. \A p \in 1..Len(F) : w[p][1] \in 1..Len(parts)
  BY <1>2
<1>4. From(F, parts)
  BY <1>2, <1>3 DEF From
<1> QED
  BY <1>4 DEF F

\* Groups that are too large are split (_split_oversized).
LEMMA OversizedSplit ==
  ASSUME NEW S, NEW groups, Cover(groups, S)
  PROVE  LET F == R!SplitOversized(groups) IN
         /\ Cover(F, S)
         /\ Once(groups) => Once(F)
         /\ \A p \in 1..Len(F) : Len(F[p]) <= MaxFiles
<1> DEFINE n == Len(groups)
           F == R!SplitOversized(groups)
           parts == [i \in DOMAIN groups |-> R!Chunks(groups[i])]
<1>1. n \in Nat /\ DOMAIN groups = 1..n /\ \A i \in 1..n : groups[i] \in Seq(S)
  BY LenProperties, ElementOfSeq DEF Cover
<1>2. \A i \in 1..n : /\ R!Chunks(groups[i]) \in Seq(Seq(S))
                      /\ Splits(R!Chunks(groups[i]), groups[i])
                      /\ \A k \in 1..Len(R!Chunks(groups[i])) : Len(R!Chunks(groups[i])[k]) <= MaxFiles
  BY <1>1, ChunksSplit
<1>3. F = R!FlattenSeq(parts)
  BY DEF R!SplitOversized
<1>4. parts = [i \in 1..n |-> R!Chunks(groups[i])]
  BY <1>1
<1> HIDE DEF n, parts, F
<1>5. parts \in Seq(Seq(Seq(S))) /\ Len(parts) = n
  BY <1>1, <1>2, <1>4
<1>6. /\ \A i \in 1..n : Splits(parts[i], groups[i])
      /\ \A i \in 1..n : \A k \in 1..Len(parts[i]) : Len(parts[i][k]) <= MaxFiles
  BY <1>2, <1>4
<1>7. Cover(F, S) /\ (Once(groups) => Once(F))
  BY <1>3, <1>5, <1>6, SplitCovers DEF n
<1>8. \A p \in 1..Len(F) : \E g \in 1..n : \E a \in 1..Len(parts[g]) : F[p] = parts[g][a]
  <2>1. From(F, parts)
    BY <1>3, <1>5, FlattenFrom
  <2> QED
    BY <1>5, <2>1 DEF From
<1>9. \A p \in 1..Len(F) : Len(F[p]) <= MaxFiles
  BY <1>6, <1>8
<1> QED
  BY <1>7, <1>9 DEF F

\* What a group asks of the model.
Tokens(group) == R!SumOf(LAMBDA d : d.tokens, group)

\* Groups over the budget are taken apart, and then keep to it when each of
\* their files does (_enforce_budget).
LEMMA BudgetSplit ==
  ASSUME NEW S, NEW groups, Cover(groups, S),
         \A x \in S : x.tokens \in Nat /\ x.tokens <= GroupBudget,
         \A g \in 1..Len(groups) : Len(groups[g]) <= MaxFiles
  PROVE  LET F == R!WithinBudget(groups) IN
         /\ Cover(F, S)
         /\ Once(groups) => Once(F)
         /\ \A p \in 1..Len(F) : Len(F[p]) <= MaxFiles /\ Tokens(F[p]) <= GroupBudget
<1> DEFINE n == Len(groups)
           F == R!WithinBudget(groups)
           part(g) == IF Tokens(g) <= GroupBudget THEN <<g>> ELSE R!PerFile(g)
           parts == [i \in DOMAIN groups |-> part(groups[i])]
           Fits(g) == Len(g) <= MaxFiles /\ Tokens(g) <= GroupBudget
<1>1. n \in Nat /\ DOMAIN groups = 1..n /\ \A i \in 1..n : groups[i] \in Seq(S)
  BY LenProperties, ElementOfSeq DEF Cover
<1>2. ASSUME NEW i \in 1..n
      PROVE  /\ part(groups[i]) \in Seq(Seq(S))
             /\ Splits(part(groups[i]), groups[i])
             /\ \A k \in 1..Len(part(groups[i])) : Fits(part(groups[i])[k])
  <2> DEFINE g == groups[i]
  <2>1. g \in Seq(S) /\ Len(g) <= MaxFiles
    BY <1>1
  <2> HIDE DEF g
  <2>2. CASE Tokens(g) <= GroupBudget
    <3>1. part(g) = <<g>>
      BY <2>2
    <3>2. <<g>> \in Seq(Seq(S)) /\ Len(<<g>>) = 1 /\ <<g>>[1] = g /\ Splits(<<g>>, g)
      BY <2>1, PlainSplits
    <3>3. \A k \in 1..1 : k = 1
      OBVIOUS
    <3>4. \A k \in 1..Len(<<g>>) : Fits(<<g>>[k])
      BY <2>1, <2>2, <3>2, <3>3
    <3> HIDE DEF part, Fits
    <3> QED
      BY <3>1, <3>2, <3>4 DEF g
  <2>3. CASE ~(Tokens(g) <= GroupBudget)
    <3>1. part(g) = R!PerFile(g)
      BY <2>3
    <3>2. /\ R!PerFile(g) \in Seq(Seq(S)) /\ Len(R!PerFile(g)) = Len(g)
          /\ \A k \in 1..Len(g) : R!PerFile(g)[k] = <<g[k]>>
          /\ Splits(R!PerFile(g), g)
      BY <2>1, PlainSplits
    <3>3. \A x \in S : Fits(<<x>>)
      <4> TAKE x \in S
      <4>1. x.tokens \in Nat /\ x.tokens <= GroupBudget
        OBVIOUS
      <4>2. Tokens(<<x>>) = x.tokens
        BY <4>1, SumOfOne DEF Tokens
      <4>3. Len(<<x>>) = 1 /\ 1 <= MaxFiles
        BY GroupLimits
      <4> QED
        BY <4>1, <4>2, <4>3
    <3>4. \A k \in 1..Len(g) : g[k] \in S
      BY <2>1, ElementOfSeq
    <3> HIDE DEF part, Fits
    <3> QED
      BY <3>1, <3>2, <3>3, <3>4 DEF g
  <2> QED
    BY <2>2, <2>3
<1>3. F = R!FlattenSeq(parts)
  BY DEF R!WithinBudget, Tokens
<1> HIDE DEF Fits, part
<1>4. parts = [i \in 1..n |-> part(groups[i])]
  BY <1>1
<1> HIDE DEF n, parts, F
<1>5. parts \in Seq(Seq(Seq(S))) /\ Len(parts) = n
  BY <1>1, <1>2, <1>4
<1>6. /\ \A i \in 1..n : Splits(parts[i], groups[i])
      /\ \A i \in 1..n : \A k \in 1..Len(parts[i]) : Fits(parts[i][k])
  BY <1>2, <1>4
<1>7. Cover(F, S) /\ (Once(groups) => Once(F))
  BY <1>3, <1>5, <1>6, SplitCovers DEF n
<1>8. \A p \in 1..Len(F) : \E g \in 1..n : \E a \in 1..Len(parts[g]) : F[p] = parts[g][a]
  <2>1. From(F, parts)
    BY <1>3, <1>5, FlattenFrom
  <2> QED
    BY <1>5, <2>1 DEF From
<1>9. \A p \in 1..Len(F) : Fits(F[p])
  BY <1>6, <1>8
<1> QED
  BY <1>7, <1>9 DEF F, Fits
\* r holds what of s is in T0.
Keeps(r, s, T0) ==
  /\ \A k \in 1..Len(r) : r[k] \in T0 /\ \E i \in 1..Len(s) : s[i] = r[k]
  /\ \A i \in 1..Len(s) : s[i] \in T0 => \E k \in 1..Len(r) : r[k] = s[i]

\* A filter keeps what is in the set and nothing else, and repeats nothing.
LEMMA FilterKeeps ==
  ASSUME NEW X, NEW s \in Seq(X), NEW T0
  PROVE  /\ Keeps(R!Filter(s, T0), s, T0)
         /\ Distinct(s) => Distinct(R!Filter(s, T0))
<1> DEFINE r == R!Filter(s, T0)
<1>1. PICK e : Picks(e, r, s, Len(s), T0)
  BY FilterPicks
<1>2. Len(r) \in Nat /\ Len(s) \in Nat
  BY FilterPicks, LenProperties
<1> HIDE DEF r
<1>3. /\ e \in [1..Len(r) -> 1..Len(s)]
      /\ \A j, k \in 1..Len(r) : j < k => e[j] < e[k]
      /\ \A k \in 1..Len(r) : r[k] = s[e[k]] /\ r[k] \in T0
      /\ \A i \in 1..Len(s) : s[i] \in T0 => \E k \in 1..Len(r) : e[k] = i
  BY <1>1 DEF Picks
<1>4. ASSUME Distinct(s), NEW j \in 1..Len(r), NEW k \in 1..Len(r), r[j] = r[k]
      PROVE  j = k
  <2>1. e[j] \in 1..Len(s) /\ e[k] \in 1..Len(s) /\ s[e[j]] = s[e[k]]
    BY <1>3, <1>4
  <2>2. e[j] = e[k]
    BY <1>4, <2>1 DEF Distinct
  <2>3. ~(j < k) /\ ~(k < j)
    BY <1>2, <1>3, <2>1, <2>2
  <2> QED
    BY <1>2, <2>3
<1>5. Distinct(s) => Distinct(r)
  BY <1>4 DEF Distinct
<1>6. /\ \A k \in 1..Len(r) : r[k] \in T0 /\ \E i \in 1..Len(s) : s[i] = r[k]
      /\ \A i \in 1..Len(s) : s[i] \in T0 => \E k \in 1..Len(r) : r[k] = s[i]
  BY <1>3
<1> QED
  BY <1>5, <1>6 DEF r, Keeps

\* What a list of the answer gets: the paths of the change that no list before
\* it named.
Claimed(ds, taken, list) == R!Filter(list, R!Paths(ds) \ taken)

\* The file of a path.
FileOf(ds, p) == CHOOSE d \in R!Range(ds) : d.path = p

\* A list of the answer makes a group of the files it gets.
Claim(ds, acc, list) ==
  [taken |-> acc.taken \cup R!Range(Claimed(ds, acc.taken, list)),
   out   |-> IF Claimed(ds, acc.taken, list) = <<>> THEN acc.out
             ELSE Append(acc.out, [i \in DOMAIN Claimed(ds, acc.taken, list) |->
                                     FileOf(ds, Claimed(ds, acc.taken, list)[i])])]

\* What the lists have claimed.
Claims(ds) == [taken : SUBSET R!Paths(ds), out : Seq(Seq(R!Range(ds)))]
NoClaims == [taken |-> {}, out |-> <<>>]

\* The history of an answer.
Claiming(h, ds, lists) ==
  /\ h \in [0..Len(lists) -> Claims(ds)]
  /\ h[0] = NoClaims
  /\ \A i \in 1..Len(lists) : h[i] = Claim(ds, h[i - 1], lists[i])
  /\ R!GroupedByPaths(ds, lists) =
       h[Len(lists)].out
         \o R!PerFile(R!Filter(ds, {d \in R!Range(ds) : d.path \notin h[Len(lists)].taken}))

\* A list gets paths of the change, and their files.
LEMMA ClaimedFiles ==
  ASSUME NEW X, NEW ds \in Seq(X), NEW Q, NEW list \in Seq(Q), NEW taken
  PROVE  LET g == Claimed(ds, taken, list) IN
         /\ Len(g) \in Nat /\ DOMAIN g = 1..Len(g) /\ (g # <<>> => Len(g) > 0)
         /\ R!Range(g) \subseteq R!Paths(ds) \ taken
         /\ \A k \in 1..Len(g) : /\ g[k] \in R!Paths(ds) \ taken
                                 /\ FileOf(ds, g[k]) \in R!Range(ds)
                                 /\ FileOf(ds, g[k]).path = g[k]
         /\ Distinct(list) => Distinct(g)
<1> DEFINE g == Claimed(ds, taken, list)
<1>1. /\ g \in Seq(Q)
      /\ \A k \in 1..Len(g) : g[k] \in R!Paths(ds) \ taken
      /\ Distinct(list) => Distinct(g)
  BY FilterPicks, FilterKeeps DEF Claimed, Keeps
<1> HIDE DEF g
<1>2. Len(g) \in Nat /\ DOMAIN g = 1..Len(g) /\ (g # <<>> => Len(g) > 0)
  BY <1>1, LenProperties, EmptySeq
<1>3. \A p \in R!Paths(ds) : FileOf(ds, p) \in R!Range(ds) /\ FileOf(ds, p).path = p
  BY DEF R!Paths, R!Range, FileOf
<1> QED
  BY <1>1, <1>2, <1>3 DEF g, R!Range

\* Claims stay claims.
LEMMA ClaimType ==
  ASSUME NEW X, NEW ds \in Seq(X), NEW Q, NEW list \in Seq(Q), NEW acc \in Claims(ds)
  PROVE  Claim(ds, acc, list) \in Claims(ds)
<1> DEFINE g == Claimed(ds, acc.taken, list)
           fs == [i \in DOMAIN g |-> FileOf(ds, g[i])]
<1>1. acc.taken \in SUBSET R!Paths(ds) /\ acc.out \in Seq(Seq(R!Range(ds)))
  BY DEF Claims
<1>2. /\ Len(g) \in Nat /\ DOMAIN g = 1..Len(g)
      /\ R!Range(g) \subseteq R!Paths(ds)
      /\ \A k \in 1..Len(g) : FileOf(ds, g[k]) \in R!Range(ds)
  BY ClaimedFiles
<1>3. Claim(ds, acc, list) = [taken |-> acc.taken \cup R!Range(g),
                              out |-> IF g = <<>> THEN acc.out ELSE Append(acc.out, fs)]
  BY DEF Claim
<1> HIDE DEF g
<1>4. fs \in Seq(R!Range(ds))
  BY <1>2
<1> HIDE DEF fs
<1>5. Append(acc.out, fs) \in Seq(Seq(R!Range(ds)))
  BY <1>1, <1>4, AppendProperties
<1> QED
  BY <1>1, <1>2, <1>3, <1>5 DEF Claims

\* Every answer has its history.
LEMMA ClaimHistory ==
  ASSUME NEW X, NEW ds \in Seq(X), NEW Q, NEW lists \in Seq(Seq(Q))
  PROVE  \E h : Claiming(h, ds, lists)
<1> DEFINE n == Len(lists)
           D == 1..n
           Y == Claims(ds)
           step(f, t) == Claim(ds, f[t \ {Top(t)}], lists[Top(t)])
           body(f) == [t \in SUBSET D |-> IF t = {} THEN NoClaims ELSE step(f, t)]
           iter == CHOOSE f : f = body(f)
           G == [p \in D \X Y |-> Claim(ds, p[2], lists[p[1]])]
<1>1. n \in Nat /\ DOMAIN lists = D /\ \A i \in D : lists[i] \in Seq(Q)
  BY LenProperties, ElementOfSeq
<1>2. R!GroupedByPaths(ds, lists) =
        iter[D].out \o R!PerFile(R!Filter(ds, {d \in R!Range(ds) : d.path \notin iter[D].taken}))
  BY <1>1 DEF R!GroupedByPaths, R!FoldLeft, R!MapThenFoldSet, R!Max, Top, NoClaims, Claim, Claimed,
              FileOf
<1>3. G \in [D \X Y -> Y] /\ NoClaims \in Y
  <2>1. ASSUME NEW i \in D, NEW q \in Y
        PROVE  Claim(ds, q, lists[i]) \in Y
    BY <1>1, ClaimType
  <2>2. NoClaims \in Y
    BY EmptySeq DEF NoClaims, Claims
  <2> QED
    BY <2>1, <2>2
<1>4. \A i \in D, q \in Y : G[<<i, q>>] = Claim(ds, q, lists[i])
  OBVIOUS
<1> HIDE DEF G, D, n, Y
<1>5. \A t \in SUBSET D : t # {} => Top(t) \in D
  BY <1>1, TopIsGreatest DEF D
<1>6. \E f : f = body(f)
  <2>1. PICK it \in [SUBSET D -> Y] : Folds(it, n, NoClaims, Y, G)
    BY <1>1, <1>3, FoldExists DEF D
  <2>2. ASSUME NEW t \in SUBSET D
        PROVE  it[t] = IF t = {} THEN NoClaims ELSE step(it, t)
    <3>1. t \ {Top(t)} \in SUBSET D /\ it[t \ {Top(t)}] \in Y
      OBVIOUS
    <3> QED
      BY <1>4, <1>5, <2>1, <3>1 DEF Folds, D
  <2> QED
    BY <2>1, <2>2
<1>7. iter = body(iter)
  BY <1>6
<1> HIDE DEF iter
<1>8. Folds(iter, n, NoClaims, Y, G)
  <2>1. \A t \in SUBSET D : iter[t] = IF t = {} THEN NoClaims ELSE step(iter, t)
    BY <1>7
  <2> QED
    BY <1>4, <1>5, <2>1 DEF Folds, D
<1>9. PICK h : History(h, n, NoClaims, Y, G)
  BY <1>1, <1>3, FoldHistory DEF D
<1>10. iter[D] = h[n]
  BY <1>8, <1>9 DEF D, History
<1>11. ASSUME NEW i \in 1..n
       PROVE  h[i] = Claim(ds, h[i - 1], lists[i])
  <2>1. i \in D /\ i - 1 \in 0..n
    BY <1>1 DEF D
  <2> QED
    BY <1>4, <1>9, <2>1 DEF History
<1> QED
  BY <1>2, <1>9, <1>10, <1>11 DEF n, Y, History, Claiming
\* The groups hold what is claimed.
Held(ds, acc) ==
  /\ \A x \in 1..Len(acc.out) : \A k \in 1..Len(acc.out[x]) : acc.out[x][k].path \in acc.taken
  /\ \A d \in R!Range(ds) : d.path \in acc.taken =>
       \E x \in 1..Len(acc.out) : \E k \in 1..Len(acc.out[x]) : acc.out[x][k] = d

\* A list claims what no list before it has.
LEMMA ClaimHolds ==
  ASSUME NEW X, NEW ds \in Seq(X), NEW Q, NEW list \in Seq(Q), NEW acc \in Claims(ds), Held(ds, acc),
         \A d, e \in R!Range(ds) : d.path = e.path => d = e
  PROVE  /\ Held(ds, Claim(ds, acc, list))
         /\ Once(acc.out) /\ Distinct(list) => Once(Claim(ds, acc, list).out)
<1> DEFINE g == Claimed(ds, acc.taken, list)
           fs == [i \in DOMAIN g |-> FileOf(ds, g[i])]
           S == R!Range(ds)
           out == acc.out
           new == Claim(ds, acc, list)
           l == Len(out)
<1>1. acc.taken \in SUBSET R!Paths(ds) /\ out \in Seq(Seq(S)) /\ l \in Nat
  BY LenProperties DEF Claims
<1>2. /\ Len(g) \in Nat /\ DOMAIN g = 1..Len(g) /\ (g # <<>> => Len(g) > 0)
      /\ \A k \in 1..Len(g) : /\ g[k] \notin acc.taken
                              /\ FileOf(ds, g[k]) \in S
                              /\ FileOf(ds, g[k]).path = g[k]
      /\ Distinct(list) => Distinct(g)
  BY ClaimedFiles
<1>3. new = [taken |-> acc.taken \cup R!Range(g),
             out |-> IF g = <<>> THEN out ELSE Append(out, fs)]
  BY DEF Claim
<1>4. R!Range(g) = {g[k] : k \in 1..Len(g)}
  BY <1>2 DEF R!Range
<1> HIDE DEF g, new
<1>5. /\ fs \in Seq(S) /\ Len(fs) = Len(g)
      /\ \A k \in 1..Len(g) : fs[k] \in S /\ fs[k].path = g[k]
  BY <1>2
<1> HIDE DEF fs
<1>6. CASE g = <<>>
  <2>1. Len(g) = 0
    BY <1>6
  <2>2. new.taken = acc.taken /\ new.out = out
    BY <1>3, <1>4, <1>6, <2>1
  <2>3. Held(ds, new)
    <3>1. new.out = acc.out /\ new.taken = acc.taken
      BY <2>2
    <3>2. Held(ds, acc) <=> Held(ds, new)
      BY ONLY <3>1 DEF Held
    <3> QED
      BY ONLY <3>2, Held(ds, acc)
  <2> QED
    BY <2>2, <2>3 DEF new
<1>7. CASE g # <<>>
  <2> DEFINE r == new.out
  <2>1. r = Append(out, fs) /\ new.taken = acc.taken \cup {g[k] : k \in 1..Len(g)}
    BY <1>3, <1>4, <1>7
  <2>2. /\ Len(r) = l + 1
        /\ \A x \in 1..l : r[x] = out[x] /\ x \in 1..l + 1
        /\ r[l + 1] = fs /\ l + 1 \in 1..l + 1
        /\ \A x \in 1..l + 1 : x \in 1..l \/ x = l + 1
    <3>1. Len(r) = l + 1 /\ r[l + 1] = fs /\ \A x \in 1..l : r[x] = out[x]
      BY <1>1, <1>5, <2>1, AppendProperties
    <3>2. l \in Nat
      BY <1>1
    <3> HIDE DEF l, r, out
    <3>3. \A x \in 1..l : x \in 1..l + 1
      BY ONLY <3>2
    <3>4. l + 1 \in 1..l + 1
      BY ONLY <3>2
    <3>5. \A x \in 1..l + 1 : x \in 1..l \/ x = l + 1
      BY ONLY <3>2
    <3> QED
      BY ONLY <3>1, <3>3, <3>4, <3>5
  <2> HIDE DEF r, l, out
  <2>3. ASSUME NEW x \in 1..Len(r), NEW k \in 1..Len(r[x])
        PROVE  r[x][k].path \in new.taken
    <3>1. CASE x \in 1..l
      BY <2>1, <2>2, <3>1 DEF Held, l, out
    <3>2. CASE x = l + 1
      BY <1>5, <2>1, <2>2, <3>2
    <3> QED
      BY <2>2, <3>1, <3>2
  <2>4. ASSUME NEW d \in S, d.path \in new.taken
        PROVE  \E x \in 1..Len(r) : \E k \in 1..Len(r[x]) : r[x][k] = d
    <3>1. CASE d.path \in acc.taken
      <4>1. PICK x \in 1..l : \E k \in 1..Len(out[x]) : out[x][k] = d
        BY <3>1 DEF Held, l, out
      <4> QED
        BY <2>2, <4>1
    <3>2. CASE d.path \notin acc.taken
      <4>1. PICK k \in 1..Len(g) : d.path = g[k]
        BY <2>1, <2>4, <3>2
      <4>2. fs[k] = d
        BY <1>5, <4>1
      <4> QED
        BY <1>5, <2>2, <4>1, <4>2
    <3> QED
      BY <3>1, <3>2
  <2>5. ASSUME Once(out), Distinct(list)
        PROVE  Once(r)
    <3>1. \A x \in 1..l : \A k \in 1..Len(out[x]), m \in 1..Len(fs) : out[x][k] # fs[m]
      <4> TAKE x \in 1..l
      <4> TAKE k \in 1..Len(out[x]), m \in 1..Len(fs)
      <4>1. out[x][k].path \in acc.taken
        BY DEF Held, l, out
      <4>2. fs[m].path \notin acc.taken
        BY <1>2, <1>5
      <4> QED
        BY <4>1, <4>2
    <3>2. \A k, m \in 1..Len(fs) : fs[k] = fs[m] => k = m
      <4> TAKE k, m \in 1..Len(fs)
      <4> HAVE fs[k] = fs[m]
      <4>1. k \in 1..Len(g) /\ m \in 1..Len(g) /\ g[k] = g[m]
        BY <1>5
      <4> QED
        BY <1>2, <2>5, <4>1 DEF Distinct
    <3> SUFFICES ASSUME NEW x, NEW y, NEW k, NEW m, x \in 1..l + 1, y \in 1..l + 1,
                        k \in 1..Len(r[x]), m \in 1..Len(r[y]), r[x][k] = r[y][m]
                 PROVE  x = y /\ k = m
      BY <2>2 DEF Once
    <3>3. CASE x \in 1..l /\ y \in 1..l
      <4>1. r[x] = out[x] /\ r[y] = out[y]
        BY <2>2, <3>3
      <4> QED
        BY <2>5, <3>3, <4>1, OnceApplies DEF l
    <3>4. CASE x = l + 1 /\ y = l + 1
      BY <2>2, <3>2, <3>4
    <3>5. CASE x \in 1..l /\ y = l + 1
      BY <2>2, <3>1, <3>5
    <3>6. CASE x = l + 1 /\ y \in 1..l
      BY <2>2, <3>1, <3>6
    <3> QED
      BY <2>2, <3>3, <3>4, <3>5, <3>6
  <2>6. Held(ds, new)
    BY <2>3, <2>4 DEF Held, r
  <2> QED
    BY <2>5, <2>6 DEF r, out, new
<1> QED
  BY <1>6, <1>7

Holds(groups, d) == \E x \in 1..Len(groups) : \E k \in 1..Len(groups[x]) : groups[x][k] = d

\* Groups beside groups that hold other things.
LEMMA JoinOnce ==
  ASSUME NEW S, NEW a, NEW b, a \in Seq(Seq(S)), b \in Seq(Seq(S))
  PROVE  /\ a \o b \in Seq(Seq(S))
         /\ \A d : Holds(a, d) \/ Holds(b, d) => Holds(a \o b, d)
         /\ /\ Once(a) /\ Once(b)
            /\ \A x \in 1..Len(a), y \in 1..Len(b) :
                 \A k \in 1..Len(a[x]), m \in 1..Len(b[y]) : a[x][k] # b[y][m]
            => Once(a \o b)
<1> DEFINE r == a \o b
           l == Len(a)
           n == Len(b)
<1>1. l \in Nat /\ n \in Nat
  BY LenProperties
<1>2. r \in Seq(Seq(S)) /\ Len(r) = l + n
      /\ \A i \in 1..l + n : r[i] = IF i <= l THEN a[i] ELSE b[i - l]
  BY ConcatProperties
<1> HIDE DEF r, l, n
<1>3. /\ \A x \in 1..l : x \in 1..l + n /\ r[x] = a[x]
      /\ \A y \in 1..n : l + y \in 1..l + n /\ r[l + y] = b[y]
      /\ \A x \in 1..l + n : x \in 1..l \/ (x - l \in 1..n /\ r[x] = b[x - l])
  <2>1. \A x \in 1..l : x \in 1..l + n /\ x <= l
    BY <1>1
  <2>2. \A y \in 1..n : l + y \in 1..l + n /\ ~(l + y <= l) /\ (l + y) - l = y
    BY <1>1
  <2>3. \A x \in 1..l + n : x \in 1..l \/ (x - l \in 1..n /\ ~(x <= l))
    BY <1>1
  <2> QED
    BY <1>2, <2>1, <2>2, <2>3
<1>4. ASSUME NEW d, Holds(a, d)
      PROVE  Holds(r, d)
  BY <1>2, <1>3, <1>4 DEF Holds, l
<1>5. ASSUME NEW d, Holds(b, d)
      PROVE  Holds(r, d)
  <2>1. PICK y \in 1..n : \E k \in 1..Len(b[y]) : b[y][k] = d
    BY <1>5 DEF Holds, n
  <2>2. l + y \in 1..Len(r) /\ r[l + y] = b[y]
    BY <1>2, <1>3
  <2> HIDE DEF r
  <2> QED
    BY <2>1, <2>2 DEF Holds
<1>6. ASSUME Once(a), Once(b),
             \A x \in 1..l, y \in 1..n :
               \A k \in 1..Len(a[x]), m \in 1..Len(b[y]) : a[x][k] # b[y][m]
      PROVE  Once(r)
  <2> SUFFICES ASSUME NEW x, NEW y, NEW k, NEW m, x \in 1..l + n, y \in 1..l + n,
                      k \in 1..Len(r[x]), m \in 1..Len(r[y]), r[x][k] = r[y][m]
               PROVE  x = y /\ k = m
    BY <1>2 DEF Once
  <2>1. CASE x \in 1..l /\ y \in 1..l
    <3>1. r[x] = a[x] /\ r[y] = a[y]
      BY <1>3, <2>1
    <3> QED
      BY <1>6, <2>1, <3>1, OnceApplies DEF l
  <2>2. CASE x \notin 1..l /\ y \notin 1..l
    <3>1. x - l \in 1..n /\ r[x] = b[x - l] /\ y - l \in 1..n /\ r[y] = b[y - l]
      BY <1>3, <2>2
    <3> DEFINE u == x - l
               v == y - l
    <3>2. /\ u \in 1..Len(b) /\ v \in 1..Len(b) /\ k \in 1..Len(b[u]) /\ m \in 1..Len(b[v])
          /\ b[u][k] = b[v][m]
      BY <3>1 DEF n
    <3> HIDE DEF u, v
    <3>3. u = v /\ k = m
      BY <1>6, <3>2, OnceApplies
    <3>4. x \in Int /\ y \in Int
      BY <1>1
    <3> QED
      BY <1>1, <3>4, <3>3 DEF u, v
  <2>3. CASE x \in 1..l /\ y \notin 1..l
    <3>1. r[x] = a[x] /\ y - l \in 1..n /\ r[y] = b[y - l]
      BY <1>3, <2>3
    <3> QED
      BY <1>6, <2>3, <3>1
  <2>4. CASE x \notin 1..l /\ y \in 1..l
    <3>1. r[y] = a[y] /\ x - l \in 1..n /\ r[x] = b[x - l]
      BY <1>3, <2>4
    <3> QED
      BY <1>6, <2>4, <3>1
  <2> QED
    BY <2>1, <2>2, <2>3, <2>4
<1>7. Len(r) = l + n
  BY <1>2
<1> QED
  BY <1>2, <1>4, <1>5, <1>6, <1>7 DEF r, l, n
\* A sequence that is split covers what it holds.
LEMMA SplitsCover ==
  ASSUME NEW S, NEW ds, ds \in Seq(S), \A d \in S : \E i \in 1..Len(ds) : ds[i] = d,
         NEW parts, parts \in Seq(Seq(S)), Splits(parts, ds), Distinct(ds)
  PROVE  Cover(parts, S) /\ Once(parts)
<1>1. ASSUME NEW d \in S
      PROVE  \E x \in 1..Len(parts) : \E k \in 1..Len(parts[x]) : parts[x][k] = d
  <2>1. PICK i \in 1..Len(ds) : ds[i] = d
    OBVIOUS
  <2>2. \E x \in 1..Len(parts) : \E k \in 1..Len(parts[x]) : parts[x][k] = ds[i]
    BY DEF Splits
  <2> QED
    BY <2>1, <2>2
<1>2. Once(parts)
  BY DEF Splits
<1> QED
  BY <1>1, <1>2 DEF Cover

\* The lists of the answer and the files they leave (_parse_groups).
LEMMA AnswerCovers ==
  ASSUME NEW X, NEW ds \in Seq(X), NEW Q, NEW lists \in Seq(Seq(Q)), Distinct(ds),
         \A d, e \in R!Range(ds) : d.path = e.path => d = e
  PROVE  /\ Cover(R!GroupedByPaths(ds, lists), R!Range(ds))
         /\ (\A x \in 1..Len(lists) : Distinct(lists[x])) => Once(R!GroupedByPaths(ds, lists))
<1> DEFINE n == Len(lists)
           S == R!Range(ds)
           Repeats == \E x \in 1..n : ~Distinct(lists[x])
<1>1. n \in Nat /\ \A i \in 1..n : lists[i] \in Seq(Q)
  BY LenProperties, ElementOfSeq
<1>2. PICK h : Claiming(h, ds, lists)
  BY ClaimHistory
<1>3. /\ h \in [0..n -> Claims(ds)] /\ h[0] = NoClaims
      /\ \A i \in 1..n : h[i] = Claim(ds, h[i - 1], lists[i])
      /\ R!GroupedByPaths(ds, lists) =
           h[n].out \o R!PerFile(R!Filter(ds, {d \in S : d.path \notin h[n].taken}))
  BY <1>2 DEF Claiming
<1> HIDE DEF n, S
<1> DEFINE Good == {k \in 0..n : Held(ds, h[k]) /\ (Repeats \/ Once(h[k].out))}
<1>4. 0 \in Good
  <2>1. h[0].out = <<>> /\ h[0].taken = {} /\ Len(<<>>) = 0 /\ 1..0 = {}
    BY <1>3 DEF NoClaims
  <2>2. Held(ds, h[0]) /\ Once(h[0].out)
    BY <2>1 DEF Held, Once
  <2> QED
    BY <1>1, <2>2
<1>5. ASSUME NEW k \in 0..n - 1, k \in Good
      PROVE  k + 1 \in Good
  <2>1. k \in 0..n /\ k + 1 \in 0..n /\ k + 1 \in 1..n /\ (k + 1) - 1 = k
    BY <1>1
  <2>2. h[k + 1] = Claim(ds, h[k], lists[k + 1]) /\ h[k] \in Claims(ds) /\ lists[k + 1] \in Seq(Q)
    BY <1>1, <1>3, <2>1
  <2>3. Held(ds, h[k]) /\ (Repeats \/ Once(h[k].out))
    BY <1>5
  <2>4. Repeats \/ Distinct(lists[k + 1])
    BY <2>1
  <2> HIDE DEF Repeats
  <2>5. /\ Held(ds, Claim(ds, h[k], lists[k + 1]))
        /\ Once(h[k].out) /\ Distinct(lists[k + 1]) => Once(Claim(ds, h[k], lists[k + 1]).out)
    BY <2>2, <2>3, ClaimHolds
  <2> QED
    BY <2>1, <2>2, <2>3, <2>4, <2>5
<1>6. \A k \in 0..n - 1 : k \in Good => k + 1 \in Good
  BY <1>5
<1> HIDE DEF Good, Repeats
<1>7. \A k \in 0..n : k \in Good
  BY ONLY <1>1, <1>4, <1>6, Induction
<1>8. n \in Good /\ n \in 0..n
  BY <1>1, <1>7
<1> DEFINE acc == h[n]
           left == {d \in S : d.path \notin acc.taken}
           rest == R!Filter(ds, left)
           single == R!PerFile(rest)
<1>9. Held(ds, acc) /\ (Repeats \/ Once(acc.out)) /\ acc \in Claims(ds)
  BY <1>3, <1>8 DEF Good
<1>10. acc.out \in Seq(Seq(S))
  BY <1>9 DEF Claims, S
<1>11. ds \in Seq(S) /\ \A d \in S : \E i \in 1..Len(ds) : ds[i] = d
  BY LenProperties DEF S, R!Range
<1>12. /\ rest \in Seq(S) /\ Distinct(rest)
       /\ \A k \in 1..Len(rest) : rest[k] \in left
       /\ \A d \in left : \E k \in 1..Len(rest) : rest[k] = d
  <2>1. rest \in Seq(S)
    BY <1>11, FilterPicks
  <2> HIDE DEF left
  <2>2. /\ \A k \in 1..Len(rest) : rest[k] \in left
        /\ \A i \in 1..Len(ds) : ds[i] \in left => \E k \in 1..Len(rest) : rest[k] = ds[i]
        /\ Distinct(rest)
    <3>1. Keeps(rest, ds, left) /\ Distinct(rest)
      BY <1>11, FilterKeeps
    <3> QED
      BY <3>1 DEF Keeps
  <2> HIDE DEF rest
  <2>3. left \subseteq S
    BY DEF left
  <2>4. \A d \in left : \E k \in 1..Len(rest) : rest[k] = d
    <3> TAKE d \in left
    <3>1. PICK i \in 1..Len(ds) : ds[i] = d
      BY <1>11, <2>3
    <3> QED
      BY <2>2, <3>1
  <2> QED
    BY <2>1, <2>2, <2>4
<1>13. R!GroupedByPaths(ds, lists) = acc.out \o single
  BY <1>3
<1> HIDE DEF acc, rest
<1>14. single \in Seq(Seq(S)) /\ Splits(single, rest)
  BY <1>12, PlainSplits
<1> HIDE DEF single
<1>15. Once(single)
  BY <1>12, <1>14 DEF Splits
<1>16. \A x \in 1..Len(single) : \A k \in 1..Len(single[x]) : single[x][k].path \notin acc.taken
  <2> TAKE x \in 1..Len(single)
  <2> TAKE k \in 1..Len(single[x])
  <2>1. PICK i \in 1..Len(rest) : single[x][k] = rest[i]
    BY <1>14 DEF Splits
  <2> QED
    BY <1>12, <2>1
<1>17. ASSUME NEW d \in S
       PROVE  Holds(acc.out, d) \/ Holds(single, d)
  <2>1. CASE d.path \in acc.taken
    BY <1>9, <2>1 DEF Held, Holds, S
  <2>2. CASE d.path \notin acc.taken
    <3>1. PICK i \in 1..Len(rest) : rest[i] = d
      BY <1>12, <2>2
    <3> QED
      BY <1>14, <3>1 DEF Splits, Holds
  <2> QED
    BY <2>1, <2>2
<1> DEFINE F == acc.out \o single
<1>18. /\ F \in Seq(Seq(S))
       /\ \A d \in S : Holds(F, d)
  <2>1. F \in Seq(Seq(S))
    BY <1>10, <1>14, JoinOnce
  <2>2. ASSUME NEW d \in S
        PROVE  Holds(F, d)
    BY <1>10, <1>14, <1>17, JoinOnce
  <2> QED
    BY <2>1, <2>2
<1>19. \A x \in 1..Len(acc.out), y \in 1..Len(single) :
         \A k \in 1..Len(acc.out[x]), m \in 1..Len(single[y]) : acc.out[x][k] # single[y][m]
  <2> TAKE x \in 1..Len(acc.out), y \in 1..Len(single)
  <2> TAKE k \in 1..Len(acc.out[x]), m \in 1..Len(single[y])
  <2>1. acc.out[x][k].path \in acc.taken
    BY <1>9 DEF Held
  <2>2. single[y][m].path \notin acc.taken
    BY <1>16
  <2> QED
    BY <2>1, <2>2
<1>20. Repeats \/ Once(F)
  <2>1. Once(acc.out) => Once(acc.out \o single)
    BY <1>10, <1>14, <1>15, <1>19, JoinOnce
  <2> QED
    BY <1>9, <2>1
<1>21. Cover(F, S)
  BY <1>18 DEF Cover, Holds
<1> QED
  BY <1>13, <1>20, <1>21 DEF F, S, n, Repeats
\* What of the change the model can be shown.
Usable(diffs) == {d \in R!Range(diffs) : d.tokens <= GroupBudget}

\* The usable files, each once.
LEMMA UsableKeeps ==
  ASSUME NEW X, NEW diffs \in Seq(X), Distinct(diffs)
  PROVE  /\ R!UsableFiles(diffs) \in Seq(Usable(diffs))
         /\ Distinct(R!UsableFiles(diffs))
         /\ \A d \in Usable(diffs) : \E i \in 1..Len(R!UsableFiles(diffs)) : R!UsableFiles(diffs)[i] = d
         /\ R!Range(R!UsableFiles(diffs)) = Usable(diffs)
<1> DEFINE ds == R!UsableFiles(diffs)
<1>1. ds = R!Filter(diffs, Usable(diffs))
  BY DEF R!UsableFiles, Usable
<1> HIDE DEF ds
<1>2. ds \in Seq(X) /\ Len(ds) \in Nat /\ DOMAIN ds = 1..Len(ds)
  BY <1>1, FilterPicks, LenProperties
<1>3. Keeps(ds, diffs, Usable(diffs)) /\ Distinct(ds)
  BY <1>1, FilterKeeps
<1>4. \A i \in 1..Len(ds) : ds[i] \in Usable(diffs)
  BY <1>3 DEF Keeps
<1>5. ds \in Seq(Usable(diffs))
  BY <1>2, <1>4
<1>6. ASSUME NEW d \in Usable(diffs)
      PROVE  \E i \in 1..Len(ds) : ds[i] = d
  <2>1. PICK i \in 1..Len(diffs) : diffs[i] = d
    BY LenProperties DEF Usable, R!Range
  <2> QED
    BY <1>3, <2>1 DEF Keeps
<1>7. R!Range(ds) = Usable(diffs)
  BY <1>2, <1>4, <1>6 DEF R!Range
<1> QED
  BY <1>3, <1>5, <1>6, <1>7 DEF ds

\* Grouping loses no file whatever the answer is, puts a file into two groups
\* only when a list of the answer repeats it, and keeps to the limits.
LEMMA GroupingCovers ==
  ASSUME NEW X, NEW diffs \in Seq(X), \A x \in X : x.tokens \in Nat,
         \A i, j \in 1..Len(diffs) : diffs[i].path = diffs[j].path => i = j,
         NEW Q, NEW answer \in Seq(Seq(Q))
  PROVE  LET F == R!GroupDiffs(diffs, answer) IN
         /\ Cover(F, Usable(diffs))
         /\ (\A x \in 1..Len(answer) : Distinct(answer[x])) => Once(F)
         /\ \A p \in 1..Len(F) : Len(F[p]) <= MaxFiles /\ Tokens(F[p]) <= GroupBudget
<1> DEFINE S == Usable(diffs)
           ds == R!UsableFiles(diffs)
           F == R!GroupDiffs(diffs, answer)
           Sound(G, repeats) == Cover(G, S) /\ (repeats \/ Once(G))
           Small(G) == \A g \in 1..Len(G) : Len(G[g]) <= MaxFiles
           Fine(G, repeats) == /\ Sound(G, repeats)
                               /\ \A p \in 1..Len(G) : Len(G[p]) <= MaxFiles /\ Tokens(G[p]) <= GroupBudget
           Repeats == \E x \in 1..Len(answer) : ~Distinct(answer[x])
<1>1. Distinct(diffs)
  BY DEF Distinct
<1>2. /\ ds \in Seq(S) /\ Distinct(ds) /\ R!Range(ds) = S
      /\ \A d \in S : \E i \in 1..Len(ds) : ds[i] = d
  BY <1>1, UsableKeeps
<1>3. \A x \in S : x.tokens \in Nat /\ x.tokens <= GroupBudget
  <2>1. \A i \in 1..Len(diffs) : diffs[i] \in X
    BY ElementOfSeq
  <2>2. \A x \in S : \E i \in 1..Len(diffs) : diffs[i] = x
    BY LenProperties DEF Usable, R!Range
  <2> QED
    BY <2>1, <2>2 DEF Usable
<1>4. \A d, e \in S : d.path = e.path => d = e
  <2>1. \A x \in S : \E i \in 1..Len(diffs) : diffs[i] = x
    BY LenProperties DEF Usable, R!Range
  <2> QED
    BY <2>1
<1> HIDE DEF ds, S, F, Repeats
<1>5. ASSUME NEW G, NEW repeats \in BOOLEAN, Sound(G, repeats), Small(G)
      PROVE  Fine(R!WithinBudget(G), repeats)
  BY <1>3, <1>5, BudgetSplit
<1>6. ASSUME NEW G, NEW repeats \in BOOLEAN, Sound(G, repeats)
      PROVE  Fine(R!WithinBudget(R!SplitOversized(G)), repeats)
  <2>1. Sound(R!SplitOversized(G), repeats) /\ Small(R!SplitOversized(G))
    BY <1>6, OversizedSplit
  <2> HIDE DEF Sound, Small, Fine
  <2> QED
    BY <1>5, <2>1
<1>7. Sound(<<ds>>, FALSE) /\ Sound(R!PerFile(ds), FALSE)
  <2>1. /\ <<ds>> \in Seq(Seq(S)) /\ Splits(<<ds>>, ds)
        /\ R!PerFile(ds) \in Seq(Seq(S)) /\ Splits(R!PerFile(ds), ds)
    BY <1>2, PlainSplits
  <2>2. Cover(<<ds>>, S) /\ Once(<<ds>>)
    BY <1>2, <2>1, SplitsCover
  <2>3. Cover(R!PerFile(ds), S) /\ Once(R!PerFile(ds))
    BY <1>2, <2>1, SplitsCover
  <2> QED
    BY <2>2, <2>3
<1>8. Small(R!PerFile(ds))
  <2>1. Len(R!PerFile(ds)) = Len(ds) /\ \A i \in 1..Len(ds) : R!PerFile(ds)[i] = <<ds[i]>>
    BY <1>2, PlainSplits
  <2>2. \A x : Len(<<x>>) = 1
    OBVIOUS
  <2>3. 1 <= MaxFiles
    BY GroupLimits
  <2> QED
    BY <2>1, <2>2, <2>3
<1>9. Sound(R!GroupedByPaths(ds, answer), Repeats)
  BY <1>2, <1>4, AnswerCovers DEF Repeats
<1>10. Fine(F, FALSE) \/ Fine(F, Repeats)
  <2>1. CASE ds = <<>>
    <3>1. F = <<>>
      BY <2>1 DEF F, R!GroupDiffs, ds
    <3>2. S = {}
      BY <1>2, <2>1
    <3>3. <<>> \in Seq(Seq(S)) /\ Len(<<>>) = 0 /\ 1..0 = {}
      OBVIOUS
    <3> QED
      BY <3>1, <3>2, <3>3 DEF Cover, Once
  <2> DEFINE few == Len(ds) <= 1 \/ Len(ds) < SmallFiles
  <2>2. CASE ds # <<>> /\ few
    <3>1. F = R!WithinBudget(R!SplitOversized(R!ShortCircuit(ds)))
      BY <2>2 DEF F, R!GroupDiffs, ds
    <3>2. R!ShortCircuit(ds) = <<ds>> \/ R!ShortCircuit(ds) = R!PerFile(ds)
      BY DEF R!ShortCircuit
    <3>3. Sound(R!ShortCircuit(ds), FALSE)
      BY <1>7, <3>2
    <3> HIDE DEF Sound, Fine
    <3> QED
      BY <1>6, <3>1, <3>3
  <2>3. CASE ds # <<>> /\ ~few /\ answer = <<>>
    <3>1. F = R!WithinBudget(R!PerFile(ds))
      BY <2>3 DEF F, R!GroupDiffs, ds
    <3> HIDE DEF Sound, Fine, Small
    <3> QED
      BY <1>5, <1>7, <1>8, <3>1
  <2>4. CASE ds # <<>> /\ ~few /\ answer # <<>>
    <3>1. F = R!WithinBudget(R!SplitOversized(R!GroupedByPaths(ds, answer)))
      BY <2>4 DEF F, R!GroupDiffs, ds
    <3>2. Repeats \in BOOLEAN
      BY DEF Repeats
    <3> HIDE DEF Sound, Fine
    <3> QED
      BY <1>6, <1>9, <3>1, <3>2
  <2> QED
    BY <2>1, <2>2, <2>3, <2>4
<1>11. Fine(F, Repeats)
  BY <1>10
<1> QED
  BY <1>11 DEF F, S, Repeats

-----------------------------------------------------------------------------
(* The cases *)

Words == {"a", "b"}
Diff  == [path : {"f1", "f2", "f3"}, churn : Nat, tokens : Nat]

\* What a case of each kind is about.
ChangeCase ==
  /\ given.diffs \in Seq(Diff)
  /\ \A i, j \in 1..Len(given.diffs) : given.diffs[i].path = given.diffs[j].path => i = j
HunkCase ==
  /\ given.hunk.old = 2 /\ given.hunk.new = 2 /\ given.hunk.lines \in Seq(R!HunkLine)
  /\ given.top \in Words /\ given.bottom \in Words
RoundsCase == given.before \in Seq(R!Found) /\ given.after \in Seq(R!Found)
ReportsCase ==
  /\ given.found \in Seq(R!Reported)
  /\ given.calls \in Seq([name : {"report", "approve", "other"}, ids : SUBSET {0, 2}])
ArgumentsCase == given.items \in Seq({"comment", "no text", "no object"})
ChainCase == given.answers \in Seq({"ok", "LLMError", "crash"})

\* A case is of its kind.
CasesInv ==
  /\ kind = "change" => ChangeCase
  /\ kind = "groups" => ChangeCase /\ given.answer \in Seq(Seq(R!Asked))
  /\ kind = "hunk" => HunkCase
  /\ kind = "anchor" => HunkCase /\ given.needle \in Seq(Words)
  /\ kind = "rounds" => RoundsCase
  /\ kind = "reports" => ReportsCase
  /\ kind = "arguments" => ArgumentsCase
  /\ kind = "chain" => ChainCase

\* The sequences of a case are sequences.
LEMMA BoundedSeq ==
  ASSUME NEW S, NEW n, NEW s \in R!SeqOf(S, n)
  PROVE  s \in Seq(S)
<1>1. PICK m \in 0..n : s \in [1..m -> S]
  BY DEF R!SeqOf
<1>2. m \in Nat
  OBVIOUS
<1> QED
  BY <1>1, <1>2

\* The files of a change have names of their own.
LEMMA ChangeTyped ==
  ASSUME NEW c \in R!Change
  PROVE  /\ R!Diffs(c) \in Seq(Diff)
         /\ \A i, j \in 1..Len(R!Diffs(c)) : R!Diffs(c)[i].path = R!Diffs(c)[j].path => i = j
<1>1. PICK n \in 0..3 : c \in [1..n -> R!Sizes]
  BY DEF R!Change
<1> DEFINE ds == R!Diffs(c)
<1>2. ds = [i \in 1..n |-> [path |-> R!Names[i], churn |-> c[i].churn, tokens |-> c[i].tokens]]
  BY <1>1 DEF R!Diffs
<1>3. \A x \in R!Sizes : x.churn \in Nat /\ x.tokens \in Nat
  BY GroupLimits DEF R!Sizes
<1>4. /\ R!Names[1] = "f1" /\ R!Names[2] = "f2" /\ R!Names[3] = "f3"
      /\ \A i \in 1..n : i = 1 \/ i = 2 \/ i = 3
  BY DEF R!Names
<1> HIDE DEF ds
<1>5. ASSUME NEW i \in 1..n
      PROVE  ds[i] \in Diff /\ ds[i].path = R!Names[i]
  <2>1. R!Names[i] \in {"f1", "f2", "f3"}
    BY <1>4
  <2>2. c[i].churn \in Nat /\ c[i].tokens \in Nat
    BY <1>1, <1>3
  <2> QED
    BY <1>2, <2>1, <2>2 DEF Diff
<1>6. n \in Nat
  OBVIOUS
<1>7. ds \in Seq(Diff) /\ Len(ds) = n
  BY <1>2, <1>5, <1>6
<1>8. \A i, j \in 1..n : R!Names[i] = R!Names[j] => i = j
  BY <1>4
<1> QED
  BY <1>5, <1>7, <1>8 DEF ds

\* A case is of its kind in every behaviour of the console.
THEOREM CasesTyped == Spec => []CasesInv
<1>1. Init => CasesInv
  BY DEF Init, R!Init, CasesInv
<1>2. CasesInv /\ [Next]_vars => CasesInv'
  <2> SUFFICES ASSUME CasesInv, [Next]_vars
               PROVE  CasesInv'
    OBVIOUS
  <2>1. CASE UNCHANGED <<kind, given>>
    BY <2>1 DEF CasesInv, ChangeCase, HunkCase, RoundsCase, ReportsCase, ArgumentsCase, ChainCase
  <2>2. ASSUME R!PickGroups
        PROVE  CasesInv'
    <3>1. PICK c \in R!Change : given' = [diffs |-> R!Diffs(c)]
      BY <2>2 DEF R!PickGroups
    <3>2. kind' = "change"
      BY <2>2 DEF R!PickGroups
    <3>3. ChangeCase'
      BY <3>1, ChangeTyped DEF ChangeCase
    <3> QED
      BY <3>2, <3>3 DEF CasesInv
  <2>3. ASSUME R!AnswerGroups
        PROVE  CasesInv'
    <3>1. kind' = "groups" /\ ChangeCase
      BY <2>3 DEF R!AnswerGroups, CasesInv
    <3>2. given'.diffs = given.diffs /\ given'.answer \in Seq(Seq(R!Asked))
      <4>1. CASE given' = [diffs |-> given.diffs, answer |-> <<>>]
        BY <4>1
      <4>2. ASSUME NEW one \in R!SeqOf(R!Asked, 3), NEW two \in R!SeqOf(R!Asked, 2),
                   given' = [diffs |-> given.diffs, answer |-> <<one, two>>]
            PROVE  given'.diffs = given.diffs /\ given'.answer \in Seq(Seq(R!Asked))
        <5>1. one \in Seq(R!Asked) /\ two \in Seq(R!Asked)
          BY BoundedSeq
        <5>2. <<one, two>> \in Seq(Seq(R!Asked))
          BY <5>1
        <5> QED
          BY <4>2, <5>2
      <4> QED
        BY <2>3, <4>1, <4>2 DEF R!AnswerGroups
    <3>3. ChangeCase'
      BY <3>1, <3>2 DEF ChangeCase
    <3> QED
      BY <3>1, <3>2, <3>3 DEF CasesInv
  <2>4. ASSUME R!PickHunk
        PROVE  CasesInv'
    <3>1. PICK lines \in R!SeqOf(R!HunkLine, LinesMax), top, bottom \in {"a", "b"} :
            given' = [hunk |-> [old |-> 2, new |-> 2, lines |-> lines],
                      top |-> top, bottom |-> bottom]
      BY <2>4 DEF R!PickHunk
    <3>2. kind' = "hunk" /\ lines \in Seq(R!HunkLine)
      BY <2>4, BoundedSeq DEF R!PickHunk
    <3>3. HunkCase'
      BY <3>1, <3>2 DEF HunkCase, Words
    <3> QED
      BY <3>2, <3>3 DEF CasesInv
  <2>5. ASSUME R!PickNeedle
        PROVE  CasesInv'
    <3>1. PICK needle \in R!SeqOf({"a", "b"}, 2) :
            given' = [hunk |-> given.hunk, top |-> given.top, bottom |-> given.bottom,
                      needle |-> needle]
      BY <2>5 DEF R!PickNeedle
    <3>2. kind' = "anchor" /\ HunkCase /\ needle \in Seq(Words)
      BY <2>5, BoundedSeq DEF R!PickNeedle, CasesInv, Words
    <3>3. HunkCase' /\ given'.needle \in Seq(Words)
      BY <3>1, <3>2 DEF HunkCase
    <3> QED
      BY <3>2, <3>3 DEF CasesInv
  <2>6. ASSUME R!PickRounds
        PROVE  CasesInv'
    <3>1. PICK before, after \in R!SeqOf(R!Found, FoundMax), covered \in SUBSET {"f1", "f2"} :
            given' = [before |-> before, after |-> after, covered |-> covered]
      BY <2>6 DEF R!PickRounds
    <3>2. kind' = "rounds" /\ before \in Seq(R!Found) /\ after \in Seq(R!Found)
      BY <2>6, BoundedSeq DEF R!PickRounds
    <3> QED
      BY <3>1, <3>2 DEF CasesInv, RoundsCase
  <2>7. ASSUME R!PickReports
        PROVE  CasesInv'
    <3>1. PICK found \in R!SeqOf(R!Reported, FoundMax),
               calls \in R!SeqOf([name : {"report", "approve", "other"}, ids : SUBSET {0, 2}], 2) :
            given' = [found |-> found, calls |-> calls]
      BY <2>7 DEF R!PickReports
    <3>2. /\ kind' = "reports" /\ found \in Seq(R!Reported)
          /\ calls \in Seq([name : {"report", "approve", "other"}, ids : SUBSET {0, 2}])
      BY <2>7, BoundedSeq DEF R!PickReports
    <3> QED
      BY <3>1, <3>2 DEF CasesInv, ReportsCase
  <2>8. ASSUME R!PickArguments
        PROVE  CasesInv'
    <3>1. PICK sh \in {"array", "object", "array_text", "object_text", "unreadable"},
               items \in R!SeqOf({"comment", "no text", "no object"}, 3), flat \in BOOLEAN :
            kind' = "arguments" /\ given' = [shape |-> sh, items |-> items, flat |-> flat]
      BY <2>8, Zenon DEF R!PickArguments
    <3>2. given'.items \in Seq({"comment", "no text", "no object"})
      BY <3>1, BoundedSeq
    <3> QED
      BY <3>1, <3>2 DEF CasesInv, ArgumentsCase
  <2>9. ASSUME R!PickChain
        PROVE  CasesInv'
    <3>1. /\ kind' = "chain"
          /\ \E answers \in R!SeqOf({"ok", "LLMError", "crash"}, 3) : given'.answers = answers
      BY <2>9 DEF R!PickChain
    <3>2. given'.answers \in Seq({"ok", "LLMError", "crash"})
      BY <3>1, BoundedSeq
    <3> QED
      BY <3>1, <3>2 DEF CasesInv, ChainCase
  <2>10. R!Next \/ UNCHANGED <<kind, given>>
    BY DEF Next, vars, tvars, In
  <2> QED
    BY <2>1, <2>2, <2>3, <2>4, <2>5, <2>6, <2>7, <2>8, <2>9, <2>10 DEF R!Next
<1> QED
  BY <1>1, <1>2, PTL DEF Spec

\* What is in several groups is in one, when nothing is in the groups twice.
LEMMA OnceNamed ==
  ASSUME NEW S, NEW groups, groups \in Seq(Seq(S)), Once(groups), NEW d
  PROVE  R!Cardinality({g \in DOMAIN groups : d \in R!Range(groups[g])}) <= 1
<1> DEFINE named == {g \in DOMAIN groups : d \in R!Range(groups[g])}
<1>1. DOMAIN groups = 1..Len(groups) /\ \A g \in 1..Len(groups) : DOMAIN groups[g] = 1..Len(groups[g])
  BY LenProperties, ElementOfSeq
<1>2. ASSUME NEW g \in named, NEW h \in named
      PROVE  g = h
  <2>1. PICK i \in 1..Len(groups[g]) : groups[g][i] = d
    BY <1>1 DEF R!Range
  <2>2. PICK j \in 1..Len(groups[h]) : groups[h][j] = d
    BY <1>1 DEF R!Range
  <2>3. g \in 1..Len(groups) /\ h \in 1..Len(groups)
    BY <1>1
  <2> QED
    BY <2>1, <2>2, <2>3, OnceApplies
<1> HIDE DEF named
<1>3. CASE named = {}
  <2>1. R!Cardinality(named) = 0
    BY <1>3, SameLibrary, FS_EmptySet
  <2> QED
    BY <2>1 DEF named
<1>4. CASE named # {}
  <2>1. PICK g \in named : TRUE
    BY <1>4
  <2>2. named = {g}
    BY <1>2, <2>1
  <2>3. Cardinality(named) = 1
    BY <2>2, FS_Singleton
  <2> QED
    BY <2>3, SameLibrary DEF named
<1> QED
  BY <1>3, <1>4

\* Every case of a grouping loses no file (grouping.py).
LEMMA GroupsCovered ==
  ASSUME CasesInv
  PROVE  R!GroupsCover
<1> SUFFICES ASSUME kind = "groups"
             PROVE  R!GroupsCover
  BY DEF R!GroupsCover
<1> DEFINE F == R!GroupDiffs(given.diffs, given.answer)
           named(d) == {g \in DOMAIN F : d \in R!Range(F[g])}
<1>1. /\ given.diffs \in Seq(Diff)
      /\ \A i, j \in 1..Len(given.diffs) : given.diffs[i].path = given.diffs[j].path => i = j
      /\ given.answer \in Seq(Seq(R!Asked))
  BY DEF CasesInv, ChangeCase
<1>2. \A x \in Diff : x.tokens \in Nat
  BY DEF Diff
<1>3. /\ Cover(F, Usable(given.diffs))
      /\ (\A x \in 1..Len(given.answer) : Distinct(given.answer[x])) => Once(F)
      /\ \A p \in 1..Len(F) : Len(F[p]) <= MaxFiles /\ Tokens(F[p]) <= GroupBudget
  BY <1>1, <1>2, GroupingCovers
<1> HIDE DEF F
<1>4. /\ F \in Seq(Seq(Usable(given.diffs)))
      /\ DOMAIN F = 1..Len(F) /\ \A g \in 1..Len(F) : F[g] \in Seq(Usable(given.diffs))
  BY <1>3, LenProperties, ElementOfSeq DEF Cover
<1>5. \A g \in 1..Len(F) : DOMAIN F[g] = 1..Len(F[g]) /\ R!Range(F[g]) \subseteq Usable(given.diffs)
  <2> TAKE g \in 1..Len(F)
  <2>1. F[g] \in Seq(Usable(given.diffs))
    BY <1>4
  <2>2. DOMAIN F[g] = 1..Len(F[g]) /\ \A i \in 1..Len(F[g]) : F[g][i] \in Usable(given.diffs)
    BY <2>1, LenProperties, ElementOfSeq
  <2> QED
    BY <2>2 DEF R!Range
<1>6. ASSUME NEW d \in R!Range(given.diffs)
      PROVE  IF d.tokens > GroupBudget THEN named(d) = {}
             ELSE /\ named(d) # {}
                  /\ R!Cardinality(named(d)) > 1 =>
                       \E l \in DOMAIN given.answer : ~R!IsInjective(given.answer[l])
  <2>1. d.tokens \in Nat
    BY <1>1, <1>2, LenProperties, ElementOfSeq DEF R!Range
  <2>2. CASE d.tokens > GroupBudget
    <3>1. d \notin Usable(given.diffs)
      BY <2>1, <2>2, GroupLimits DEF Usable
    <3> QED
      BY <1>4, <1>5, <2>2, <3>1
  <2>3. CASE ~(d.tokens > GroupBudget)
    <3>1. d \in Usable(given.diffs)
      BY <2>1, <2>3, GroupLimits DEF Usable
    <3>2. PICK g \in 1..Len(F) : \E i \in 1..Len(F[g]) : F[g][i] = d
      BY <1>3, <3>1 DEF Cover
    <3>3. g \in named(d)
      BY <1>4, <1>5, <3>2 DEF R!Range
    <3>4. ASSUME R!Cardinality(named(d)) > 1
          PROVE  \E l \in DOMAIN given.answer : ~R!IsInjective(given.answer[l])
      <4>1. CASE Once(F)
        <5>1. R!Cardinality(named(d)) <= 1
          BY <1>4, <4>1, OnceNamed
        <5>2. R!Cardinality(named(d)) \in Nat
          <6>1. IsFiniteSet(1..Len(F)) /\ named(d) \in SUBSET (1..Len(F))
            BY <1>4, LenProperties, IntervalCount
          <6> HIDE DEF named
          <6>2. IsFiniteSet(named(d))
            BY <6>1, FS_Subset
          <6> QED
            BY <6>2, FS_CardinalityType, SameLibrary
        <5> HIDE DEF named
        <5> QED
          BY <3>4, <5>1, <5>2
      <4>2. CASE ~Once(F)
        <5>1. PICK l \in 1..Len(given.answer) : ~Distinct(given.answer[l])
          BY <1>3, <4>2
        <5>2. given.answer[l] \in Seq(R!Asked) /\ l \in DOMAIN given.answer
          BY <1>1, LenProperties, ElementOfSeq
        <5>3. DOMAIN given.answer[l] = 1..Len(given.answer[l])
          BY <5>2, LenProperties
        <5>4. ~R!IsInjective(given.answer[l])
          BY <5>1, <5>3 DEF Distinct, R!IsInjective
        <5> QED
          BY <5>2, <5>4
      <4> QED
        BY <4>1, <4>2
    <3> HIDE DEF named
    <3> QED
      BY <2>3, <3>3, <3>4
  <2> QED
    BY <2>2, <2>3
<1>7. \A g \in DOMAIN F : Len(F[g]) <= MaxFiles /\ R!SumOf(LAMBDA d : d.tokens, F[g]) <= GroupBudget
  BY <1>3, <1>4 DEF Tokens
<1> QED
  BY <1>6, <1>7 DEF R!GroupsCover, F

\* Every case of two rounds adds up (compare.py).
LEMMA RoundsBalanced ==
  ASSUME CasesInv
  PROVE  R!BucketsBalance
<1> SUFFICES ASSUME kind = "rounds"
             PROVE  R!BucketsBalance
  BY DEF R!BucketsBalance
<1>1. given.before \in Seq(R!Found) /\ given.after \in Seq(R!Found)
  BY DEF CasesInv, RoundsCase
<1> QED
  <2>1. \A x \in R!Found : AddUp(given.before, given.after, given.covered, x)
    BY <1>1, BucketsAddUp
  <2>2. Tells(given.before, given.after, given.covered)
    BY <1>1, RateTells
  <2> QED
    BY <2>1, <2>2 DEF R!BucketsBalance, AddUp, Tells

\* Every case of an answer keeps what is good (review_filter.py, sandbox.py).
LEMMA CasesKept ==
  ASSUME CasesInv
  PROVE  R!AnswersKept
<1>1. ASSUME kind = "reports"
      PROVE  LET m == R!Merged(given.found) IN
             /\ \A i, j \in DOMAIN m : i # j => ~R!Same(m[i], m[j])
             /\ \A f \in R!Range(given.found) : \E g \in R!Range(m) : R!Same(f, g)
             /\ Len(R!Kept(given.found, given.calls)) < Len(given.found) =>
                  \E c \in R!Range(given.calls) : c.name = "report" /\ c.ids # {}
  BY <1>1, MergedKeeps, KeptUnlessReported DEF CasesInv, ReportsCase
<1>2. ASSUME kind = "arguments"
      PROVE  LET whole == given.shape \in {"array", "array_text"} IN
             /\ whole => Len(R!Accepted(given)) >=
                  R!Cardinality({i \in DOMAIN given.items : given.items[i] = "comment"})
             /\ given.flat /\ given.shape = "unreadable" => R!Accepted(given) # <<>>
  BY <1>2, AcceptedCount, AcceptedFlat DEF CasesInv, ArgumentsCase
<1>3. ASSUME kind = "chain"
      PROVE  (R!Completed(given.answers) = "LLMError") <=> (R!Range(given.answers) \subseteq {"LLMError"})
  BY <1>3, CompletedChain DEF CasesInv, ChainCase
<1> QED
  BY <1>1, <1>2, <1>3 DEF R!AnswersKept

\* A review loses nothing on its way: files on the way to a group, comments on
\* the way from an answer, findings between two rounds (grouping.py,
\* sandbox.py, review_filter.py, compare.py).
THEOREM NothingIsLost == Spec => []NothingLost
<1>1. CasesInv => NothingLost
  BY GroupsCovered, RoundsBalanced, CasesKept DEF NothingLost
<1> QED
  BY <1>1, CasesTyped, PTL

-----------------------------------------------------------------------------
(* Anchors *)

Texts == {"a", "b", ""}
Marks == [n : Int, out : Seq(Int \X Texts)]

\* A line goes on, or is not of the side.
Counted(acc, l, other) ==
  IF l.type = other THEN acc
  ELSE [n |-> acc.n + 1, out |-> Append(acc.out, <<acc.n, l.text>>)]

\* The history of a side.
Siding(h, lines, first, other) ==
  /\ h \in [0..Len(lines) -> Marks]
  /\ h[0] = [n |-> first, out |-> <<>>]
  /\ \A i \in 1..Len(lines) : h[i] = Counted(h[i - 1], lines[i], other)
  /\ R!Side(lines, first, other) = h[Len(lines)].out

\* Every side has its history.
LEMMA SideHistory ==
  ASSUME NEW lines \in Seq(R!HunkLine), NEW first \in Int, NEW other
  PROVE  \E h : Siding(h, lines, first, other)
<1> DEFINE n == Len(lines)
           D == 1..n
           Y == Marks
           base == [n |-> first, out |-> <<>>]
           step(f, t) == Counted(f[t \ {Top(t)}], lines[Top(t)], other)
           body(f) == [t \in SUBSET D |-> IF t = {} THEN base ELSE step(f, t)]
           iter == CHOOSE f : f = body(f)
           G == [p \in D \X Y |-> Counted(p[2], lines[p[1]], other)]
<1>1. n \in Nat /\ DOMAIN lines = D /\ \A i \in D : lines[i].text \in Texts
  <2>1. n \in Nat /\ DOMAIN lines = D /\ \A i \in D : lines[i] \in R!HunkLine
    BY LenProperties, ElementOfSeq
  <2> QED
    BY <2>1 DEF R!HunkLine, Texts
<1>2. R!Side(lines, first, other) = iter[D].out
  BY <1>1 DEF R!Side, R!FoldLeft, R!MapThenFoldSet, R!Max, Top, Counted
<1>3. G \in [D \X Y -> Y] /\ base \in Y
  <2>1. ASSUME NEW i \in D, NEW q \in Y
        PROVE  Counted(q, lines[i], other) \in Y
    <3>1. q.n \in Int /\ q.out \in Seq(Int \X Texts)
      BY DEF Marks
    <3>2. Append(q.out, <<q.n, lines[i].text>>) \in Seq(Int \X Texts)
      BY <1>1, <3>1, AppendProperties
    <3> QED
      BY <3>1, <3>2 DEF Counted, Marks
  <2>2. base \in Y
    BY EmptySeq DEF Marks
  <2> QED
    BY <2>1, <2>2
<1>4. \A i \in D, q \in Y : G[<<i, q>>] = Counted(q, lines[i], other)
  OBVIOUS
<1> HIDE DEF G, D, n, Y, base
<1>5. \A t \in SUBSET D : t # {} => Top(t) \in D
  BY <1>1, TopIsGreatest DEF D
<1>6. \E f : f = body(f)
  <2>1. PICK it \in [SUBSET D -> Y] : Folds(it, n, base, Y, G)
    BY <1>1, <1>3, FoldExists DEF D
  <2>2. ASSUME NEW t \in SUBSET D
        PROVE  it[t] = IF t = {} THEN base ELSE step(it, t)
    <3>1. t \ {Top(t)} \in SUBSET D /\ it[t \ {Top(t)}] \in Y
      OBVIOUS
    <3> QED
      BY <1>4, <1>5, <2>1, <3>1 DEF Folds, D
  <2> QED
    BY <2>1, <2>2
<1>7. iter = body(iter)
  BY <1>6
<1> HIDE DEF iter
<1>8. Folds(iter, n, base, Y, G)
  <2>1. \A t \in SUBSET D : iter[t] = IF t = {} THEN base ELSE step(iter, t)
    BY <1>7
  <2> QED
    BY <1>4, <1>5, <2>1 DEF Folds, D
<1>9. PICK h : History(h, n, base, Y, G)
  BY <1>1, <1>3, FoldHistory DEF D
<1>10. R!Side(lines, first, other) = h[n].out
  BY <1>2, <1>8, <1>9 DEF D, History
<1>11. ASSUME NEW i \in 1..n
       PROVE  h[i] = Counted(h[i - 1], lines[i], other)
  <2>1. i \in D /\ i - 1 \in 0..n
    BY <1>1 DEF D
  <2> QED
    BY <1>4, <1>9, <2>1 DEF History
<1> QED
  BY <1>9, <1>10, <1>11 DEF n, Y, base, History, Siding

\* The lines of a side are numbered one after the other.
LEMMA SideNumbers ==
  ASSUME NEW lines \in Seq(R!HunkLine), NEW first \in Int, NEW other
  PROVE  /\ R!Side(lines, first, other) \in Seq(Int \X Texts)
         /\ \A j \in 1..Len(R!Side(lines, first, other)) :
              R!Side(lines, first, other)[j][1] = first + j - 1
<1> DEFINE n == Len(lines)
<1>1. n \in Nat
  BY LenProperties
<1>2. PICK h : Siding(h, lines, first, other)
  BY SideHistory
<1>3. /\ h \in [0..n -> Marks] /\ h[0] = [n |-> first, out |-> <<>>]
      /\ \A i \in 1..n : h[i] = Counted(h[i - 1], lines[i], other)
      /\ R!Side(lines, first, other) = h[n].out
  BY <1>2 DEF Siding
<1> HIDE DEF n
<1> DEFINE Ok(m) == /\ m.n = first + Len(m.out)
                    /\ \A j \in 1..Len(m.out) : m.out[j][1] = first + j - 1
           Good == {k \in 0..n : Ok(h[k])}
<1>4. 0 \in Good
  <2>1. h[0].n = first /\ Len(h[0].out) = 0 /\ 0 \in 0..n
    BY <1>1, <1>3
  <2> QED
    BY <2>1
<1>5. ASSUME NEW k \in 0..n - 1, k \in Good
      PROVE  k + 1 \in Good
  <2>1. k \in 0..n /\ k + 1 \in 0..n /\ k + 1 \in 1..n /\ (k + 1) - 1 = k
    BY <1>1
  <2> DEFINE m == h[k]
             l == lines[k + 1]
  <2>2. m \in Marks /\ h[k + 1] = Counted(m, l, other) /\ Ok(m)
    BY <1>3, <1>5, <2>1
  <2>3. l.text \in Texts
    <3>1. l \in R!HunkLine
      BY <2>1, ElementOfSeq DEF n
    <3> QED
      BY <3>1 DEF R!HunkLine, Texts
  <2> HIDE DEF m, l
  <2>4. CASE l.type = other
    BY <2>1, <2>2, <2>4 DEF Counted
  <2>5. CASE l.type # other
    <3> DEFINE q == Append(m.out, <<m.n, l.text>>)
               c == Len(m.out)
    <3>1. m.n \in Int /\ m.out \in Seq(Int \X Texts) /\ <<m.n, l.text>> \in Int \X Texts /\ c \in Nat
      BY <2>2, <2>3, LenProperties DEF Marks
    <3>2. /\ Len(q) = c + 1 /\ q[c + 1] = <<m.n, l.text>>
          /\ \A j \in 1..c : q[j] = m.out[j]
      BY <3>1, AppendProperties
    <3>3. h[k + 1] = [n |-> m.n + 1, out |-> q]
      BY <2>2, <2>5 DEF Counted
    <3> HIDE DEF q
    <3>4. \A j \in 1..c : m.out[j][1] = first + j - 1
      BY <2>2
    <3>5. m.n = first + c
      BY <2>2
    <3> HIDE DEF c
    <3>6. \A j \in 1..c + 1 : j \in 1..c \/ j = c + 1
      BY <3>1
    <3>7. \A j \in 1..c + 1 : q[j][1] = first + j - 1
      <4> TAKE j \in 1..c + 1
      <4>1. CASE j \in 1..c
        BY <3>2, <3>4, <4>1
      <4>2. CASE j = c + 1
        BY <3>1, <3>2, <3>5, <4>2
      <4> QED
        BY <3>6, <4>1, <4>2
    <3>8. m.n + 1 = first + (c + 1)
      BY <3>1, <3>5
    <3>9. Ok([n |-> m.n + 1, out |-> q])
      BY <3>2, <3>7, <3>8
    <3> QED
      BY <2>1, <3>3, <3>9
  <2> QED
    BY <2>4, <2>5
<1>6. \A k \in 0..n - 1 : k \in Good => k + 1 \in Good
  BY <1>5
<1> HIDE DEF Good
<1>7. \A k \in 0..n : k \in Good
  BY ONLY <1>1, <1>4, <1>6, Induction
<1>8. n \in Good /\ n \in 0..n
  BY <1>1, <1>7
<1> QED
  BY <1>3, <1>8 DEF Good, Marks

\* A list of u numbers up to n, each above the one before.
Rises(e, u, n) == e \in [1..u -> 1..n] /\ \A j, k \in 1..u : j < k => e[j] < e[k]

\* The numbers of a list are among those of another.
Within(e, u, d, v) == \A k \in 1..u : \E j \in 1..v : d[j] = e[k]

\* A rising list of numbers begins as any that has the same ones.
LEMMA SameStart ==
  ASSUME NEW n \in Nat, NEW u \in Nat, NEW v \in Nat, NEW e, NEW d,
         Rises(e, u, n), Rises(d, v, n), Within(e, u, d, v), Within(d, v, e, u)
  PROVE  u <= v /\ \A k \in 1..u : e[k] = d[k]
<1>1. /\ e \in [1..u -> 1..n] /\ d \in [1..v -> 1..n]
      /\ \A j, k \in 1..u : j < k => e[j] < e[k]
      /\ \A j, k \in 1..v : j < k => d[j] < d[k]
      /\ \A k \in 1..u : \E j \in 1..v : d[j] = e[k]
      /\ \A k \in 1..v : \E j \in 1..u : e[j] = d[k]
  BY DEF Rises, Within
<1> DEFINE Good == {k \in 0..u : k <= v /\ \A i \in 1..k : e[i] = d[i]}
<1>2. 0 \in Good
  OBVIOUS
<1>3. ASSUME NEW k \in 0..u - 1, k \in Good
      PROVE  k + 1 \in Good
  <2>1. k <= v /\ \A i \in 1..k : e[i] = d[i]
    BY <1>3
  <2>2. k + 1 \in 1..u /\ k \in Nat
    OBVIOUS
  <2>3. PICK j \in 1..v : d[j] = e[k + 1]
    BY <1>1, <2>2
  <2>4. ~(j <= k)
    <3> SUFFICES ASSUME j <= k
                 PROVE  FALSE
      OBVIOUS
    <3>1. j \in 1..k /\ j \in 1..u /\ j < k + 1
      BY <2>2
    <3>2. e[j] < e[k + 1] /\ e[j] = d[j]
      BY <1>1, <2>1, <2>2, <3>1
    <3> QED
      BY <1>1, <2>2, <2>3, <3>1, <3>2
  <2>5. k + 1 \in 1..v
    BY <2>2, <2>4
  <2>6. PICK l \in 1..u : e[l] = d[k + 1]
    BY <1>1, <2>5
  <2>7. ~(l <= k)
    <3> SUFFICES ASSUME l <= k
                 PROVE  FALSE
      OBVIOUS
    <3>1. l \in 1..k /\ l \in 1..v /\ l < k + 1
      BY <2>1, <2>2
    <3>2. d[l] < d[k + 1] /\ e[l] = d[l]
      BY <1>1, <2>1, <2>5, <3>1
    <3> QED
      BY <1>1, <2>5, <2>6, <3>1, <3>2
  <2>8. e[k + 1] \in Int /\ d[k + 1] \in Int /\ e[l] \in Int /\ d[j] \in Int
    BY <1>1, <2>2, <2>5
  <2>9. d[k + 1] <= d[j]
    <3>1. j = k + 1 \/ k + 1 < j
      BY <2>2, <2>4
    <3>2. k + 1 < j => d[k + 1] < d[j]
      BY <1>1, <2>5
    <3>3. CASE j = k + 1
      BY <2>8, <3>3
    <3>4. CASE k + 1 < j
      BY <2>8, <3>2, <3>4
    <3> QED
      BY ONLY <3>1, <3>3, <3>4
  <2>10. e[k + 1] <= e[l]
    <3>1. l = k + 1 \/ k + 1 < l
      BY <2>2, <2>7
    <3>2. k + 1 < l => e[k + 1] < e[l]
      BY <1>1, <2>2
    <3>3. CASE l = k + 1
      BY <2>8, <3>3
    <3>4. CASE k + 1 < l
      BY <2>8, <3>2, <3>4
    <3> QED
      BY ONLY <3>1, <3>3, <3>4
  <2>11. e[k + 1] = d[k + 1]
    BY ONLY <2>3, <2>6, <2>8, <2>9, <2>10
  <2>12. \A i \in 1..k + 1 : i \in 1..k \/ i = k + 1
    BY <2>2
  <2>13. \A i \in 1..k + 1 : e[i] = d[i]
    BY <2>1, <2>11, <2>12
  <2>14. k + 1 \in 0..u /\ k + 1 <= v
    BY <2>2, <2>5
  <2> QED
    BY <2>13, <2>14
<1>4. \A k \in 0..u - 1 : k \in Good => k + 1 \in Good
  BY <1>3
<1> HIDE DEF Good
<1>5. \A k \in 0..u : k \in Good
  BY ONLY u \in Nat, <1>2, <1>4, Induction
<1>6. u \in Good
  BY <1>5
<1> QED
  BY <1>6 DEF Good

\* Two rising lists of the same numbers are the same list.
LEMMA SameNumbers ==
  ASSUME NEW n \in Nat, NEW u \in Nat, NEW v \in Nat, NEW e, NEW d,
         Rises(e, u, n), Rises(d, v, n), Within(e, u, d, v), Within(d, v, e, u)
  PROVE  u = v /\ \A k \in 1..u : e[k] = d[k]
<1>1. u <= v /\ v <= u /\ \A k \in 1..u : e[k] = d[k]
  BY SameStart
<1> QED
  BY <1>1

\* A side reads a text: its lines are lines of the text, in their order, and
\* from one of them to another it leaves out blank lines only.
Reading(L, text) ==
  /\ L \in Seq(Int \X Texts)
  /\ \A i, j \in 1..Len(L) : i < j => L[i][1] < L[j][1]
  /\ \A i \in 1..Len(L) : L[i][1] \in 1..Len(text) /\ text[L[i][1]] = L[i][2]
  /\ \A i, j \in 1..Len(L) : \A p \in L[i][1]..L[j][1] :
       text[p] # "" => \E k \in 1..Len(L) : L[k][1] = p

\* The needle is at i of a side.
At(L, needle, i) ==
  /\ i \in 1..Len(L) - Len(needle) + 1
  /\ \A k \in 1..Len(needle) : L[i + k - 1][2] = needle[k]

\* The anchor of the needle at i.
AnchorAt(L, needle, i, side) ==
  [side |-> side, first |-> L[i][1], last |-> L[i + Len(needle) - 1][1]]

\* A match is an anchor where the needle is, and there is one when it is
\* anywhere.
LEMMA MatchFound ==
  ASSUME NEW X, NEW L \in Seq(X), NEW Y, NEW needle \in Seq(Y), NEW side \in {"RIGHT", "LEFT"}
  PROVE  /\ R!MatchConsecutive(L, needle, side) # R!NoAnchor =>
              needle # <<>> /\ \E i : /\ At(L, needle, i)
                  /\ R!MatchConsecutive(L, needle, side) = AnchorAt(L, needle, i, side)
         /\ needle # <<>> /\ (\E i : At(L, needle, i)) =>
              R!MatchConsecutive(L, needle, side) # R!NoAnchor
         /\ R!MatchConsecutive(L, needle, side) # R!NoAnchor =>
              R!MatchConsecutive(L, needle, side).side = side
<1> DEFINE hits == {i \in 1..Len(L) - Len(needle) + 1 :
                        \A k \in DOMAIN needle : L[i + k - 1][2] = needle[k]}
           i == CHOOSE m \in hits : \A n \in hits : m <= n
           x == R!MatchConsecutive(L, needle, side)
<1>1. DOMAIN needle = 1..Len(needle) /\ Len(needle) \in Nat /\ Len(L) \in Nat
  BY LenProperties
<1>2. \A j : j \in hits <=> At(L, needle, j)
  BY <1>1 DEF At
<1>3. x = IF needle = <<>> \/ hits = {} THEN R!NoAnchor ELSE AnchorAt(L, needle, i, side)
  BY DEF R!MatchConsecutive, AnchorAt
<1>4. AnchorAt(L, needle, i, side) # R!NoAnchor /\ AnchorAt(L, needle, i, side).side = side
  <2>1. AnchorAt(L, needle, i, side).side = side /\ R!NoAnchor.side = "none"
    BY DEF AnchorAt, R!NoAnchor
  <2> QED
    BY <2>1
<1>5. hits # {} => i \in hits
  <2>1. hits \in SUBSET Nat
    BY <1>1
  <2> QED
    BY <2>1, LeastNat
<1> HIDE DEF hits, i, x
<1>6. x # R!NoAnchor =>
        needle # <<>> /\ \E j : At(L, needle, j) /\ x = AnchorAt(L, needle, j, side)
  BY <1>2, <1>3, <1>5
<1>7. needle # <<>> /\ (\E j : At(L, needle, j)) => x # R!NoAnchor
  BY <1>2, <1>3, <1>4
<1>8. x # R!NoAnchor => x.side = side
  BY <1>3, <1>4
<1> QED
  BY <1>6, <1>7, <1>8 DEF x

\* From where the needle is to its end, a side that reads a text says what the
\* text says there, blank lines left out.
LEMMA MatchReads ==
  ASSUME NEW text, text \in Seq(Texts), NEW L, Reading(L, text),
         NEW needle, needle \in Seq(Words), needle # <<>>, NEW i, At(L, needle, i), NEW side
  PROVE  R!Reads(text, AnchorAt(L, needle, i, side)) = needle
<1> DEFINE m == Len(needle)
           a == L[i][1]
           b == L[i + m - 1][1]
           S == SubSeq(text, a, b)
           T0 == R!Range(text) \ {""}
           r == R!Filter(S, T0)
           n == b - a + 1
           d == [k \in 1..m |-> L[i + k - 1][1] - a + 1]
<1>1. /\ L \in Seq(Int \X Texts) /\ Len(L) \in Nat /\ Len(text) \in Nat
      /\ m \in Nat /\ m # 0 /\ DOMAIN text = 1..Len(text)
  <2>1. L \in Seq(Int \X Texts)
    BY DEF Reading
  <2>2. m # 0
    BY EmptySeq
  <2> QED
    BY <2>1, <2>2, LenProperties
<1>2. /\ \A j, k \in 1..Len(L) : j < k => L[j][1] < L[k][1]
      /\ \A j \in 1..Len(L) : L[j][1] \in 1..Len(text) /\ text[L[j][1]] = L[j][2]
      /\ \A j, k \in 1..Len(L) : \A p \in L[j][1]..L[k][1] :
           text[p] # "" => \E q \in 1..Len(L) : L[q][1] = p
  BY DEF Reading
<1>3. i \in 1..Len(L) - m + 1 /\ \A k \in 1..m : L[i + k - 1][2] = needle[k]
  BY DEF At
<1> HIDE DEF m
<1>4. \A k \in 1..m : i + k - 1 \in i..i + m - 1 /\ i + k - 1 \in 1..Len(L)
  BY <1>1, <1>3
<1>5. /\ i \in 1..Len(L) /\ i + m - 1 \in 1..Len(L) /\ i <= i + m - 1
      /\ i \in Int /\ i + m - 1 \in Int
  <2>1. i \in 1..Len(L) - m + 1
    BY <1>3
  <2> QED
    BY <1>1, <2>1
<1>6. \A j, k \in 1..Len(L) : j <= k => L[j][1] <= L[k][1]
  <2> TAKE j, k \in 1..Len(L)
  <2>1. L[j][1] \in 1..Len(text) /\ L[k][1] \in 1..Len(text)
    BY <1>2
  <2>2. j < k => L[j][1] < L[k][1]
    BY <1>2
  <2>3. CASE j = k
    BY <2>1, <2>3
  <2>4. CASE j < k
    BY <2>1, <2>2, <2>4
  <2>5. j <= k => j = k \/ j < k
    BY <1>1
  <2> QED
    BY <2>3, <2>4, <2>5
<1>7. /\ a \in 1..Len(text) /\ b \in 1..Len(text) /\ a <= b
      /\ a = L[i][1] /\ b = L[i + m - 1][1] /\ a \in Int /\ b \in Int
  <2>1. L[i][1] \in 1..Len(text) /\ L[i + m - 1][1] \in 1..Len(text)
    BY <1>2, <1>5
  <2>2. L[i][1] <= L[i + m - 1][1]
    BY <1>5, <1>6
  <2> QED
    BY <2>1, <2>2
<1> HIDE DEF a, b
<1>8. n \in Nat /\ n \in 1..Len(text) /\ n = b - a + 1
  <2>1. a \in 1..Len(text) /\ b \in 1..Len(text) /\ a <= b
    BY <1>7
  <2> QED
    BY <1>1, <2>1
<1> HIDE DEF n
<1>9. /\ S \in Seq(Texts) /\ Len(S) = n
      /\ \A q \in 1..n : S[q] = text[a + q - 1]
  <2>1. \A q \in a..b : q \in 1..Len(text)
    BY <1>1, <1>7
  <2>2. \A q \in a..b : text[q] \in Texts
    BY <2>1, ElementOfSeq
  <2>3. a \in Int /\ b \in Int
    BY <1>7
  <2>4. S \in Seq(Texts)
    BY <2>2, <2>3, SubSeqProperties
  <2>5. Len(S) = n /\ \A q \in 1..n : S[q] = text[a + q - 1]
    <3>1. a <= b
      BY <1>7
    <3> QED
      BY <1>8, <2>2, <2>3, <3>1, SubSeqProperties
  <2> QED
    BY <2>4, <2>5
<1> HIDE DEF S
<1>10. \A q \in 1..n : a + q - 1 \in a..b /\ a + q - 1 \in 1..Len(text)
  <2>1. a \in 1..Len(text) /\ b \in 1..Len(text) /\ a <= b
    BY <1>7
  <2> QED
    BY <1>1, <1>8, <2>1
<1>11. \A q \in 1..n : S[q] \in T0 <=> S[q] # ""
  BY <1>1, <1>9, <1>10 DEF R!Range
<1>12. r \in Seq(Texts) /\ Len(r) \in Nat
  BY <1>9, FilterPicks, LenProperties
<1>13. PICK e : Picks(e, r, S, n, T0)
  BY <1>9, FilterPicks
<1> HIDE DEF r, T0
<1>14. /\ e \in [1..Len(r) -> 1..n]
       /\ \A j, k \in 1..Len(r) : j < k => e[j] < e[k]
       /\ \A k \in 1..Len(r) : r[k] = S[e[k]] /\ r[k] \in T0
       /\ \A q \in 1..n : S[q] \in T0 => \E k \in 1..Len(r) : e[k] = q
  BY <1>13 DEF Picks
<1>15. \A k \in 1..m : d[k] \in 1..n /\ d[k] = L[i + k - 1][1] - a + 1
  <2> TAKE k \in 1..m
  <2>1. i <= i + k - 1 /\ i + k - 1 <= i + m - 1
    BY <1>1, <1>5
  <2>2. i + k - 1 \in 1..Len(L)
    BY <1>4
  <2> DEFINE c == L[i + k - 1][1]
  <2>3. c \in 1..Len(text)
    BY <1>2, <2>2
  <2>4. L[i][1] <= c /\ c <= L[i + m - 1][1]
    BY <1>5, <1>6, <2>1, <2>2
  <2> HIDE DEF c
  <2>5. a <= c /\ c <= b /\ a \in Int /\ b \in Int
    BY <1>7, <2>4
  <2>6. c - a + 1 \in 1..n
    BY <1>8, <2>3, <2>5
  <2> QED
    BY <2>6 DEF c
<1>16. \A j, k \in 1..m : j < k => d[j] < d[k]
  <2> TAKE j, k \in 1..m
  <2> HAVE j < k
  <2>1. i + j - 1 < i + k - 1
    BY <1>5
  <2>2. i + j - 1 \in 1..Len(L) /\ i + k - 1 \in 1..Len(L) /\ a \in Int
    BY <1>4, <1>7
  <2>3. L[i + j - 1][1] < L[i + k - 1][1]
    BY <1>2, <2>1, <2>2
  <2>4. L[i + j - 1][1] \in 1..Len(text) /\ L[i + k - 1][1] \in 1..Len(text)
    BY <1>2, <2>2
  <2>5. L[i + j - 1][1] \in Int /\ L[i + k - 1][1] \in Int
    BY <2>4
  <2>6. d[j] = L[i + j - 1][1] - a + 1 /\ d[k] = L[i + k - 1][1] - a + 1
    BY <1>15
  <2> DEFINE u == L[i + j - 1][1]
             w == L[i + k - 1][1]
  <2>7. u \in Int /\ w \in Int /\ a \in Int /\ u < w
    BY <2>2, <2>3, <2>5
  <2> HIDE DEF u, w
  <2>8. u - a + 1 < w - a + 1
    BY ONLY <2>7
  <2> QED
    BY <2>6, <2>8 DEF u, w
<1>17. d \in [1..m -> 1..n]
  BY <1>15
<1>18. \A k \in 1..m : S[d[k]] = needle[k] /\ needle[k] \in Words
  <2> TAKE k \in 1..m
  <2> DEFINE p == L[i + k - 1][1]
  <2>1. i + k - 1 \in 1..Len(L) /\ a \in Int
    BY <1>4, <1>7
  <2>2. p \in 1..Len(text) /\ text[p] = L[i + k - 1][2]
    BY <1>2, <2>1
  <2>3. d[k] \in 1..n /\ d[k] = p - a + 1
    BY <1>15
  <2> HIDE DEF p, d
  <2>4. a + d[k] - 1 = p
    BY <2>1, <2>2, <2>3
  <2>5. needle[k] \in Words
    BY <1>1, ElementOfSeq DEF m
  <2> QED
    BY <1>3, <1>9, <2>2, <2>3, <2>4, <2>5
<1> HIDE DEF d
<1>19. \A k \in 1..m : \E j \in 1..Len(r) : e[j] = d[k]
  <2> TAKE k \in 1..m
  <2>1. d[k] \in 1..n /\ S[d[k]] # ""
    BY <1>15, <1>18 DEF Words
  <2> QED
    BY <1>11, <1>14, <2>1
<1>20. \A j \in 1..Len(r) : \E k \in 1..m : d[k] = e[j]
  <2> TAKE j \in 1..Len(r)
  <2> DEFINE p == a + e[j] - 1
  <2>1. e[j] \in 1..n /\ S[e[j]] # ""
    BY <1>11, <1>14
  <2>2. p \in a..b /\ p \in 1..Len(text)
    BY <1>10, <2>1
  <2>3. text[p] # ""
    BY <1>9, <2>1
  <2> HIDE DEF p
  <2>4. PICK q \in 1..Len(L) : L[q][1] = p
    <3>1. p \in L[i][1]..L[i + m - 1][1]
      BY <1>7, <2>2
    <3>2. i \in 1..Len(L) /\ i + m - 1 \in 1..Len(L)
      BY <1>5
    <3>3. \A h \in L[i][1]..L[i + m - 1][1] :
            text[h] # "" => \E q \in 1..Len(L) : L[q][1] = h
      BY <1>2, <3>2
    <3> QED
      BY <2>3, <3>1, <3>3
  <2>5. i <= q
    <3> SUFFICES ASSUME q < i
                 PROVE  FALSE
      BY <1>1, <1>5
    <3>1. L[q][1] < L[i][1]
      BY <1>2, <1>5
    <3>2. a \in Int /\ b \in Int
      BY <1>7
    <3>3. a <= p /\ p <= b /\ p \in Int
      BY <2>2, <3>2
    <3> QED
      BY <1>7, <2>4, <3>1, <3>2, <3>3
  <2>6. q <= i + m - 1
    <3> SUFFICES ASSUME i + m - 1 < q
                 PROVE  FALSE
      BY <1>1, <1>5
    <3>1. L[i + m - 1][1] < L[q][1]
      BY <1>2, <1>5
    <3>2. a \in Int /\ b \in Int
      BY <1>7
    <3>3. a <= p /\ p <= b /\ p \in Int
      BY <2>2, <3>2
    <3> QED
      BY <1>7, <2>4, <3>1, <3>2, <3>3
  <2>7. q - i + 1 \in 1..m /\ i + (q - i + 1) - 1 = q
    BY <1>1, <1>5, <2>5, <2>6
  <2>8. d[q - i + 1] = p - a + 1
    BY <1>15, <2>4, <2>7
  <2>9. p - a + 1 = e[j]
    <3>1. a \in Int
      BY <1>7
    <3>2. e[j] \in Int
      <4>1. n \in Int
        BY <1>8
      <4>2. e[j] \in 1..n
        BY <2>1
      <4> QED
        BY <4>1, <4>2
    <3> QED
      BY <3>1, <3>2 DEF p
  <2> QED
    BY <2>7, <2>8, <2>9
<1>21. Rises(e, Len(r), n) /\ Rises(d, m, n)
  BY <1>14, <1>16, <1>17 DEF Rises
<1>22. Within(e, Len(r), d, m) /\ Within(d, m, e, Len(r))
  BY <1>19, <1>20 DEF Within
<1>23. Len(r) = m /\ \A k \in 1..Len(r) : e[k] = d[k]
  BY <1>1, <1>8, <1>12, <1>21, <1>22, SameNumbers
<1>24. \A k \in 1..m : r[k] = needle[k]
  BY <1>14, <1>18, <1>23
<1>25. needle \in Seq(Texts)
  <2>1. \A k \in 1..m : needle[k] \in Texts
    BY <1>18 DEF Words, Texts
  <2>2. needle \in [1..m -> Words]
    BY LenProperties DEF m
  <2>3. needle \in [1..m -> Texts]
    BY <2>1, <2>2
  <2> QED
    BY <1>1, <2>3
<1>26. r = needle
  BY <1>12, <1>23, <1>24, <1>25, SeqEqual DEF m
<1> QED
  BY <1>26 DEF r, S, T0, a, b, m, AnchorAt, R!Reads

\* The lines of a side that are not blank.
LEMMA SolidPicks ==
  ASSUME NEW L, L \in Seq(Int \X Texts)
  PROVE  /\ R!Solid(L) \in Seq(Int \X Texts)
         /\ \E T0 : /\ \A q \in 1..Len(L) : L[q] \in T0 <=> L[q][2] # ""
                    /\ \E e : Picks(e, R!Solid(L), L, Len(L), T0)
<1> DEFINE T0 == {l \in R!Range(L) : l[2] # ""}
<1>1. DOMAIN L = 1..Len(L)
  BY LenProperties
<1>2. \A q \in 1..Len(L) : L[q] \in T0 <=> L[q][2] # ""
  BY <1>1 DEF R!Range
<1>3. R!Solid(L) = R!Filter(L, T0)
  BY DEF R!Solid
<1> HIDE DEF T0
<1> QED
  BY <1>2, <1>3, FilterPicks

\* Without its blank lines a side reads what it read.
LEMMA SolidReads ==
  ASSUME NEW text, NEW L, Reading(L, text)
  PROVE  Reading(R!Solid(L), text)
<1> DEFINE r == R!Solid(L)
<1>1. L \in Seq(Int \X Texts)
  BY DEF Reading
<1>2. /\ \A i, j \in 1..Len(L) : i < j => L[i][1] < L[j][1]
      /\ \A i \in 1..Len(L) : L[i][1] \in 1..Len(text) /\ text[L[i][1]] = L[i][2]
  BY DEF Reading
<1>3. \A i, j \in 1..Len(L) : \A p \in L[i][1]..L[j][1] :
        text[p] # "" => \E k \in 1..Len(L) : L[k][1] = p
  BY DEF Reading
<1>4. r \in Seq(Int \X Texts)
  BY <1>1, SolidPicks
<1>5. PICK T0 : /\ \A q \in 1..Len(L) : L[q] \in T0 <=> L[q][2] # ""
                /\ \E e : Picks(e, r, L, Len(L), T0)
  BY <1>1, SolidPicks
<1>6. PICK e : Picks(e, r, L, Len(L), T0)
  BY <1>5
<1> HIDE DEF r
<1>7. /\ \A k \in 1..Len(r) : e[k] \in 1..Len(L) /\ r[k] = L[e[k]]
      /\ \A j, k \in 1..Len(r) : j < k => e[j] < e[k]
      /\ \A q \in 1..Len(L) : L[q] \in T0 => \E k \in 1..Len(r) : e[k] = q
  BY <1>6 DEF Picks
<1>8. \A i, j \in 1..Len(r) : i < j => r[i][1] < r[j][1]
  <2> TAKE i, j \in 1..Len(r)
  <2> HAVE i < j
  <2>1. e[i] \in 1..Len(L) /\ e[j] \in 1..Len(L) /\ e[i] < e[j]
    BY <1>7
  <2>2. L[e[i]][1] < L[e[j]][1]
    BY <1>2, <2>1
  <2>3. r[i] = L[e[i]] /\ r[j] = L[e[j]]
    BY <1>7
  <2> QED
    BY <2>2, <2>3
<1>9. \A i \in 1..Len(r) : r[i][1] \in 1..Len(text) /\ text[r[i][1]] = r[i][2]
  <2> TAKE i \in 1..Len(r)
  <2>1. e[i] \in 1..Len(L) /\ r[i] = L[e[i]]
    BY <1>7
  <2>2. L[e[i]][1] \in 1..Len(text) /\ text[L[e[i]][1]] = L[e[i]][2]
    BY <1>2, <2>1
  <2> QED
    BY <2>1, <2>2
<1>10. ASSUME NEW i \in 1..Len(r), NEW j \in 1..Len(r), NEW p \in r[i][1]..r[j][1], text[p] # ""
       PROVE  \E k \in 1..Len(r) : r[k][1] = p
  <2>1. e[i] \in 1..Len(L) /\ e[j] \in 1..Len(L) /\ r[i] = L[e[i]] /\ r[j] = L[e[j]]
    BY <1>7
  <2>2. p \in L[e[i]][1]..L[e[j]][1]
    BY <1>10, <2>1
  <2>3. \A h \in L[e[i]][1]..L[e[j]][1] :
          text[h] # "" => \E k \in 1..Len(L) : L[k][1] = h
    BY <1>3, <2>1
  <2>4. PICK q \in 1..Len(L) : L[q][1] = p
    BY <1>10, <2>2, <2>3
  <2>5. L[q][2] # ""
    BY <1>2, <1>10, <2>4
  <2>6. PICK k \in 1..Len(r) : e[k] = q
    BY <1>5, <1>7, <2>5
  <2> QED
    BY <1>7, <2>4, <2>6
<1> QED
  BY <1>4, <1>8, <1>9, <1>10 DEF r, Reading

\* A run of a side that has no blank line is a run of its lines that are not.
LEMMA SolidRuns ==
  ASSUME NEW L, L \in Seq(Int \X Texts), NEW needle, needle \in Seq(Words), needle # <<>>,
         NEW i, At(L, needle, i)
  PROVE  \E c : At(R!Solid(L), needle, c)
<1> DEFINE r == R!Solid(L)
           m == Len(needle)
<1>1. /\ Len(L) \in Nat /\ m \in Nat /\ m # 0 /\ r \in Seq(Int \X Texts) /\ Len(r) \in Nat
      /\ \A k \in 1..m : needle[k] \in Words
  <2>1. m # 0
    BY EmptySeq
  <2>2. r \in Seq(Int \X Texts)
    BY SolidPicks
  <2> QED
    BY <2>1, <2>2, LenProperties, ElementOfSeq
<1>2. PICK T0 : /\ \A q \in 1..Len(L) : L[q] \in T0 <=> L[q][2] # ""
                /\ \E e : Picks(e, r, L, Len(L), T0)
  BY SolidPicks
<1>3. PICK e : Picks(e, r, L, Len(L), T0)
  BY <1>2
<1> HIDE DEF r
<1>4. /\ \A k \in 1..Len(r) : e[k] \in 1..Len(L) /\ r[k] = L[e[k]]
      /\ \A j, k \in 1..Len(r) : j < k => e[j] < e[k]
      /\ \A q \in 1..Len(L) : L[q] \in T0 => \E k \in 1..Len(r) : e[k] = q
  BY <1>3 DEF Picks
<1>5. i \in 1..Len(L) - m + 1 /\ \A k \in 1..m : L[i + k - 1][2] = needle[k]
  BY DEF At
<1> HIDE DEF m
<1>6. i \in 1..Len(L) - m + 1
  BY <1>5
<1>7. \A k \in 1..m : i + k - 1 \in 1..Len(L)
  BY <1>1, <1>6
<1>8. \A k \in 1..m : \E q \in 1..Len(r) : e[q] = i + k - 1
  <2> TAKE k \in 1..m
  <2>1. i + k - 1 \in 1..Len(L)
    BY <1>7
  <2>2. L[i + k - 1][2] # ""
    BY <1>1, <1>5 DEF Words
  <2> QED
    BY <1>2, <1>4, <2>1, <2>2
<1>9. PICK c \in 1..Len(r) : e[c] = i + 1 - 1
  <2>1. 1 \in 1..m
    BY <1>1
  <2> QED
    BY <1>8, <2>1
<1>10. e[c] = i /\ i \in Int /\ c \in Int
  BY <1>1, <1>6, <1>9
<1> DEFINE Good == {k \in 0..m - 1 : c + k \in 1..Len(r) /\ e[c + k] = i + k}
<1>11. 0 \in Good
  BY <1>1, <1>10
<1>12. ASSUME NEW k \in 0..(m - 1) - 1, k \in Good
       PROVE  k + 1 \in Good
  <2>1. c + k \in 1..Len(r) /\ e[c + k] = i + k
    BY <1>12
  <2>2. k \in Nat /\ k + 2 \in 1..m /\ k + 1 \in 0..m - 1 /\ i + (k + 2) - 1 = i + k + 1
    BY <1>1, <1>10
  <2>3. PICK q \in 1..Len(r) : e[q] = i + (k + 2) - 1
    BY <1>8, <2>2
  <2>4. e[q] = i + k + 1 /\ q \in Int
    BY <1>1, <2>2, <2>3
  <2>5. ~(q < c + k)
    <3> SUFFICES ASSUME q < c + k
                 PROVE  FALSE
      OBVIOUS
    <3>1. e[q] < e[c + k]
      BY <1>4, <2>1
    <3> QED
      BY <1>10, <2>1, <2>2, <2>4, <3>1
  <2>6. q # c + k
    <3> SUFFICES ASSUME q = c + k
                 PROVE  FALSE
      OBVIOUS
    <3>1. i + k = i + k + 1
      BY <2>1, <2>4
    <3> QED
      BY <1>10, <2>2, <3>1
  <2>7. c + k + 1 <= q /\ c + k + 1 \in 1..Len(r)
    BY <1>1, <1>10, <2>1, <2>2, <2>4, <2>5, <2>6
  <2>8. e[c + k] < e[c + k + 1]
    <3>1. c + k < c + k + 1
      BY <1>10, <2>2
    <3> QED
      BY <1>4, <2>1, <2>7, <3>1
  <2> DEFINE x == e[c + k + 1]
             y == e[q]
  <2>9. x \in Int /\ y \in Int /\ (c + k + 1 < q => x < y) /\ (c + k + 1 = q => x = y)
    <3>1. x \in 1..Len(L) /\ y \in 1..Len(L)
      BY <1>4, <2>7
    <3>2. c + k + 1 < q => x < y
      BY <1>4, <2>7
    <3>3. x \in Int /\ y \in Int
      BY <1>1, <3>1
    <3> QED
      BY <3>2, <3>3
  <2>10. i + k < x /\ y = i + k + 1
    BY <2>1, <2>4, <2>8
  <2> HIDE DEF x, y
  <2>11. x <= y
    BY <1>10, <2>2, <2>4, <2>7, <2>9
  <2>12. x = i + k + 1
    BY <1>10, <2>2, <2>9, <2>10, <2>11
  <2>13. e[c + k + 1] = i + k + 1
    BY <2>12 DEF x
  <2>14. c + k + 1 = c + (k + 1) /\ i + k + 1 = i + (k + 1)
    BY <1>10, <2>2
  <2> QED
    BY <2>2, <2>7, <2>13, <2>14
<1>13. \A k \in 0..(m - 1) - 1 : k \in Good => k + 1 \in Good
  BY <1>12
<1> HIDE DEF Good
<1>14. m - 1 \in Nat
  BY <1>1
<1>15. \A k \in 0..m - 1 : k \in Good
  BY ONLY <1>11, <1>13, <1>14, Induction
<1>16. \A k \in 1..m : c + k - 1 \in 1..Len(r) /\ e[c + k - 1] = i + k - 1
  <2> TAKE k \in 1..m
  <2>1. k - 1 \in 0..m - 1 /\ c + (k - 1) = c + k - 1 /\ i + (k - 1) = i + k - 1
    BY <1>1, <1>10
  <2>2. k - 1 \in Good
    BY <1>15, <2>1
  <2> QED
    BY <2>1, <2>2 DEF Good
<1>17. \A k \in 1..m : r[c + k - 1][2] = needle[k]
  <2> TAKE k \in 1..m
  <2>1. c + k - 1 \in 1..Len(r) /\ e[c + k - 1] = i + k - 1
    BY <1>16
  <2>2. r[c + k - 1] = L[i + k - 1]
    BY <1>4, <2>1
  <2> QED
    BY <1>5, <2>2
<1>18. c \in 1..Len(r) - m + 1
  <2>1. m \in 1..m
    BY <1>1
  <2>2. c + m - 1 \in 1..Len(r)
    BY <1>16, <2>1
  <2> QED
    BY <1>1, <1>10, <2>2
<1> QED
  BY <1>17, <1>18 DEF At, r, m

\* The file of a case: a line, what a side of the hunk says and a line.
Whole(L, top, bottom) == <<top>> \o [i \in DOMAIN L |-> L[i][2]] \o <<bottom>>

\* A side of the hunk of a case, which begins at the second line, reads its file.
LEMMA SideReads ==
  ASSUME NEW lines \in Seq(R!HunkLine), NEW other, NEW top \in Words, NEW bottom \in Words
  PROVE  /\ Whole(R!Side(lines, 2, other), top, bottom) \in Seq(Texts)
         /\ Reading(R!Side(lines, 2, other), Whole(R!Side(lines, 2, other), top, bottom))
<1> DEFINE L == R!Side(lines, 2, other)
           mid == [i \in DOMAIN L |-> L[i][2]]
           head == <<top>> \o mid
           text == Whole(L, top, bottom)
           n == Len(L)
<1>1. /\ L \in Seq(Int \X Texts) /\ n \in Nat /\ DOMAIN L = 1..n
      /\ \A j \in 1..n : L[j] \in Int \X Texts /\ L[j][1] = 2 + j - 1
  <2>1. L \in Seq(Int \X Texts) /\ \A j \in 1..n : L[j][1] = 2 + j - 1
    BY SideNumbers
  <2> HIDE DEF L
  <2> QED
    BY <2>1, LenProperties, ElementOfSeq
<1> HIDE DEF L
<1>2. mid \in Seq(Texts) /\ Len(mid) = n /\ \A j \in 1..n : mid[j] = L[j][2]
  <2>1. \A j \in 1..n : L[j][2] \in Texts
    BY <1>1
  <2> QED
    BY <1>1, <2>1
<1>3. top \in Texts /\ bottom \in Texts
  BY DEF Words, Texts
<1> HIDE DEF mid, n
<1>4. <<top>> \in Seq(Texts) /\ Len(<<top>>) = 1 /\ <<bottom>> \in Seq(Texts) /\ Len(<<bottom>>) = 1
  BY <1>3
<1>5. head \in Seq(Texts) /\ Len(head) = n + 1 /\ \A j \in 1..n : head[j + 1] = L[j][2]
  <2>1. head \in Seq(Texts) /\ Len(head) = 1 + n
    BY <1>2, <1>4, ConcatProperties
  <2>2. ASSUME NEW j \in 1..n
        PROVE  head[j + 1] = L[j][2]
    <3>1. j + 1 \in 1..1 + n /\ ~(j + 1 <= 1) /\ (j + 1) - 1 = j
      BY <1>1
    <3>2. head[j + 1] = mid[(j + 1) - 1]
      BY <1>2, <1>4, <3>1, ConcatProperties
    <3> QED
      BY <1>2, <3>1, <3>2
  <2> QED
    BY <1>1, <2>1, <2>2
<1>6. text = head \o <<bottom>>
  BY DEF Whole, mid
<1> HIDE DEF head, text
<1>7. text \in Seq(Texts) /\ Len(text) = n + 2 /\ \A j \in 1..n : text[j + 1] = L[j][2]
  <2>1. text \in Seq(Texts) /\ Len(text) = (n + 1) + 1
    BY <1>4, <1>5, <1>6, ConcatProperties
  <2>2. ASSUME NEW j \in 1..n
        PROVE  text[j + 1] = L[j][2]
    <3>1. j + 1 \in 1..(n + 1) + 1 /\ j + 1 <= n + 1
      BY <1>1
    <3>2. text[j + 1] = head[j + 1]
      BY <1>4, <1>5, <1>6, <3>1, ConcatProperties
    <3> QED
      BY <1>5, <3>2
  <2> QED
    BY <1>1, <2>1, <2>2
<1>8. \A j \in 1..n : L[j][1] = j + 1 /\ L[j][1] \in 1..Len(text) /\ text[L[j][1]] = L[j][2]
  <2> TAKE j \in 1..n
  <2>1. L[j][1] = j + 1
    <3>1. j \in Int
      BY <1>1
    <3> QED
      BY <1>1, <3>1
  <2>2. j + 1 \in 1..Len(text)
    BY <1>1, <1>7
  <2> QED
    BY <1>7, <2>1, <2>2
<1>9. \A i, j \in 1..n : i < j => L[i][1] < L[j][1]
  <2> TAKE i, j \in 1..n
  <2>1. L[i][1] = i + 1 /\ L[j][1] = j + 1
    BY <1>8
  <2> QED
    BY <1>1, <2>1
<1>10. ASSUME NEW i \in 1..n, NEW j \in 1..n, NEW p \in L[i][1]..L[j][1]
       PROVE  \E k \in 1..n : L[k][1] = p
  <2>1. L[i][1] = i + 1 /\ L[j][1] = j + 1 /\ i \in Int /\ j \in Int
    BY <1>1, <1>8
  <2>2. p \in i + 1..j + 1
    BY <2>1
  <2>3. p - 1 \in 1..n /\ (p - 1) + 1 = p
    BY <1>1, <2>1, <2>2
  <2> QED
    BY <1>8, <2>3
<1>11. Reading(L, text)
  <2>1. \A j \in 1..n : L[j][1] \in 1..Len(text) /\ text[L[j][1]] = L[j][2]
    BY <1>8
  <2>2. \A i, j \in 1..n : \A p \in L[i][1]..L[j][1] :
          text[p] # "" => \E k \in 1..n : L[k][1] = p
    BY <1>10
  <2> QED
    BY <1>1, <1>9, <2>1, <2>2 DEF Reading, n
<1> QED
  BY <1>7, <1>11 DEF L, text

\* The numbered lines of a file read it.
LEMMA NumberedReads ==
  ASSUME NEW text, text \in Seq(Texts)
  PROVE  Reading(R!Numbered(text), text)
<1> DEFINE L == R!Numbered(text)
           n == Len(text)
<1>1. n \in Nat /\ DOMAIN text = 1..n /\ \A i \in 1..n : text[i] \in Texts
  BY LenProperties, ElementOfSeq
<1>2. L = [i \in 1..n |-> <<i, text[i]>>]
  BY <1>1 DEF R!Numbered
<1> HIDE DEF L, n
<1>3. \A i \in 1..n : L[i] = <<i, text[i]>> /\ <<i, text[i]>> \in Int \X Texts
  BY <1>1, <1>2
<1>4. L \in Seq(Int \X Texts) /\ Len(L) = n
  BY <1>1, <1>2, <1>3
<1>5. \A i \in 1..n : L[i][1] = i /\ L[i][2] = text[i]
  <2> TAKE i \in 1..n
  <2>1. L[i] = <<i, text[i]>>
    BY <1>3
  <2> QED
    BY <2>1
<1>6. \A i \in 1..Len(L) : L[i][1] \in 1..Len(text) /\ text[L[i][1]] = L[i][2]
  BY <1>4, <1>5 DEF n
<1>7. \A i, j \in 1..Len(L) : i < j => L[i][1] < L[j][1]
  BY <1>4, <1>5
<1>8. \A i, j \in 1..Len(L) : \A p \in L[i][1]..L[j][1] :
        text[p] # "" => \E k \in 1..Len(L) : L[k][1] = p
  <2> SUFFICES ASSUME NEW i \in 1..Len(L), NEW j \in 1..Len(L), NEW p \in L[i][1]..L[j][1]
               PROVE  \E k \in 1..Len(L) : L[k][1] = p
    OBVIOUS
  <2>1. i \in 1..n /\ j \in 1..n /\ L[i][1] = i /\ L[j][1] = j
    BY <1>4, <1>5
  <2>2. p \in i..j
    BY <2>1
  <2>3. p \in 1..n
    BY <1>1, <2>1, <2>2
  <2> QED
    BY <1>4, <1>5, <2>3
<1>9. L \in Seq(Int \X Texts)
  BY <1>4
<1>10. Reading(L, text)
  BY ONLY <1>6, <1>7, <1>8, <1>9 DEF Reading
<1> QED
  BY <1>10 DEF L

\* Of three places the first with an anchor counts.
LEMMA FirstOfThree ==
  ASSUME NEW x, NEW y, NEW z
  PROVE  R!FirstOf(<<x>> \o <<y>> \o <<z>>) =
           IF x # R!NoAnchor THEN x ELSE IF y # R!NoAnchor THEN y ELSE z
<1> DEFINE s == <<x, y, z>>
           hits == {i \in DOMAIN s : s[i] # R!NoAnchor}
           i0 == CHOOSE i \in hits : \A j \in hits : i <= j
<1>1. <<x>> \o <<y>> \o <<z>> = s
  <2> DEFINE S == {x, y, z}
             p == <<x>> \o <<y>>
  <2>1. <<x>> \in Seq(S) /\ <<y>> \in Seq(S) /\ <<z>> \in Seq(S) /\ s \in Seq(S)
    OBVIOUS
  <2>2. p \in Seq(S) /\ Len(p) = 2 /\ p[1] = x /\ p[2] = y
    BY <2>1, ConcatProperties
  <2> HIDE DEF p, S
  <2>3. /\ p \o <<z>> \in Seq(S) /\ Len(p \o <<z>>) = 3
        /\ (p \o <<z>>)[1] = x /\ (p \o <<z>>)[2] = y /\ (p \o <<z>>)[3] = z
    <3> DEFINE t == <<z>>
               q == p \o t
    <3>1. t \in Seq(S) /\ Len(t) = 1 /\ t[1] = z
      BY <2>1
    <3> HIDE DEF t
    <3>2. /\ q \in Seq(S) /\ Len(q) = Len(p) + Len(t)
          /\ \A i \in 1..Len(p) + Len(t) :
               q[i] = IF i <= Len(p) THEN p[i] ELSE t[i - Len(p)]
      BY <2>2, <3>1, ConcatProperties
    <3> HIDE DEF q
    <3>3. \A i \in 1..3 : q[i] = IF i <= 2 THEN p[i] ELSE t[i - 2]
      BY <2>2, <3>1, <3>2
    <3>4. 1 \in 1..3 /\ 2 \in 1..3 /\ 3 \in 1..3
      OBVIOUS
    <3>5. q[1] = p[1] /\ q[2] = p[2]
      BY <3>3, <3>4
    <3>6. q[3] = t[1]
      BY <3>3, <3>4
    <3>7. Len(q) = 3
      BY <2>2, <3>1, <3>2
    <3> QED
      BY <2>2, <3>1, <3>2, <3>5, <3>6, <3>7 DEF q, t
  <2>4. Len(s) = 3 /\ s[1] = x /\ s[2] = y /\ s[3] = z
    OBVIOUS
  <2>5. \A i \in 1..3 : i = 1 \/ i = 2 \/ i = 3
    OBVIOUS
  <2>6. \A i \in 1..3 : (p \o <<z>>)[i] = s[i]
    BY <2>3, <2>4, <2>5
  <2> QED
    BY <2>1, <2>3, <2>4, <2>6, SeqEqual DEF p
<1>2. DOMAIN s = {1, 2, 3} /\ s[1] = x /\ s[2] = y /\ s[3] = z
  OBVIOUS
<1>3. R!FirstOf(s) = IF hits = {} THEN R!NoAnchor ELSE s[i0]
  BY DEF R!FirstOf
<1>4. hits # {} => i0 \in hits /\ \A j \in hits : i0 <= j
  <2>1. hits \in SUBSET Nat
    BY <1>2
  <2> HIDE DEF hits
  <2> QED
    BY <2>1, LeastNat
<1> HIDE DEF s, i0
<1>5. \A i : i \in hits <=> (i = 1 /\ x # R!NoAnchor) \/ (i = 2 /\ y # R!NoAnchor) \/ (i = 3 /\ z # R!NoAnchor)
  BY <1>2
<1> HIDE DEF hits
<1>6. CASE x # R!NoAnchor
  <2>1. 1 \in hits
    BY <1>5, <1>6
  <2>2. i0 = 1
    BY <1>4, <1>5, <2>1
  <2> QED
    BY <1>1, <1>2, <1>3, <1>6, <2>1, <2>2
<1>7. CASE x = R!NoAnchor /\ y # R!NoAnchor
  <2>1. 2 \in hits /\ 1 \notin hits
    BY <1>5, <1>7
  <2>2. i0 = 2
    BY <1>4, <1>5, <2>1
  <2> QED
    BY <1>1, <1>2, <1>3, <1>7, <2>1, <2>2
<1>8. CASE x = R!NoAnchor /\ y = R!NoAnchor /\ z # R!NoAnchor
  <2>1. 3 \in hits /\ 1 \notin hits /\ 2 \notin hits
    BY <1>5, <1>8
  <2>2. i0 = 3
    BY <1>4, <1>5, <2>1
  <2> QED
    BY <1>1, <1>2, <1>3, <1>8, <2>1, <2>2
<1>9. CASE x = R!NoAnchor /\ y = R!NoAnchor /\ z = R!NoAnchor
  <2>1. hits = {}
    BY <1>5, <1>9
  <2> QED
    BY <1>1, <1>3, <1>9, <2>1
<1> QED
  BY <1>6, <1>7, <1>8, <1>9

\* An anchor found on a side reads as the needle there.
LEMMA PlaceReads ==
  ASSUME NEW text, text \in Seq(Texts), NEW L, Reading(L, text), NEW needle, needle \in Seq(Words),
         NEW side \in {"RIGHT", "LEFT"}, R!MatchConsecutive(L, needle, side) # R!NoAnchor
  PROVE  /\ R!Reads(text, R!MatchConsecutive(L, needle, side)) = needle
         /\ R!MatchConsecutive(L, needle, side).side = side
         /\ \E j \in 1..Len(L) : R!MatchConsecutive(L, needle, side).first = L[j][1]
<1> DEFINE x == R!MatchConsecutive(L, needle, side)
<1>1. L \in Seq(Int \X Texts)
  BY DEF Reading
<1>2. x.side = side /\ needle # <<>> /\ \E i : At(L, needle, i) /\ x = AnchorAt(L, needle, i, side)
  BY <1>1, MatchFound
<1>3. PICK i : At(L, needle, i) /\ x = AnchorAt(L, needle, i, side)
  BY <1>2
<1> HIDE DEF x
<1>4. R!Reads(text, x) = needle
  BY <1>2, <1>3, MatchReads
<1>5. i \in 1..Len(L)
  <2>1. Len(L) \in Nat /\ Len(needle) \in Nat /\ Len(needle) # 0
    BY <1>1, <1>2, LenProperties, EmptySeq
  <2>2. i \in 1..Len(L) - Len(needle) + 1
    BY <1>3 DEF At
  <2> QED
    BY <2>1, <2>2
<1>6. x.first = L[i][1]
  BY <1>3 DEF AnchorAt
<1> QED
  BY <1>2, <1>4, <1>5, <1>6 DEF x

\* A needle that is found with the blank lines in the run is found without.
LEMMA SolidFinds ==
  ASSUME NEW text, NEW L, Reading(L, text), NEW needle, needle \in Seq(Words),
         NEW side \in {"RIGHT", "LEFT"}, R!MatchConsecutive(L, needle, side) # R!NoAnchor
  PROVE  R!MatchConsecutive(R!Solid(L), needle, side) # R!NoAnchor
<1>1. L \in Seq(Int \X Texts) /\ R!Solid(L) \in Seq(Int \X Texts)
  <2>1. L \in Seq(Int \X Texts)
    BY DEF Reading
  <2> QED
    BY <2>1, SolidPicks
<1>2. needle # <<>> /\ \E i : At(L, needle, i)
  BY <1>1, MatchFound
<1>3. \E c : At(R!Solid(L), needle, c)
  BY <1>1, <1>2, SolidRuns
<1> QED
  BY <1>1, <1>2, <1>3, MatchFound

\* Every case of an anchor reads as its snippet (location.py, relocation.py).
LEMMA AnchorsHold ==
  ASSUME CasesInv
  PROVE  R!AnchorsRead
<1> SUFFICES ASSUME kind = "anchor"
             PROVE  R!AnchorsRead
  BY DEF R!AnchorsRead
<1> DEFINE h == given.hunk
           needle == given.needle
           N0 == R!Side(h.lines, 2, "-")
           O0 == R!Side(h.lines, 2, "+")
           nt == Whole(N0, given.top, given.bottom)
           ot == Whole(O0, given.top, given.bottom)
           nf == R!Numbered(nt)
           x1 == R!MatchConsecutive(N0, needle, "RIGHT")
           y1 == R!MatchConsecutive(O0, needle, "LEFT")
           x2 == R!MatchConsecutive(R!Solid(N0), needle, "RIGHT")
           y2 == R!MatchConsecutive(R!Solid(O0), needle, "LEFT")
           z == R!MatchConsecutive(R!Solid(nf), needle, "RIGHT")
           a == R!Located(<<h>>, nt, needle)
           b == R!Relocated(<<h>>, nt, needle)
<1>1. /\ h.old = 2 /\ h.new = 2 /\ h.lines \in Seq(R!HunkLine)
      /\ given.top \in Words /\ given.bottom \in Words /\ needle \in Seq(Words)
  BY DEF CasesInv, HunkCase
<1>2. R!NewSide(h) = N0 /\ R!OldSide(h) = O0
  BY <1>1 DEF R!NewSide, R!OldSide
<1>3. R!NewText(given) = nt /\ R!OldText(given) = ot
  BY <1>2 DEF R!NewText, R!OldText, Whole
<1>4. \A F : [i \in DOMAIN <<h>> |-> F] = <<F>>
  OBVIOUS
<1>5. DOMAIN <<h>> = {1} /\ <<h>>[1] = h
  OBVIOUS
<1>6. R!InFile(nt, needle) = z
  BY DEF R!InFile
<1>7. a = IF x1 # R!NoAnchor THEN x1 ELSE IF y1 # R!NoAnchor THEN y1 ELSE z
  <2>1. [i \in DOMAIN <<h>> |-> R!MatchConsecutive(R!NewSide(<<h>>[i]), needle, "RIGHT")] = <<x1>>
    BY <1>2, <1>5
  <2>2. [i \in DOMAIN <<h>> |-> R!MatchConsecutive(R!OldSide(<<h>>[i]), needle, "LEFT")] = <<y1>>
    BY <1>2, <1>5
  <2>3. a = R!FirstOf(<<x1>> \o <<y1>> \o <<z>>)
    BY <1>6, <2>1, <2>2 DEF R!Located
  <2> HIDE DEF x1, y1, z, a
  <2> QED
    BY <2>3, FirstOfThree
<1>8. b = IF x2 # R!NoAnchor THEN x2 ELSE IF y2 # R!NoAnchor THEN y2 ELSE z
  <2>1. [i \in DOMAIN <<h>> |-> R!MatchConsecutive(R!Solid(R!NewSide(<<h>>[i])), needle, "RIGHT")] = <<x2>>
    BY <1>2, <1>5
  <2>2. [i \in DOMAIN <<h>> |-> R!MatchConsecutive(R!Solid(R!OldSide(<<h>>[i])), needle, "LEFT")] = <<y2>>
    BY <1>2, <1>5
  <2>3. b = R!FirstOf(<<x2>> \o <<y2>> \o <<z>>)
    BY <1>6, <2>1, <2>2 DEF R!Relocated
  <2> HIDE DEF x2, y2, z, b
  <2> QED
    BY <2>3, FirstOfThree
<1>9. /\ nt \in Seq(Texts) /\ Reading(N0, nt) /\ Reading(R!Solid(N0), nt)
      /\ ot \in Seq(Texts) /\ Reading(O0, ot) /\ Reading(R!Solid(O0), ot)
      /\ Reading(R!Solid(nf), nt)
  <2>1. nt \in Seq(Texts) /\ Reading(N0, nt) /\ ot \in Seq(Texts) /\ Reading(O0, ot)
    BY <1>1, SideReads
  <2> HIDE DEF nt, ot, N0, O0
  <2>2. Reading(nf, nt)
    BY <2>1, NumberedReads
  <2> HIDE DEF nf
  <2> QED
    BY <2>1, <2>2, SolidReads
<1>10. R!CommentableLines(<<h>>, "LEFT") = {l[1] : l \in R!Range(O0)}
  BY <1>2, <1>5 DEF R!CommentableLines
<1> HIDE DEF N0, O0, nt, ot, nf, h, needle
<1>11. \A q \in {x1, x2, z} \ {R!NoAnchor} : R!Reads(nt, q) = needle /\ q.side = "RIGHT"
  BY <1>1, <1>9, PlaceReads
<1>12. \A q \in {y1, y2} \ {R!NoAnchor} : R!Reads(ot, q) = needle /\ q.side = "LEFT"
  BY <1>1, <1>9, PlaceReads
<1>13. /\ y1 # R!NoAnchor => y1.first \in R!CommentableLines(<<h>>, "LEFT")
       /\ y2 # R!NoAnchor => y2.first \in R!CommentableLines(<<h>>, "LEFT")
  <2>1. O0 \in Seq(Int \X Texts)
    BY <1>9 DEF Reading
  <2>2. \A j \in 1..Len(O0) : O0[j][1] \in R!CommentableLines(<<h>>, "LEFT")
    <3>1. DOMAIN O0 = 1..Len(O0)
      BY <2>1, LenProperties
    <3> QED
      BY <1>10, <3>1 DEF R!Range
  <2>3. y1 # R!NoAnchor => \E j \in 1..Len(O0) : y1.first = O0[j][1]
    BY <1>1, <1>9, PlaceReads
  <2>4. y2 # R!NoAnchor => \E j \in 1..Len(R!Solid(O0)) : y2.first = R!Solid(O0)[j][1]
    BY <1>1, <1>9, PlaceReads
  <2>5. \A j \in 1..Len(R!Solid(O0)) : \E k \in 1..Len(O0) : R!Solid(O0)[j] = O0[k]
    <3>1. PICK T0 : \E e : Picks(e, R!Solid(O0), O0, Len(O0), T0)
      BY <2>1, SolidPicks
    <3> QED
      BY <3>1 DEF Picks
  <2> HIDE DEF y1, y2
  <2> QED
    BY <2>2, <2>3, <2>4, <2>5
<1>14. x1 # R!NoAnchor => x2 # R!NoAnchor
  BY <1>1, <1>9, SolidFinds
<1>15. y1 # R!NoAnchor => y2 # R!NoAnchor
  BY <1>1, <1>9, SolidFinds
<1> HIDE DEF x1, x2, y1, y2, z, a, b
<1>16. \A x \in {a, b} \ {R!NoAnchor} :
         /\ R!Reads(IF x.side = "RIGHT" THEN nt ELSE ot, x) = needle
         /\ x.side = "LEFT" => x.first \in R!CommentableLines(<<h>>, "LEFT")
  <2>1. ASSUME NEW x \in {a, b} \ {R!NoAnchor}
        PROVE  x \in {x1, x2, z} \ {R!NoAnchor} \/ x \in {y1, y2} \ {R!NoAnchor}
    BY <1>7, <1>8
  <2>2. \A x \in {x1, x2, z} \ {R!NoAnchor} :
          /\ R!Reads(IF x.side = "RIGHT" THEN nt ELSE ot, x) = needle
          /\ x.side = "LEFT" => x.first \in R!CommentableLines(<<h>>, "LEFT")
    BY <1>11
  <2>3. \A x \in {y1, y2} \ {R!NoAnchor} :
          /\ R!Reads(IF x.side = "RIGHT" THEN nt ELSE ot, x) = needle
          /\ x.side = "LEFT" => x.first \in R!CommentableLines(<<h>>, "LEFT")
    BY <1>12, <1>13
  <2> QED
    BY <2>1, <2>2, <2>3
<1>17. a # R!NoAnchor => b # R!NoAnchor
  BY <1>7, <1>8, <1>14, <1>15
<1>18. a = R!NoAnchor => z = R!NoAnchor
  BY <1>7
<1> QED
  BY <1>3, <1>6, <1>16, <1>17, <1>18 DEF R!AnchorsRead, a, b, h, needle

\* Where an anchor is, the lines are those of the snippet: nothing that the
\* location or the relocation gives points at code that reads otherwise, and
\* a snippet without one is not in the file (location.py, relocation.py).
THEOREM AnchorsAlwaysRead == Spec => []AnchorsRead
<1>1. CasesInv => AnchorsRead
  BY AnchorsHold DEF AnchorsRead
<1> QED
  BY <1>1, CasesTyped, PTL
=============================================================================
