---------------------------- MODULE SearchProofs ----------------------------
(***************************************************************************)
(* Proofs about KnowledgeGaps and Retrieval.  Their operators are folds    *)
(* over sequences; an induction over one is made over the set of the       *)
(* positions at which a statement holds (Induct), since a statement cannot *)
(* be a parameter.                                                         *)
(***************************************************************************)
EXTENDS KnowledgeGaps, Retrieval, WellFoundedInduction, FiniteSetTheorems, SequenceTheorems, TLAPS

-----------------------------------------------------------------------------
(* Positions.                                                               *)

\* A set of numbers has a least one.
LEMMA NatMin ==
    ASSUME NEW S \in SUBSET Nat, S # {}
    PROVE  \E x \in S : \A y \in S : x <= y
<1> DEFINE R == OpToRel(<, Nat)
<1>1. IsWellFoundedOn(R, Nat)
  BY NatLessThanWellFounded
<1>2. \A x, y \in Nat : y < x => <<y, x>> \in R
  BY DEF OpToRel
<1> HIDE DEF R
<1>3. PICK x \in S : \A y \in S : ~ (<<y, x>> \in R)
  BY <1>1, WFMin
<1>4. x \in Nat /\ \A y \in S : y \in Nat
  OBVIOUS
<1>5. \A y \in S : ~(y < x)
  BY <1>2, <1>3, <1>4
<1> QED
  BY <1>4, <1>5

\* Induction up to n over a set of positions, by the least one that is not in it.
LEMMA Induct ==
    ASSUME NEW n \in Nat, NEW P, 0 \in P, \A i \in 1..n : i - 1 \in P => i \in P
    PROVE  n \in P /\ \A i \in 0..n : i \in P
<1> SUFFICES ASSUME NEW j \in 0..n, j \notin P PROVE FALSE
  OBVIOUS
<1> DEFINE B == {i \in 0..n : i \notin P}
<1>1. B \in SUBSET Nat /\ B # {}
  OBVIOUS
<1> HIDE DEF B
<1>2. PICK i \in B : \A k \in B : i <= k
  BY <1>1, NatMin
<1>3. i \in 1..n /\ i - 1 \in 0..n /\ i - 1 \notin B
  BY <1>2 DEF B
<1> QED
  BY <1>3 DEF B

\* Max of the community modules is the last position.
LEMMA MaxIsLast ==
    ASSUME NEW n \in Nat, NEW t \in SUBSET (1..n), t # {}
    PROVE  Max(t) \in t /\ \A x \in t : x <= Max(t)
<1> DEFINE B == {x \in Nat : \A y \in t : y <= x}
<1>1. B \in SUBSET Nat /\ n \in B
  OBVIOUS
<1> HIDE DEF B
<1>2. PICK b \in B : \A c \in B : b <= c
  BY <1>1, NatMin
<1>3. b \in Nat /\ \A y \in t : y \in Nat /\ y >= 1 /\ y <= b
  BY <1>2 DEF B
<1>4. b \in t
  <2> SUFFICES ASSUME b \notin t PROVE FALSE
    OBVIOUS
  <2>1. \A y \in t : y <= b - 1
    BY <1>3
  <2>2. b - 1 \in Nat
    <3>1. PICK y \in t : TRUE
      OBVIOUS
    <3>2. b >= 1
      BY <1>3
    <3> QED
      BY <1>3, <3>2
  <2>3. b - 1 \in B
    BY <2>1, <2>2 DEF B
  <2> QED
    BY <1>2, <1>3, <2>3
<1>5. \E x \in t : \A y \in t : x >= y
  BY <1>3, <1>4
<1>6. Max(t) \in t /\ \A y \in t : Max(t) >= y
  BY <1>5 DEF Max
<1> QED
  BY <1>3, <1>6

\* There are no positions up to 0.
LEMMA NoneBefore == \A t \in SUBSET (1..0) : t = {}
<1>1. \A x \in 1..0 : FALSE
  OBVIOUS
<1> QED
  BY <1>1

\* Where positions lie.
LEMMA Between ==
    ASSUME NEW n \in Nat
    PROVE  /\ 0 \in 0..n /\ n \in 0..n
           /\ \A i \in 1..n : i \in 0..n /\ i - 1 \in 0..n /\ i \in Nat /\ i # 0
           /\ \A i \in 0..n : 1..i \in SUBSET (1..n)
OBVIOUS

\* The sets of positions up to i, without and with the last one.
LEMMA Subsets ==
    ASSUME NEW i \in Nat, i # 0, NEW t \in SUBSET (1..i)
    PROVE  /\ t \ {i} \in SUBSET (1..(i - 1))
           /\ i \notin t => t \in SUBSET (1..(i - 1))
           /\ i \in t => Max(t) = i
           /\ t # {} => t \ {Max(t)} \in SUBSET (1..(i - 1))
<1>1. ASSUME t # {}
      PROVE  Max(t) \in t /\ \A x \in t : x <= Max(t)
  BY <1>1, MaxIsLast
<1>2. \A x \in t : x \in 1..i
  OBVIOUS
<1>3. t \ {i} \in SUBSET (1..(i - 1)) /\ (i \notin t => t \in SUBSET (1..(i - 1)))
  BY <1>2
<1>4. ASSUME i \in t PROVE Max(t) = i
  <2>1. Max(t) \in 1..i /\ i <= Max(t)
    BY <1>1, <1>2, <1>4
  <2>2. \A m \in 1..i : i <= m => m = i
    OBVIOUS
  <2> QED
    BY <2>1, <2>2
<1>5. ASSUME t # {} PROVE t \ {Max(t)} \in SUBSET (1..(i - 1))
  <2>1. Max(t) \in 1..i /\ \A x \in t : x \in 1..i /\ x <= Max(t)
    BY <1>1, <1>2, <1>5
  <2>2. \A x \in t \ {Max(t)} : x \in 1..(i - 1)
    BY <2>1
  <2> QED
    BY <2>2
<1> QED
  BY <1>3, <1>4, <1>5

\* The positions up to i, and up to the one before.
LEMMA Prefix ==
    ASSUME NEW n \in Nat, NEW i \in 1..n
    PROVE  1..i \in SUBSET (1..n) /\ 1..i # {} /\ Max(1..i) = i /\ (1..i) \ {Max(1..i)} = 1..(i - 1)
<1>1. i \in Nat /\ i # 0 /\ i \in 1..i /\ 1..i \in SUBSET (1..i)
  OBVIOUS
<1>2. Max(1..i) = i
  BY <1>1, Subsets
<1>3. (1..i) \ {i} = 1..(i - 1)
  OBVIOUS
<1> QED
  BY <1>1, <1>2, <1>3

-----------------------------------------------------------------------------
(* Folds.                                                                   *)

\* F steps from position to position within U.
Closed(n, U, b, F) == b \in U /\ \A i \in 1..n : \A a \in U : F[i][a] \in U

\* g folds F over the positions from 1 to n, for every set of them.
Folds(g, n, U, b, F) ==
    /\ g \in [SUBSET (1..n) -> U]
    /\ \A t \in SUBSET (1..n) : g[t] = IF t = {} THEN b ELSE F[Max(t)][g[t \ {Max(t)}]]

\* A fold over i - 1 positions goes on to the next.
LEMMA FoldGrows ==
    ASSUME NEW i \in Nat, i # 0, NEW U, NEW b, NEW F, \A a \in U : F[i][a] \in U,
           NEW g, Folds(g, i - 1, U, b, F)
    PROVE  \E h : Folds(h, i, U, b, F)
<1> DEFINE h == [t \in SUBSET (1..i) |-> IF i \in t THEN F[i][g[t \ {i}]] ELSE g[t]]
<1>1. ASSUME NEW t \in SUBSET (1..i)
      PROVE  t \ {i} \in SUBSET (1..(i - 1)) /\ (i \notin t => t \in SUBSET (1..(i - 1)))
  BY Subsets
<1>2. \A t \in SUBSET (1..(i - 1)) :
         g[t] \in U /\ g[t] = IF t = {} THEN b ELSE F[Max(t)][g[t \ {Max(t)}]]
  BY DEF Folds
<1>3. \A t \in SUBSET (1..i) : h[t] = IF i \in t THEN F[i][g[t \ {i}]] ELSE g[t]
  OBVIOUS
<1>4. h \in [SUBSET (1..i) -> U]
  BY <1>1, <1>2
<1> HIDE DEF h
<1>5. ASSUME NEW t \in SUBSET (1..i)
      PROVE  h[t] = IF t = {} THEN b ELSE F[Max(t)][h[t \ {Max(t)}]]
  <2>1. CASE t = {}
    BY <1>1, <1>2, <1>3, <2>1
  <2>2. CASE i \in t
    <3>2. Max(t) = i
      BY <2>2, Subsets
    <3>3. h[t \ {i}] = g[t \ {i}] /\ h[t] = F[i][g[t \ {i}]]
      BY <1>3, <2>2
    <3>4. t # {} /\ F[Max(t)][h[t \ {Max(t)}]] = F[i][g[t \ {i}]]
      BY Zenon, <2>2, <3>2, <3>3
    <3> QED
      BY Zenon, <3>3, <3>4
  <2>3. CASE t # {} /\ i \notin t
    <3>1. t \in SUBSET (1..(i - 1)) /\ t \ {Max(t)} \in SUBSET (1..i) /\ i \notin t \ {Max(t)}
      BY <1>1, <2>3
    <3>2. h[t \ {Max(t)}] = g[t \ {Max(t)}] /\ h[t] = g[t]
      BY <1>3, <2>3, <3>1
    <3>3. g[t] = F[Max(t)][g[t \ {Max(t)}]]
      BY <1>2, <2>3, <3>1
    <3> QED
      BY Zenon, <2>3, <3>2, <3>3
  <2> QED
    BY <2>1, <2>2, <2>3
<1>6. Folds(h, i, U, b, F)
  BY <1>4, <1>5 DEF Folds
<1> QED
  BY <1>6

\* So there is a fold over any number of positions.
LEMMA FoldExists ==
    ASSUME NEW n \in Nat, NEW U, NEW b, NEW F, Closed(n, U, b, F)
    PROVE  \E g : Folds(g, n, U, b, F)
<1> DEFINE P == {m \in 0..n : \E g : Folds(g, m, U, b, F)}
<1>1. 0 \in P
  <2> DEFINE h == [t \in SUBSET (1..0) |-> b]
  <2>1. \A t \in SUBSET (1..0) : t = {} /\ h[t] = b
    BY NoneBefore
  <2>2. h \in [SUBSET (1..0) -> U]
    BY DEF Closed
  <2> HIDE DEF h
  <2>3. Folds(h, 0, U, b, F)
    BY <2>1, <2>2 DEF Folds
  <2> QED
    BY <2>3, Between
<1>2. ASSUME NEW i \in 1..n, i - 1 \in P
      PROVE  i \in P
  <2>0. i \in 0..n /\ i \in Nat /\ i # 0
    BY Between
  <2>1. PICK g : Folds(g, i - 1, U, b, F)
    BY <1>2
  <2>2. \E h : Folds(h, i, U, b, F)
    BY <2>0, <2>1, FoldGrows DEF Closed
  <2> QED
    BY <2>0, <2>2
<1> HIDE DEF P
<1>3. n \in P
  BY <1>1, <1>2, Induct
<1> QED
  BY <1>3 DEF P

\* f is the fold of every prefix.
Follows(f, n, U, b, F) ==
    f \in [0..n -> U] /\ f[0] = b /\ \A i \in 1..n : f[i] = F[i][f[i - 1]]

\* h goes on from prefix to prefix as F does, where it is in U.
Obeys(h, n, U, b, F) ==
    h[{}] = b /\ \A i \in 1..n : h[1..(i - 1)] \in U => h[1..i] = F[i][h[1..(i - 1)]]

\* A function that goes on from prefix to prefix as F does.
LEMMA FoldPrefixes ==
    ASSUME NEW n \in Nat, NEW U, NEW b, NEW F, Closed(n, U, b, F), NEW h, Obeys(h, n, U, b, F)
    PROVE  \E f : Follows(f, n, U, b, F) /\ f[n] = h[1..n]
<1> DEFINE f == [i \in 0..n |-> h[1..i]]
           P == {i \in 0..n : h[1..i] \in U}
<1>1. 0 \in 0..n /\ n \in 0..n /\ (\A i \in 1..n : i \in 0..n /\ i - 1 \in 0..n)
  BY Between
<1>2. 1..0 = {}
  BY NoneBefore
<1>3. 0 \in P /\ \A i \in 1..n : i - 1 \in P => i \in P
  BY <1>1, <1>2 DEF Closed, Obeys
<1>4. \A i \in 0..n : f[i] = h[1..i]
  OBVIOUS
<1> HIDE DEF P
<1>5. \A i \in 0..n : i \in P
  BY <1>3, Induct
<1>6. \A i \in 0..n : h[1..i] \in U
  BY <1>5 DEF P
<1>7. f \in [0..n -> U]
  BY <1>6
<1> HIDE DEF f
<1>8. f[0] = b /\ f[n] = h[1..n] /\ \A i \in 1..n : f[i] = F[i][f[i - 1]]
  BY <1>1, <1>2, <1>4, <1>6 DEF Obeys
<1> QED
  BY <1>7, <1>8 DEF Follows

-----------------------------------------------------------------------------
(* The types of what the folds compute.                                     *)

\* What remains of the questions is a sequence of questions.  This and the other
\* folds below go the same way: the function that FoldLeft chooses exists by
\* FoldExists, and goes on from prefix to prefix by FoldPrefixes.
LEMMA LowOnlyType ==
    ASSUME NEW s \in Seq(Question)
    PROVE  FoldLeft(LowOnly, <<>>, s) \in Seq(Question)
<1> DEFINE n == Len(s)
           U == Seq(Question)
           F == [i \in 1..n |-> [a \in U |-> LowOnly(a, s[i])]]
           Iter(h) == h = [t \in SUBSET (DOMAIN s) |->
                              IF t = {} THEN <<>> ELSE LowOnly(h[t \ {Max(t)}], s[Max(t)])]
           h == CHOOSE h : Iter(h)
<1>1. n \in Nat /\ DOMAIN s = 1..n
  OBVIOUS
<1>2. \A i \in 1..n : \A a \in U : F[i][a] = LowOnly(a, s[i])
  OBVIOUS
<1>3. <<>> \in U /\ \A i \in 1..n : \A a \in U : LowOnly(a, s[i]) \in U
  BY DEF LowOnly
<1> HIDE DEF F, n, U
<1>4. Closed(n, U, <<>>, F)
  BY <1>2, <1>3 DEF Closed
<1>5. PICK g : Folds(g, n, U, <<>>, F)
  BY <1>1, <1>4, FoldExists
<1>6. Iter(g)
  <2>1. ASSUME NEW t \in SUBSET (1..n), t # {}
        PROVE  g[t] = LowOnly(g[t \ {Max(t)}], s[Max(t)])
    <3>1. Max(t) \in 1..n /\ g[t \ {Max(t)}] \in U
      BY <1>1, <1>5, <2>1, MaxIsLast DEF Folds
    <3> QED
      BY <1>2, <1>5, <2>1, <3>1 DEF Folds
  <2> QED
    BY <1>1, <1>5, <2>1 DEF Folds
<1>7. Iter(h)
  BY <1>6
<1>8. FoldLeft(LowOnly, <<>>, s) = h[1..n]
  BY <1>1 DEF FoldLeft, MapThenFoldSet
<1> HIDE DEF h
<1>9. ASSUME NEW i \in 1..n
      PROVE  h[1..i] = LowOnly(h[1..(i - 1)], s[i])
  <2>1. /\ 1..i \in SUBSET (DOMAIN s) /\ 1..i # {}
        /\ Max(1..i) = i /\ (1..i) \ {Max(1..i)} = 1..(i - 1)
    BY <1>1, Prefix
  <2> QED
    BY <1>7, <2>1
<1>10. h[{}] = <<>>
  BY <1>7
<1> HIDE DEF Iter
<1>11. Obeys(h, n, U, <<>>, F)
  BY <1>2, <1>9, <1>10 DEF Obeys
<1>12. \E f : Follows(f, n, U, <<>>, F) /\ f[n] = h[1..n]
  BY <1>1, <1>4, <1>11, FoldPrefixes
<1> QED
  BY <1>1, <1>8, <1>12, Between DEF U, Follows
-----------------------------------------------------------------------------
(* Distances are fractions, and fractions are ordered.                      *)

Fraction == [num : Nat, den : Nat \ {0}]

\* Products of integers, and of positive ones.
LEMMA Products ==
    ASSUME NEW a \in Int, NEW b \in Int
    PROVE  a * b \in Int
BY SMT

LEMMA Positive ==
    ASSUME NEW a \in Nat \ {0}, NEW b \in Nat \ {0}
    PROVE  a * b \in Nat \ {0}
BY SMT

\* Distances are fractions.
LEMMA DistanceType ==
    ASSUME NEW a \in Report, NEW b \in Report
    PROVE  Distance(a, b) \in Fraction
<1> DEFINE d == a.sum * b.count - b.sum * a.count
<1>1. a.sum \in Int /\ b.sum \in Int /\ a.count \in Nat \ {0} /\ b.count \in Nat \ {0}
  BY DEF Report
<1>2. d \in Int
  <2>1. a.sum * b.count \in Int /\ b.sum * a.count \in Int
    BY <1>1, Products
  <2> QED
    BY <2>1
<1>3. a.count * b.count \in Nat \ {0}
  BY <1>1, Positive
<1>4. Distance(a, b) = [num |-> IF d < 0 THEN -d ELSE d, den |-> a.count * b.count]
  BY DEF Distance
<1> HIDE DEF d
<1>5. (IF d < 0 THEN -d ELSE d) \in Nat
  BY <1>2
<1> QED
  BY <1>3, <1>4, <1>5 DEF Fraction

\* A report is at no distance from itself.
LEMMA DistanceToItself ==
    ASSUME NEW a \in Report
    PROVE  Within(Distance(a, a), MergeRadius)
<1>1. a.sum \in Int /\ a.count \in Nat \ {0}
  BY DEF Report
<1>2. a.sum * a.count - a.sum * a.count = 0
  <2>1. a.sum * a.count \in Int
    BY <1>1, Products
  <2> QED
    BY <2>1
<1>3. Distance(a, a).num = 0 /\ Distance(a, a).den = a.count * a.count
  BY <1>2 DEF Distance
<1>4. MergeRadius * (a.count * a.count) >= 0
  <2>1. a.count * a.count \in Nat /\ MergeRadius \in Nat
    BY <1>1, Positive, GapsAssumption
  <2> HIDE DEF Report
  <2>2. \A x, y \in Nat : x * y >= 0
    BY SMT
  <2> QED
    BY <2>1, <2>2
<1> QED
  BY <1>3, <1>4 DEF Within

\* Fractions are compared transitively.
LEMMA CrossProducts ==
    ASSUME NEW a \in Nat, NEW b \in Nat, NEW c \in Nat, NEW d \in Nat \ {0}, NEW e \in Nat, NEW f \in Nat,
           a * d <= c * b, c * f <= e * d
    PROVE  a * f <= e * b
<1>1. (a * d) * f <= (c * b) * f /\ (c * f) * b <= (e * d) * b
  BY SMT
<1>2. (a * d) * f = (a * f) * d /\ (c * b) * f = (c * f) * b /\ (e * d) * b = (e * b) * d
  BY SMT
<1>3. (a * f) * d <= (e * b) * d
  <2>1. (a * f) * d \in Int /\ (c * f) * b \in Int /\ (e * b) * d \in Int
    BY SMT
  <2> QED
    BY <1>1, <1>2, <2>1
<1>4. \A x, y \in Nat : x * d <= y * d => x <= y
  BY SMT
<1>5. a * f \in Nat /\ e * b \in Nat
  BY SMT
<1> QED
  BY <1>3, <1>4, <1>5

\* Closer is a strict weak order.
LEMMA CloserOrder ==
    ASSUME NEW p \in Fraction, NEW q \in Fraction, NEW r \in Fraction
    PROVE  /\ ~Closer(p, p)
           /\ Closer(p, q) => ~Closer(q, p)
           /\ ~Closer(q, p) /\ ~Closer(r, q) => ~Closer(r, p)
           /\ Closer(p, q) /\ ~Closer(r, q) => Closer(p, r)
<1>1. /\ p.num \in Nat /\ q.num \in Nat /\ r.num \in Nat
      /\ p.den \in Nat \ {0} /\ q.den \in Nat \ {0} /\ r.den \in Nat \ {0}
  BY DEF Fraction
<1>2. \A x, y \in Fraction : x.num * y.den \in Int
  BY Products DEF Fraction
<1>3. \A x, y \in Fraction : ~Closer(y, x) <=> x.num * y.den <= y.num * x.den
  BY <1>2 DEF Closer
<1>4. ~Closer(q, p) /\ ~Closer(r, q) => ~Closer(r, p)
  <2> SUFFICES ASSUME p.num * q.den <= q.num * p.den, q.num * r.den <= r.num * q.den
               PROVE  p.num * r.den <= r.num * p.den
    BY <1>3
  <2> QED
    BY <1>1, CrossProducts
<1>5. Closer(p, q) => ~Closer(q, p)
  BY <1>2 DEF Closer
<1>6. ~Closer(p, p)
  BY <1>2 DEF Closer
<1>7. Closer(p, q) /\ ~Closer(r, q) => Closer(p, r)
  <2> SUFFICES ASSUME ~Closer(r, q), ~Closer(p, r) PROVE ~Closer(p, q)
    OBVIOUS
  <2> SUFFICES q.num * p.den <= p.num * q.den
    BY <1>3
  <2>1. q.num * r.den <= r.num * q.den /\ r.num * p.den <= p.num * r.den
    BY <1>3
  <2> QED
    BY <1>1, <2>1, CrossProducts
<1> QED
  BY <1>4, <1>5, <1>6, <1>7

\* What is not farther than something within the radius is within it.
LEMMA WithinOrder ==
    ASSUME NEW p \in Fraction, NEW q \in Fraction, Within(q, MergeRadius), ~Closer(q, p)
    PROVE  Within(p, MergeRadius)
<1>1. p.num \in Nat /\ q.num \in Nat /\ p.den \in Nat \ {0} /\ q.den \in Nat \ {0} /\ MergeRadius \in Nat
  BY GapsAssumption DEF Fraction
<1>2. p.num * q.den \in Int /\ q.num * p.den \in Int
  BY <1>1, Products
<1>3. p.num * q.den <= q.num * p.den
  BY <1>2 DEF Closer
<1>4. q.num * 1 <= MergeRadius * q.den
  BY <1>1 DEF Within
<1>5. p.num * 1 <= MergeRadius * p.den
  BY <1>1, <1>3, <1>4, CrossProducts
<1> QED
  BY <1>1, <1>5 DEF Within

\* Of the centroids of a sequence, one comes first among the closest.
LEMMA ClosestExists ==
    ASSUME NEW c \in Report, NEW s \in Seq(Report), s # <<>>
    PROVE  /\ Closest(c, s) \in DOMAIN s
           /\ \A l \in DOMAIN s : ~Closer(Distance(c, s[l]), Distance(c, s[Closest(c, s)]))
<1> DEFINE n == Len(s)
           d == [k \in 1..n |-> Distance(c, s[k])]
           First(m, k) == \A l \in 1..m : ~Closer(d[l], d[k]) /\ (l < k => Closer(d[k], d[l]))
           P == {m \in 0..n : m = 0 \/ \E k \in 1..m : First(m, k)}
<1>1. n \in Nat /\ DOMAIN s = 1..n /\ n # 0
  OBVIOUS
<1>2. \A k \in 1..n : d[k] = Distance(c, s[k]) /\ d[k] \in Fraction
  BY DistanceType
<1> HIDE DEF d, n
<1>3. 0 \in P
  BY <1>1, Between
<1>4. ASSUME NEW i \in 1..n, i - 1 \in P
      PROVE  i \in P
  <2>1. i \in Nat /\ i # 0 /\ i \in 0..n
    BY <1>1, Between
  <2>2. \A l \in 1..i : l \in 1..n /\ (l = i \/ l \in 1..(i - 1))
    BY <1>1
  <2>3. CASE i = 1
    <3>1. First(1, 1)
      BY <1>2, <2>2, <2>3, CloserOrder
    <3> QED
      BY <2>1, <2>3, <3>1
  <2>4. CASE i # 1
    <3>1. PICK k \in 1..(i - 1) : First(i - 1, k)
      BY <1>4, <2>1, <2>4
    <3>2. k \in 1..i /\ i \in 1..i /\ k < i
      BY <2>1
    <3>3. CASE Closer(d[i], d[k])
      <4>1. ASSUME NEW l \in 1..i
            PROVE  ~Closer(d[l], d[i]) /\ (l < i => Closer(d[i], d[l]))
        <5>1. CASE l = i
          BY <1>2, <2>2, <3>2, <5>1, CloserOrder
        <5>2. CASE l \in 1..(i - 1)
          BY <1>2, <2>2, <3>1, <3>2, <3>3, <5>2, CloserOrder
        <5> QED
          BY <2>2, <5>1, <5>2
      <4> QED
        BY <2>1, <3>2, <4>1
    <3>4. CASE ~Closer(d[i], d[k])
      <4>1. First(i, k)
        BY <2>2, <3>1, <3>2, <3>4
      <4> QED
        BY <2>1, <3>2, <4>1
    <3> QED
      BY <3>3, <3>4
  <2> QED
    BY <2>3, <2>4
<1> HIDE DEF P
<1>5. n \in P
  BY <1>1, <1>3, <1>4, Induct
<1>6. \E k \in DOMAIN s : \A l \in DOMAIN s :
         ~Closer(Distance(c, s[l]), Distance(c, s[k])) /\ (l < k => Closer(Distance(c, s[k]), Distance(c, s[l])))
  BY <1>1, <1>2, <1>5 DEF P
<1> QED
  BY <1>6 DEF Closest

-----------------------------------------------------------------------------
(* What one step of each fold does.                                         *)

\* A sequence stays one when an element, or none, is replaced.
LEMMA ExceptType ==
    ASSUME NEW S, NEW s \in Seq(S), NEW k, NEW x, k \in DOMAIN s => x \in S
    PROVE  [s EXCEPT ![k] = x] \in Seq(S)
<1>1. s \in [1..Len(s) -> S] /\ Len(s) \in Nat /\ DOMAIN s = 1..Len(s)
  OBVIOUS
<1>2. [s EXCEPT ![k] = x] \in [1..Len(s) -> S]
  BY <1>1
<1>3. \A n \in Nat : \A f \in [1..n -> S] : f \in Seq(S)
  OBVIOUS
<1> QED
  BY <1>1, <1>2, <1>3

\* Clusters have the type of reports.
LEMMA JoinType ==
    ASSUME NEW clusters \in Seq(Report), NEW e \in Question
    PROVE  Join(clusters, e) \in Seq(Report)
<1> DEFINE point == [sum |-> e.query, count |-> 1, support |-> {e.id}]
           k == Closest(point, clusters)
           larger == [clusters EXCEPT ![k] = [sum |-> @.sum + e.query, count |-> @.count + 1,
                                              support |-> @.support \cup {e.id}]]
<1>1. e.id \in Nat \ {0} /\ e.query \in Int
  BY GapsAssumption DEF Question
<1>2. point \in Report
  BY <1>1 DEF Report
<1>3. \A c \in Report : [sum |-> c.sum + e.query, count |-> c.count + 1, support |-> c.support \cup {e.id}] \in Report
  BY <1>1 DEF Report
<1> HIDE DEF point
<1>4. larger \in Seq(Report)
  <2>1. k \in DOMAIN clusters => clusters[k] \in Report
    OBVIOUS
  <2> HIDE DEF k
  <2> QED
    BY <1>3, <2>1, ExceptType
<1>5. Append(clusters, point) \in Seq(Report)
  BY <1>2
<1>6. Join(clusters, e) = larger \/ Join(clusters, e) = Append(clusters, point)
  BY DEF Join, point
<1> QED
  BY <1>4, <1>5, <1>6

\* Two reports on one topic: with the same centroid.
SameTopic(a, b) == a.sum = b.sum /\ a.count = b.count

\* A report that takes in the gap.
Near(gap, rows) == \E k \in DOMAIN rows : Within(Distance(gap, rows[k]), MergeRadius)

\* The rows keep their topics, and new ones may have come after them.
Grown(old, new) ==
    /\ Len(old) <= Len(new)
    /\ \A k \in DOMAIN old : SameTopic(new[k], old[k]) /\ old[k].support \subseteq new[k].support

\* A distance depends on the topic alone.
LEMMA SameDistance ==
    ASSUME NEW gap, NEW a, NEW b, SameTopic(a, b)
    PROVE  Distance(gap, a) = Distance(gap, b)
BY DEF SameTopic, Distance

\* A gap keeps its report while reports keep their topics.
LEMMA StaysNear ==
    ASSUME NEW gap, NEW old \in Seq(Report), NEW new \in Seq(Report), Near(gap, old), Len(old) <= Len(new),
           \A k \in DOMAIN old : SameTopic(new[k], old[k])
    PROVE  Near(gap, new)
<1>1. PICK k \in DOMAIN old : Within(Distance(gap, old[k]), MergeRadius)
  BY DEF Near
<1>2. k \in DOMAIN new
  OBVIOUS
<1>3. Distance(gap, new[k]) = Distance(gap, old[k])
  BY SameDistance
<1> QED
  BY <1>1, <1>2, <1>3 DEF Near

\* _find_mergeable_report finds a report within the radius, and one if there is any:
\* the closest of the loaded ones cannot be farther than the others.
LEMMA MergeableFinds ==
    ASSUME NEW gap \in Report, NEW existing \in Seq(Report)
    PROVE  LET k == Mergeable(gap, existing) IN
           /\ k \in 0..Len(existing)
           /\ k # 0 => Within(Distance(gap, existing[k]), MergeRadius)
           /\ Near(gap, existing) => k # 0
<1> DEFINE newest == Reverse(existing)
           k == Closest(gap, newest)
           n == Len(existing)
<1>1. newest \in Seq(Report) /\ Len(newest) = n /\ n \in Nat /\ \A l \in 1..n : newest[l] = existing[n - l + 1]
  BY DEF Reverse
<1>2. Mergeable(gap, existing) = IF existing # <<>> /\ Within(Distance(gap, newest[k]), MergeRadius)
                                 THEN n + 1 - k ELSE 0
  BY DEF Mergeable
<1>3. CASE existing = <<>>
  BY <1>2, <1>3 DEF Near
<1>4. CASE existing # <<>>
  <2>1. newest # <<>> /\ DOMAIN newest = 1..n
    BY <1>1, <1>4
  <2>2. k \in 1..n /\ \A l \in 1..n : ~Closer(Distance(gap, newest[l]), Distance(gap, newest[k]))
    BY <1>1, <2>1, ClosestExists
  <2> HIDE DEF newest, k
  <2>3. n + 1 - k \in 1..n /\ newest[k] = existing[n + 1 - k]
    <3>1. n - k + 1 = n + 1 - k
      BY <1>1, <2>2
    <3> QED
      BY <1>1, <2>2, <3>1
  <2>4. ASSUME Near(gap, existing)
        PROVE  Within(Distance(gap, newest[k]), MergeRadius)
    <3>1. PICK m \in 1..n : Within(Distance(gap, existing[m]), MergeRadius)
      BY <2>4 DEF Near
    <3>2. n + 1 - m \in 1..n /\ newest[n + 1 - m] = existing[m]
      <4>1. n + 1 - m \in 1..n /\ n - (n + 1 - m) + 1 = m
        BY <1>1, <3>1
      <4> QED
        BY <1>1, <4>1
    <3>3. ~Closer(Distance(gap, existing[m]), Distance(gap, newest[k]))
      BY <2>2, <3>2
    <3>4. existing[m] \in Report /\ newest[k] \in Report
      BY <1>1, <2>1, <2>2, <3>1
    <3>5. Distance(gap, existing[m]) \in Fraction /\ Distance(gap, newest[k]) \in Fraction
      BY <3>4, DistanceType
    <3> QED
      BY <3>1, <3>3, <3>5, WithinOrder
  <2> QED
    BY <1>1, <1>2, <1>4, <2>3, <2>4
<1> QED
  BY <1>3, <1>4

\* One gap is placed: the rows grow, it has a report, as every other had, and it
\* opens none if one of the loaded reports was near.
LEMMA PlaceStep ==
    ASSUME NEW old \in Seq(Report), NEW rows \in Seq(Report), NEW gap \in Report, Grown(old, rows)
    PROVE  LET new == Place(Len(old), rows, gap) IN
           /\ new \in Seq(Report) /\ Grown(old, new) /\ Near(gap, new)
           /\ \A g \in Report : Near(g, rows) => Near(g, new)
           /\ Near(gap, old) => Len(new) = Len(rows)
<1> DEFINE existing == SubSeq(rows, 1, Len(old))
           k == Mergeable(gap, existing)
           new == Place(Len(old), rows, gap)
<1>1. /\ Len(old) <= Len(rows)
      /\ \A l \in DOMAIN old : SameTopic(rows[l], old[l]) /\ old[l].support \subseteq rows[l].support
  BY DEF Grown
<1>2. existing \in Seq(Report) /\ Len(existing) = Len(old) /\ \A l \in 1..Len(old) : existing[l] = rows[l]
  BY <1>1
<1>3. new = IF k # 0 THEN [rows EXCEPT ![k] = Merged(@, gap)] ELSE Append(rows, gap)
  BY DEF Place
<1> HIDE DEF existing, new
<1>4. k \in 0..Len(old) /\ (k # 0 => Within(Distance(gap, rows[k]), MergeRadius))
  <2>1. k \in 0..Len(old) /\ (k # 0 => Within(Distance(gap, existing[k]), MergeRadius))
    BY <1>2, MergeableFinds
  <2>2. k # 0 => k \in 1..Len(old)
    BY <2>1
  <2> QED
    BY <1>2, <2>1, <2>2
<1>5. ASSUME Near(gap, old) PROVE k # 0
  <2>1. \A l \in DOMAIN old : SameTopic(existing[l], old[l])
    BY <1>1, <1>2
  <2>2. Near(gap, existing)
    BY <1>2, <1>5, <2>1, StaysNear
  <2>3. k # 0
    BY <1>2, <2>2, MergeableFinds
  <2> QED
    BY <2>3
<1> HIDE DEF k
<1>6. \A r \in Report : /\ Merged(r, gap) \in Report /\ SameTopic(Merged(r, gap), r)
                        /\ r.support \subseteq Merged(r, gap).support
  BY DEF Merged, SameTopic, Report
<1>7. \A r \in Report : SameTopic(r, r)
  BY DEF SameTopic
<1>8. /\ new \in Seq(Report) /\ Len(rows) <= Len(new)
      /\ \A l \in DOMAIN rows : SameTopic(new[l], rows[l]) /\ rows[l].support \subseteq new[l].support
      /\ k # 0 => Len(new) = Len(rows)
  <2>1. CASE k # 0
    <3>1. new = [rows EXCEPT ![k] = Merged(@, gap)] /\ k \in DOMAIN rows
      BY <1>1, <1>3, <1>4, <2>1
    <3>2. \A l \in DOMAIN rows : rows[l] \in Report /\ new[l] = IF l = k THEN Merged(rows[l], gap) ELSE rows[l]
      BY <3>1
    <3>3. DOMAIN new = DOMAIN rows /\ Len(new) = Len(rows) /\ new \in Seq(Report)
      BY <1>6, <3>1
    <3> QED
      BY <1>6, <1>7, <3>2, <3>3
  <2>2. CASE k = 0
    BY <1>3, <1>7, <2>2
  <2> QED
    BY <2>1, <2>2
<1>9. Grown(old, new)
  <2>1. ASSUME NEW l \in DOMAIN old
        PROVE  SameTopic(new[l], old[l]) /\ old[l].support \subseteq new[l].support
    <3>1. l \in DOMAIN rows
      BY <1>1
    <3> QED
      BY <1>1, <1>8, <3>1 DEF SameTopic
  <2> QED
    BY <1>1, <1>8, <2>1 DEF Grown
<1>10. Near(gap, new)
  <2>1. CASE k # 0
    <3>1. k \in DOMAIN rows /\ k \in DOMAIN new
      BY <1>1, <1>4, <1>8, <2>1
    <3>2. Distance(gap, new[k]) = Distance(gap, rows[k])
      BY <1>8, <3>1, SameDistance
    <3> QED
      BY <1>4, <2>1, <3>1, <3>2 DEF Near
  <2>2. CASE k = 0
    <3>1. Len(rows) + 1 \in DOMAIN new /\ new[Len(rows) + 1] = gap
      BY <1>3, <2>2
    <3> QED
      BY <3>1, DistanceToItself DEF Near
  <2> QED
    BY <2>1, <2>2
<1>11. \A g \in Report : Near(g, rows) => Near(g, new)
  BY <1>8, StaysNear
<1> QED
  BY <1>5, <1>8, <1>9, <1>10, <1>11 DEF new

-----------------------------------------------------------------------------
(* The clusters, the gaps, and the rows that a detection writes.            *)

\* The clusters are reports.
LEMMA ClustersType ==
    ASSUME NEW s \in Seq(Question)
    PROVE  ClusterBySimilarity(s) \in Seq(Report)
<1> DEFINE n == Len(s)
           U == Seq(Report)
           F == [i \in 1..n |-> [a \in U |-> Join(a, s[i])]]
           Iter(h) == h = [t \in SUBSET (DOMAIN s) |->
                              IF t = {} THEN <<>> ELSE Join(h[t \ {Max(t)}], s[Max(t)])]
           h == CHOOSE h : Iter(h)
<1>1. n \in Nat /\ DOMAIN s = 1..n
  OBVIOUS
<1>2. \A i \in 1..n : \A a \in U : F[i][a] = Join(a, s[i])
  OBVIOUS
<1>3. <<>> \in U /\ \A i \in 1..n : \A a \in U : Join(a, s[i]) \in U
  <2>1. ASSUME NEW i \in 1..n, NEW a \in U
        PROVE  Join(a, s[i]) \in U
    BY JoinType
  <2> QED
    BY <2>1
<1> HIDE DEF F, n, U
<1>4. Closed(n, U, <<>>, F)
  BY <1>2, <1>3 DEF Closed
<1>5. PICK g : Folds(g, n, U, <<>>, F)
  BY <1>1, <1>4, FoldExists
<1>6. Iter(g)
  <2>1. ASSUME NEW t \in SUBSET (1..n), t # {}
        PROVE  g[t] = Join(g[t \ {Max(t)}], s[Max(t)])
    <3>1. Max(t) \in 1..n /\ g[t \ {Max(t)}] \in U
      BY <1>1, <1>5, <2>1, MaxIsLast DEF Folds
    <3> QED
      BY <1>2, <1>5, <2>1, <3>1 DEF Folds
  <2> QED
    BY <1>1, <1>5, <2>1 DEF Folds
<1>7. Iter(h)
  BY <1>6
<1>8. FoldLeft(Join, <<>>, s) = h[1..n]
  BY <1>1 DEF FoldLeft, MapThenFoldSet
<1> HIDE DEF h
<1>9. ASSUME NEW i \in 1..n
      PROVE  h[1..i] = Join(h[1..(i - 1)], s[i])
  <2>1. /\ 1..i \in SUBSET (DOMAIN s) /\ 1..i # {}
        /\ Max(1..i) = i /\ (1..i) \ {Max(1..i)} = 1..(i - 1)
    BY <1>1, Prefix
  <2> QED
    BY <1>7, <2>1
<1>10. h[{}] = <<>>
  BY <1>7
<1> HIDE DEF Iter
<1>11. Obeys(h, n, U, <<>>, F)
  BY <1>2, <1>9, <1>10 DEF Obeys
<1>12. \E f : Follows(f, n, U, <<>>, F) /\ f[n] = h[1..n]
  BY <1>1, <1>4, <1>11, FoldPrefixes
<1> QED
  BY <1>1, <1>8, <1>12, Between DEF U, Follows, ClusterBySimilarity

\* So are the large ones.
LEMMA LargeOnlyType ==
    ASSUME NEW s \in Seq(Report)
    PROVE  FoldLeft(LargeOnly, <<>>, s) \in Seq(Report)
<1> DEFINE n == Len(s)
           U == Seq(Report)
           F == [i \in 1..n |-> [a \in U |-> LargeOnly(a, s[i])]]
           Iter(h) == h = [t \in SUBSET (DOMAIN s) |->
                              IF t = {} THEN <<>> ELSE LargeOnly(h[t \ {Max(t)}], s[Max(t)])]
           h == CHOOSE h : Iter(h)
<1>1. n \in Nat /\ DOMAIN s = 1..n
  OBVIOUS
<1>2. \A i \in 1..n : \A a \in U : F[i][a] = LargeOnly(a, s[i])
  OBVIOUS
<1>3. <<>> \in U /\ \A i \in 1..n : \A a \in U : LargeOnly(a, s[i]) \in U
  BY DEF LargeOnly
<1> HIDE DEF F, n, U
<1>4. Closed(n, U, <<>>, F)
  BY <1>2, <1>3 DEF Closed
<1>5. PICK g : Folds(g, n, U, <<>>, F)
  BY <1>1, <1>4, FoldExists
<1>6. Iter(g)
  <2>1. ASSUME NEW t \in SUBSET (1..n), t # {}
        PROVE  g[t] = LargeOnly(g[t \ {Max(t)}], s[Max(t)])
    <3>1. Max(t) \in 1..n /\ g[t \ {Max(t)}] \in U
      BY <1>1, <1>5, <2>1, MaxIsLast DEF Folds
    <3> QED
      BY <1>2, <1>5, <2>1, <3>1 DEF Folds
  <2> QED
    BY <1>1, <1>5, <2>1 DEF Folds
<1>7. Iter(h)
  BY <1>6
<1>8. FoldLeft(LargeOnly, <<>>, s) = h[1..n]
  BY <1>1 DEF FoldLeft, MapThenFoldSet
<1> HIDE DEF h
<1>9. ASSUME NEW i \in 1..n
      PROVE  h[1..i] = LargeOnly(h[1..(i - 1)], s[i])
  <2>1. /\ 1..i \in SUBSET (DOMAIN s) /\ 1..i # {}
        /\ Max(1..i) = i /\ (1..i) \ {Max(1..i)} = 1..(i - 1)
    BY <1>1, Prefix
  <2> QED
    BY <1>7, <2>1
<1>10. h[{}] = <<>>
  BY <1>7
<1> HIDE DEF Iter
<1>11. Obeys(h, n, U, <<>>, F)
  BY <1>2, <1>9, <1>10 DEF Obeys
<1>12. \E f : Follows(f, n, U, <<>>, F) /\ f[n] = h[1..n]
  BY <1>1, <1>4, <1>11, FoldPrefixes
<1> QED
  BY <1>1, <1>8, <1>12, Between DEF U, Follows

\* So are the gaps.
LEMMA GapsType ==
    ASSUME NEW s \in Seq(Question)
    PROVE  Gaps(s) \in Seq(Report)
BY ClustersType, LargeOnlyType DEF Gaps

\* And the rows.
LEMMA PlaceType ==
    ASSUME NEW rows \in Seq(Report), NEW gap \in Report, NEW loaded
    PROVE  Place(loaded, rows, gap) \in Seq(Report)
<1> DEFINE k == Mergeable(gap, SubSeq(rows, 1, loaded))
<1>1. \A r \in Report : Merged(r, gap) \in Report
  BY DEF Merged, Report
<1> HIDE DEF k
<1>2. k \in DOMAIN rows => Merged(rows[k], gap) \in Report
  BY <1>1
<1>3. [rows EXCEPT ![k] = Merged(@, gap)] \in Seq(Report)
  BY <1>2, ExceptType
<1> QED
  BY <1>3 DEF Place, k

\* The rows of a detection, gap by gap.
LEMMA PlaceFold ==
    ASSUME NEW old \in Seq(Report), NEW s \in Seq(Report)
    PROVE  \E f \in [0..Len(s) -> Seq(Report)] :
              /\ f[0] = old
              /\ \A i \in 1..Len(s) : f[i] = Place(Len(old), f[i - 1], s[i])
              /\ FoldLeft(LAMBDA rows, gap : Place(Len(old), rows, gap), old, s) = f[Len(s)]
<1> DEFINE n == Len(s)
           U == Seq(Report)
           F == [i \in 1..n |-> [a \in U |-> Place(Len(old), a, s[i])]]
           Iter(h) == h = [t \in SUBSET (DOMAIN s) |->
                              IF t = {} THEN old ELSE Place(Len(old), h[t \ {Max(t)}], s[Max(t)])]
           h == CHOOSE h : Iter(h)
<1>1. n \in Nat /\ DOMAIN s = 1..n
  OBVIOUS
<1>2. \A i \in 1..n : \A a \in U : F[i][a] = Place(Len(old), a, s[i])
  OBVIOUS
<1>3. old \in U /\ \A i \in 1..n : \A a \in U : Place(Len(old), a, s[i]) \in U
  <2>1. ASSUME NEW i \in 1..n, NEW a \in U
        PROVE  Place(Len(old), a, s[i]) \in U
    BY PlaceType
  <2> QED
    BY <2>1
<1> HIDE DEF F, n, U
<1>4. Closed(n, U, old, F)
  BY <1>2, <1>3 DEF Closed
<1>5. PICK g : Folds(g, n, U, old, F)
  BY <1>1, <1>4, FoldExists
<1>6. Iter(g)
  <2>1. ASSUME NEW t \in SUBSET (1..n), t # {}
        PROVE  g[t] = Place(Len(old), g[t \ {Max(t)}], s[Max(t)])
    <3>1. Max(t) \in 1..n /\ g[t \ {Max(t)}] \in U
      BY <1>1, <1>5, <2>1, MaxIsLast DEF Folds
    <3> QED
      BY <1>2, <1>5, <2>1, <3>1 DEF Folds
  <2> QED
    BY <1>1, <1>5, <2>1 DEF Folds
<1>7. Iter(h)
  BY <1>6
<1>8. FoldLeft(LAMBDA rows, gap : Place(Len(old), rows, gap), old, s) = h[1..n]
  BY <1>1 DEF FoldLeft, MapThenFoldSet
<1> HIDE DEF h
<1>9. ASSUME NEW i \in 1..n
      PROVE  h[1..i] = Place(Len(old), h[1..(i - 1)], s[i])
  <2>1. /\ 1..i \in SUBSET (DOMAIN s) /\ 1..i # {}
        /\ Max(1..i) = i /\ (1..i) \ {Max(1..i)} = 1..(i - 1)
    BY <1>1, Prefix
  <2> QED
    BY <1>7, <2>1
<1>10. h[{}] = old
  BY <1>7
<1> HIDE DEF Iter
<1>11. Obeys(h, n, U, old, F)
  BY <1>2, <1>9, <1>10 DEF Obeys
<1>12. PICK f : Follows(f, n, U, old, F) /\ f[n] = h[1..n]
  BY <1>1, <1>4, <1>11, FoldPrefixes
<1>13. f \in [0..n -> U] /\ f[0] = old /\ \A i \in 1..n : f[i] = Place(Len(old), f[i - 1], s[i])
  BY <1>1, <1>2, <1>12, Between DEF Follows
<1> QED
  BY <1>8, <1>12, <1>13 DEF n, U

\* A detection loses no report, serves every gap, and opens no report when each
\* gap has one.
LEMMA DetectedRows ==
    ASSUME NEW questions \in Seq(Question), NEW old \in Seq(Report)
    PROVE  LET new == Detected(questions, old) IN
           /\ new \in Seq(Report) /\ Grown(old, new)
           /\ \A l \in DOMAIN Gaps(questions) : Near(Gaps(questions)[l], new)
           /\ (\A l \in DOMAIN Gaps(questions) : Near(Gaps(questions)[l], old)) => Len(new) = Len(old)
<1> DEFINE s == Gaps(questions)
           n == Len(s)
           Done(rows, i) ==
              /\ Grown(old, rows)
              /\ \A l \in 1..i : Near(s[l], rows)
              /\ (\A l \in DOMAIN s : Near(s[l], old)) => Len(rows) = Len(old)
<1>1. s \in Seq(Report) /\ n \in Nat /\ DOMAIN s = 1..n
  BY GapsType
<1> HIDE DEF s, n
<1>2. PICK f \in [0..n -> Seq(Report)] :
              /\ f[0] = old
              /\ \A i \in 1..n : f[i] = Place(Len(old), f[i - 1], s[i])
              /\ FoldLeft(LAMBDA rows, gap : Place(Len(old), rows, gap), old, s) = f[n]
  BY <1>1, PlaceFold DEF n
<1>3. Detected(questions, old) = f[n]
  BY <1>2 DEF Detected, s
<1> DEFINE P == {i \in 0..n : Done(f[i], i)}
<1>4. 0 \in P
  <2>1. Grown(old, old)
    BY DEF Grown, SameTopic
  <2>2. \A l \in 1..0 : FALSE
    OBVIOUS
  <2>3. Done(old, 0)
    BY <2>1, <2>2
  <2> QED
    BY <1>1, <1>2, <2>3, Between
<1>5. ASSUME NEW i \in 1..n, i - 1 \in P
      PROVE  i \in P
  <2> DEFINE rows == f[i - 1]
             new == f[i]
  <2>1. i \in 0..n /\ i - 1 \in 0..n /\ i \in Nat /\ i # 0
    BY <1>1, Between
  <2>2. s[i] \in Report
    BY <1>1
  <2>8. rows \in Seq(Report)
    BY <2>1
  <2>9. new = Place(Len(old), rows, s[i])
    BY <1>2
  <2>3. Done(rows, i - 1)
    BY <1>5
  <2> HIDE DEF rows, new
  <2>4. /\ Grown(old, new) /\ Near(s[i], new)
        /\ \A g \in Report : Near(g, rows) => Near(g, new)
        /\ Near(s[i], old) => Len(new) = Len(rows)
    BY <2>2, <2>3, <2>8, <2>9, PlaceStep
  <2>5. ASSUME NEW l \in 1..i
        PROVE  Near(s[l], new)
    <3>1. l \in 1..n /\ (l = i \/ l \in 1..(i - 1))
      BY <1>1, <2>1
    <3> QED
      BY <1>1, <2>3, <2>4, <3>1
  <2>6. (\A l \in DOMAIN s : Near(s[l], old)) => Len(new) = Len(old)
    BY <1>1, <2>3, <2>4
  <2>7. Done(new, i)
    BY <2>4, <2>5, <2>6
  <2> HIDE DEF Done
  <2> QED
    BY <2>1, <2>7 DEF new
<1> HIDE DEF P
<1>6. n \in P
  BY <1>1, <1>4, <1>5, Induct
<1>7. Done(f[n], n) /\ f[n] \in Seq(Report)
  BY <1>1, <1>2, <1>6, Between DEF P
<1> QED
  BY <1>1, <1>3, <1>7 DEF s

-----------------------------------------------------------------------------
(* What a commit writes over rows that are no longer those it loaded.       *)

Written(old, new, rows) ==
    [k \in DOMAIN rows |-> IF k <= Len(old) /\ new[k] # old[k] THEN new[k] ELSE rows[k]]
    \o SubSeq(new, Len(old) + 1, Len(new))

\* Two sequences one after the other.
LEMMA Joined ==
    ASSUME NEW S, NEW s \in Seq(S), NEW t \in Seq(S)
    PROVE  /\ s \o t \in Seq(S) /\ Len(s \o t) = Len(s) + Len(t)
           /\ \A k \in 1..Len(s) : (s \o t)[k] = s[k]
           /\ \A k \in 1..Len(t) : (s \o t)[Len(s) + k] = t[k]
OBVIOUS

\* What comes after the first m elements.
LEMMA Tails ==
    ASSUME NEW S, NEW s \in Seq(S), NEW m \in Nat, m <= Len(s)
    PROVE  /\ SubSeq(s, m + 1, Len(s)) \in Seq(S) /\ Len(SubSeq(s, m + 1, Len(s))) = Len(s) - m
           /\ \A k \in 1..(Len(s) - m) : SubSeq(s, m + 1, Len(s))[k] = s[m + k]
OBVIOUS

\* A commit keeps the topic of every row, has a report near every gap that had one
\* among the rows of the detection, adds as many as the detection did, and takes no
\* support away when the rows are those that were loaded.
LEMMA CommitRows ==
    ASSUME NEW old \in Seq(Report), NEW new \in Seq(Report), NEW rows \in Seq(Report),
           Grown(old, new), Len(old) <= Len(rows), \A k \in DOMAIN old : SameTopic(rows[k], old[k])
    PROVE  LET after == Written(old, new, rows) IN
           /\ after \in Seq(Report)
           /\ Len(after) = Len(rows) + (Len(new) - Len(old))
           /\ \A k \in DOMAIN rows : SameTopic(after[k], rows[k])
           /\ \A gap : Near(gap, new) => Near(gap, after)
           /\ rows = old => \A k \in DOMAIN rows : rows[k].support \subseteq after[k].support
<1> DEFINE kept == [k \in 1..Len(rows) |-> IF k <= Len(old) /\ new[k] # old[k] THEN new[k] ELSE rows[k]]
           added == SubSeq(new, Len(old) + 1, Len(new))
           after == Written(old, new, rows)
<1>1. /\ Len(old) \in Nat /\ Len(new) \in Nat /\ Len(rows) \in Nat
      /\ Len(old) <= Len(new) /\ Len(old) <= Len(rows)
      /\ DOMAIN old = 1..Len(old) /\ DOMAIN new = 1..Len(new) /\ DOMAIN rows = 1..Len(rows)
  BY DEF Grown
<1>2. \A k \in DOMAIN old : SameTopic(new[k], old[k]) /\ old[k].support \subseteq new[k].support
  BY DEF Grown
<1>3. \A k \in 1..Len(rows) : k <= Len(old) => k \in DOMAIN old /\ k \in DOMAIN new
  BY <1>1
<1>4. kept \in Seq(Report) /\ Len(kept) = Len(rows)
  <2>1. ASSUME NEW k \in 1..Len(rows)
        PROVE  (IF k <= Len(old) /\ new[k] # old[k] THEN new[k] ELSE rows[k]) \in Report
    BY <1>1, <1>3
  <2>2. kept \in [1..Len(rows) -> Report]
    BY <2>1
  <2> QED
    BY <1>1, <2>2
<1>5. added \in Seq(Report) /\ Len(added) = Len(new) - Len(old)
  BY <1>1, Tails
<1>6. \A k \in 1..(Len(new) - Len(old)) : added[k] = new[Len(old) + k]
  BY <1>1, Tails
<1>7. after = kept \o added
  BY <1>1 DEF Written
<1>8. \A k \in 1..Len(rows) : kept[k] = IF k <= Len(old) /\ new[k] # old[k] THEN new[k] ELSE rows[k]
  OBVIOUS
<1> HIDE DEF kept, added, after
<1>9. after \in Seq(Report) /\ Len(after) = Len(rows) + (Len(new) - Len(old))
  <2>1. after \in Seq(Report) /\ Len(after) = Len(kept) + Len(added)
    BY <1>4, <1>5, <1>7, Joined
  <2> QED
    BY <1>4, <1>5, <2>1
<1>10. \A k \in 1..Len(rows) : after[k] = kept[k]
  BY <1>4, <1>5, <1>7, Joined
<1>11. \A k \in 1..(Len(new) - Len(old)) : after[Len(rows) + k] = new[Len(old) + k]
  <2>1. \A k \in 1..Len(added) : after[Len(kept) + k] = added[k]
    BY <1>4, <1>5, <1>7, Joined
  <2> QED
    BY <1>4, <1>5, <1>6, <2>1
<1>12. \A k \in DOMAIN rows : SameTopic(after[k], rows[k])
  <2> SUFFICES ASSUME NEW k \in DOMAIN rows PROVE SameTopic(kept[k], rows[k])
    BY <1>1, <1>10
  <2>1. CASE k <= Len(old)
    BY <1>1, <1>2, <1>3, <1>8, <2>1 DEF SameTopic
  <2>2. CASE ~(k <= Len(old))
    BY <1>1, <1>8, <2>2 DEF SameTopic
  <2> QED
    BY <2>1, <2>2
<1>13. ASSUME NEW gap, Near(gap, new) PROVE Near(gap, after)
  <2>1. PICK k \in 1..Len(new) : Within(Distance(gap, new[k]), MergeRadius)
    BY <1>1, <1>13 DEF Near
  <2>2. CASE k <= Len(old)
    <3>1. k \in DOMAIN old /\ k \in DOMAIN rows /\ k \in DOMAIN after
      BY <1>1, <1>9, <2>2
    <3>2. SameTopic(after[k], new[k])
      BY <1>2, <1>12, <3>1 DEF SameTopic
    <3>3. Distance(gap, after[k]) = Distance(gap, new[k])
      BY <3>2, SameDistance
    <3> QED
      BY <2>1, <3>1, <3>3 DEF Near
  <2>3. CASE ~(k <= Len(old))
    <3>1. k - Len(old) \in 1..(Len(new) - Len(old)) /\ Len(old) + (k - Len(old)) = k
      BY <1>1, <2>3
    <3>2. after[Len(rows) + (k - Len(old))] = new[k]
      BY <1>11, <3>1
    <3>3. Len(rows) + (k - Len(old)) \in DOMAIN after
      BY <1>1, <1>9, <3>1
    <3> QED
      BY <2>1, <3>2, <3>3 DEF Near
  <2> QED
    BY <2>2, <2>3
<1>14. ASSUME rows = old, NEW k \in DOMAIN rows PROVE rows[k].support \subseteq after[k].support
  <2>1. k \in 1..Len(rows) /\ k <= Len(old) /\ k \in DOMAIN old
    BY <1>1, <1>14
  <2>2. after[k] = new[k] \/ after[k] = rows[k]
    BY <1>8, <1>10, <2>1
  <2> QED
    BY <1>2, <1>14, <2>1, <2>2
<1> QED
  BY <1>9, <1>12, <1>13, <1>14 DEF after

\* Nothing is a gap when nothing was asked.
LEMMA NoQuestions == Gaps(<<>>) = <<>>
<1>1. FoldLeft(Join, <<>>, <<>>) = <<>>
  <2> DEFINE Iter(h) == h = [t \in SUBSET (1..0) |->
                                IF t = {} THEN <<>> ELSE Join(h[t \ {Max(t)}], <<>>[Max(t)])]
             h == CHOOSE h : Iter(h)
             g == [t \in SUBSET (1..0) |-> <<>>]
  <2>1. Iter(g)
    BY NoneBefore
  <2>2. Iter(h)
    BY <2>1
  <2>3. FoldLeft(Join, <<>>, <<>>) = h[1..0]
    BY DEF FoldLeft, MapThenFoldSet
  <2> HIDE DEF h
  <2>4. h[1..0] = <<>>
    BY <2>2, NoneBefore
  <2> QED
    BY <2>3, <2>4
<1>2. FoldLeft(LargeOnly, <<>>, <<>>) = <<>>
  <2> DEFINE Iter(h) == h = [t \in SUBSET (1..0) |->
                                IF t = {} THEN <<>> ELSE LargeOnly(h[t \ {Max(t)}], <<>>[Max(t)])]
             h == CHOOSE h : Iter(h)
             g == [t \in SUBSET (1..0) |-> <<>>]
  <2>1. Iter(g)
    BY NoneBefore
  <2>2. Iter(h)
    BY <2>1
  <2>3. FoldLeft(LargeOnly, <<>>, <<>>) = h[1..0]
    BY DEF FoldLeft, MapThenFoldSet
  <2> HIDE DEF h
  <2>4. h[1..0] = <<>>
    BY <2>2, NoneBefore
  <2> QED
    BY <2>3, <2>4
<1> QED
  BY <1>1, <1>2 DEF Gaps, ClusterBySimilarity

-----------------------------------------------------------------------------
(* The inductive invariant.                                                 *)

\* What an open detection loaded is still there: later commits only merge into the
\* reports and add others, and none came while t was open unless t is raced.
Loaded(t) ==
    /\ Len(task[t].reports) <= Len(reports)
    /\ \A k \in DOMAIN task[t].reports : SameTopic(reports[k], task[t].reports[k])
    /\ t \notin raced => task[t].reports = reports

\* Every gap of the last detection that committed has a report to merge into.
Served == \A l \in DOMAIN Gaps(seen) : Near(Gaps(seen)[l], reports)

GapsInv == GapsTypeOK /\ (\A t \in Tasks : task[t].pc = "open" => Loaded(t)) /\ Served

\* A detection that was enqueued has its type.
LEMMA Queued ==
    ASSUME NEW n \in 0..MaxTries
    PROVE  LET detection == [pc : {"off", "queued", "open"}, attempt : 0..MaxTries,
                             questions : Seq(Question), reports : Seq(Report)]
           IN Off \in detection /\ [Off EXCEPT !.pc = "queued", !.attempt = n] \in detection
<1>1. 0 \in 0..MaxTries /\ <<>> \in Seq(Question) /\ <<>> \in Seq(Report)
  BY GapsAssumption
<1> DEFINE Detection == [pc : {"off", "queued", "open"}, attempt : 0..MaxTries,
                         questions : Seq(Question), reports : Seq(Report)]
<1>2. Off \in Detection
  BY <1>1 DEF Off
<1>3. \A d \in Detection : [d EXCEPT !.pc = "queued", !.attempt = n] \in Detection
  OBVIOUS
<1> QED
  BY <1>2, <1>3

\* It holds at the start.
LEMMA Initially == GapsInit => GapsInv
<1> SUFFICES ASSUME GapsInit PROVE GapsInv
  OBVIOUS
<1>1. GapsTypeOK
  BY GapsAssumption DEF GapsInit, GapsTypeOK, Off
<1>2. \A t \in Tasks : task[t].pc # "open"
  BY DEF GapsInit, Off
<1>3. Served
  BY NoQuestions DEF GapsInit, Served
<1> QED
  BY <1>1, <1>2, <1>3 DEF GapsInv

\* The facts that a commit of an open detection rests on.
LEMMA Commits ==
    ASSUME GapsInv, NEW t \in Tasks, CommitDetection(t)
    PROVE  LET old == task[t].reports
               new == Detected(task[t].questions, old)
           IN /\ task[t].questions \in Seq(Question) /\ old \in Seq(Report) /\ new \in Seq(Report)
              /\ Grown(old, new)
              /\ \A l \in DOMAIN Gaps(task[t].questions) : Near(Gaps(task[t].questions)[l], new)
              /\ (\A l \in DOMAIN Gaps(task[t].questions) : Near(Gaps(task[t].questions)[l], old))
                    => Len(new) = Len(old)
              /\ reports' \in Seq(Report)
              /\ Len(reports') = Len(reports) + (Len(new) - Len(old))
              /\ \A k \in DOMAIN reports : SameTopic(reports'[k], reports[k])
              /\ \A gap : Near(gap, new) => Near(gap, reports')
              /\ reports = old => \A k \in DOMAIN reports : reports[k].support \subseteq reports'[k].support
<1> DEFINE old == task[t].reports
           questions == task[t].questions
           new == Detected(questions, old)
<1>1. questions \in Seq(Question) /\ old \in Seq(Report) /\ reports \in Seq(Report)
  BY DEF GapsInv, GapsTypeOK
<1>2. Len(old) <= Len(reports) /\ \A k \in DOMAIN old : SameTopic(reports[k], old[k])
  BY DEF GapsInv, Loaded, CommitDetection
<1>3. reports' = Written(old, new, reports)
  BY DEF CommitDetection, Written
<1> HIDE DEF old, questions
<1>4. /\ new \in Seq(Report) /\ Grown(old, new)
      /\ \A l \in DOMAIN Gaps(questions) : Near(Gaps(questions)[l], new)
      /\ (\A l \in DOMAIN Gaps(questions) : Near(Gaps(questions)[l], old)) => Len(new) = Len(old)
  BY <1>1, DetectedRows
<1> HIDE DEF new
<1>5. /\ reports' \in Seq(Report)
      /\ Len(reports') = Len(reports) + (Len(new) - Len(old))
      /\ \A k \in DOMAIN reports : SameTopic(reports'[k], reports[k])
      /\ \A gap : Near(gap, new) => Near(gap, reports')
      /\ reports = old => \A k \in DOMAIN reports : reports[k].support \subseteq reports'[k].support
  BY <1>1, <1>2, <1>3, <1>4, CommitRows
<1> QED
  BY <1>1, <1>4, <1>5 DEF old, questions, new

\* The questions that are loaded.
LEMMA LowConfidenceType ==
    ASSUME GapsTypeOK
    PROVE  LowConfidence \in Seq(Question)
<1>1. SubSeq(asked, since, Len(asked)) \in Seq(Question)
  BY DEF GapsTypeOK
<1> QED
  BY <1>1, LowOnlyType DEF LowConfidence

\* Every step keeps it.
LEMMA Step ==
    ASSUME GapsInv, [GapsNext]_gapsVars
    PROVE  GapsInv'
<1>1. ASSUME UNCHANGED <<reports, task, raced, seen>>, GapsTypeOK'
      PROVE  GapsInv'
  BY <1>1 DEF GapsInv, Loaded, Served
<1>2. ASSUME NEW x \in Points, NEW low \in BOOLEAN, Ask(x, low)
      PROVE  GapsInv'
  <2>1. [id |-> Len(asked) + 1, query |-> x, low |-> low] \in Question
    BY DEF GapsInv, GapsTypeOK, Question
  <2>2. GapsTypeOK'
    BY <1>2, <2>1 DEF Ask, GapsInv, GapsTypeOK
  <2> QED
    BY <1>1, <1>2, <2>2 DEF Ask
<1>3. ASSUME Age
      PROVE  GapsInv'
  <2>1. GapsTypeOK'
    BY <1>3 DEF Age, GapsInv, GapsTypeOK
  <2> QED
    BY <1>1, <1>3, <2>1 DEF Age
<1>4. ASSUME NEW t \in Tasks, Scan(t)
      PROVE  GapsInv'
  <2>1. [Off EXCEPT !.pc = "queued", !.attempt = 1]
           \in [pc : {"off", "queued", "open"}, attempt : 0..MaxTries,
                questions : Seq(Question), reports : Seq(Report)]
    <3>1. 1 \in 0..MaxTries
      BY GapsAssumption
    <3> QED
      BY <3>1, Queued
  <2>2. GapsTypeOK'
    <3> DEFINE Detection == [pc : {"off", "queued", "open"}, attempt : 0..MaxTries,
                             questions : Seq(Question), reports : Seq(Report)]
               queued == [Off EXCEPT !.pc = "queued", !.attempt = 1]
    <3>1. queued \in Detection /\ task \in [Tasks -> Detection]
      BY <2>1 DEF GapsInv, GapsTypeOK
    <3>2. task' = [task EXCEPT ![t] = queued] /\ scans' \in Nat /\ UNCHANGED <<asked, since, reports, raced, seen>>
      BY <1>4 DEF Scan, GapsInv, GapsTypeOK
    <3> HIDE DEF Detection, queued
    <3>3. task' \in [Tasks -> Detection]
      BY <3>1, <3>2
    <3> QED
      BY <3>2, <3>3 DEF GapsInv, GapsTypeOK, Detection
  <2>3. \A u \in Tasks : task'[u].pc = "open" => u # t /\ task'[u] = task[u]
    BY <1>4 DEF Scan, Off, GapsInv, GapsTypeOK
  <2>4. \A u \in Tasks : task'[u].pc = "open" => Loaded(u)'
    BY <1>4, <2>3 DEF Scan, GapsInv, Loaded
  <2> QED
    BY <1>4, <2>2, <2>4 DEF Scan, GapsInv, Served
<1>5. ASSUME NEW t \in Tasks, Load(t)
      PROVE  GapsInv'
  <2>1. [task[t] EXCEPT !.pc = "open", !.questions = LowConfidence, !.reports = reports]
           \in [pc : {"off", "queued", "open"}, attempt : 0..MaxTries,
                questions : Seq(Question), reports : Seq(Report)]
    BY LowConfidenceType DEF GapsInv, GapsTypeOK
  <2>2. GapsTypeOK'
    BY <1>5, <2>1 DEF Load, GapsInv, GapsTypeOK
  <2>3. task'[t].reports = reports /\ \A u \in Tasks \ {t} : task'[u] = task[u]
    BY <1>5 DEF Load, GapsInv, GapsTypeOK
  <2>4. ASSUME NEW u \in Tasks, task'[u].pc = "open"
        PROVE  Loaded(u)'
    <3>1. CASE u = t
      BY <1>5, <2>3, <3>1 DEF Load, Loaded, SameTopic, GapsInv, GapsTypeOK
    <3>2. CASE u # t
      BY <1>5, <2>3, <2>4, <3>2 DEF Load, Loaded, GapsInv
    <3> QED
      BY <3>1, <3>2
  <2> QED
    BY <1>5, <2>2, <2>4 DEF Load, GapsInv, Served
<1>6. ASSUME NEW t \in Tasks, CommitDetection(t)
      PROVE  GapsInv'
  <2>1. /\ task[t].questions \in Seq(Question) /\ reports' \in Seq(Report)
        /\ \A k \in DOMAIN reports : SameTopic(reports'[k], reports[k])
        /\ \A l \in DOMAIN Gaps(task[t].questions) : Near(Gaps(task[t].questions)[l], reports')
    BY <1>6, Commits
  <2>8. Len(reports) <= Len(reports')
    <3> DEFINE old == task[t].reports
               new == Detected(task[t].questions, old)
    <3>1. /\ old \in Seq(Report) /\ new \in Seq(Report) /\ Len(old) <= Len(new)
          /\ Len(reports') = Len(reports) + (Len(new) - Len(old))
      BY <1>6, Commits DEF Grown
    <3>2. reports \in Seq(Report)
      BY DEF GapsInv, GapsTypeOK
    <3> HIDE DEF old, new
    <3> QED
      BY <3>1, <3>2
  <2>2. task' = [task EXCEPT ![t] = Off] /\ seen' = task[t].questions /\ UNCHANGED <<asked, since, scans>>
    BY <1>6 DEF CommitDetection
  <2>3. raced' = raced \cup {u \in Tasks \ {t} : task[u].pc = "open"}
    BY <1>6 DEF CommitDetection
  <2>4. Off \in [pc : {"off", "queued", "open"}, attempt : 0..MaxTries,
                 questions : Seq(Question), reports : Seq(Report)]
    <3>1. 0 \in 0..MaxTries
      BY GapsAssumption
    <3> QED
      BY <3>1, Queued
  <2>5. GapsTypeOK'
    BY <2>1, <2>2, <2>3, <2>4 DEF GapsInv, GapsTypeOK
  <2>6. ASSUME NEW u \in Tasks, task'[u].pc = "open"
        PROVE  Loaded(u)'
    <3>1. u # t /\ task'[u] = task[u] /\ u \in raced'
      BY <2>2, <2>3, <2>6 DEF Off, GapsInv, GapsTypeOK
    <3>2. /\ Len(task[u].reports) <= Len(reports) /\ task[u].reports \in Seq(Report)
          /\ \A k \in DOMAIN task[u].reports : SameTopic(reports[k], task[u].reports[k])
      BY <2>6, <3>1 DEF GapsInv, GapsTypeOK, Loaded
    <3>3. reports \in Seq(Report)
      BY DEF GapsInv, GapsTypeOK
    <3>4. ASSUME NEW k \in DOMAIN task[u].reports
          PROVE  SameTopic(reports'[k], task[u].reports[k])
      <4>1. k \in DOMAIN reports
        BY <3>2, <3>3
      <4> QED
        BY <2>1, <3>2, <4>1 DEF SameTopic
    <3>5. Len(task[u].reports) <= Len(reports')
      BY <2>1, <2>8, <3>2, <3>3
    <3> QED
      BY <3>1, <3>4, <3>5 DEF Loaded
  <2>7. Served'
    BY <2>1, <2>2 DEF Served
  <2> QED
    BY <2>5, <2>6, <2>7 DEF GapsInv
<1>7. ASSUME NEW t \in Tasks, Fail(t)
      PROVE  GapsInv'
  <2> DEFINE next == IF task[t].attempt < MaxTries
                     THEN [Off EXCEPT !.pc = "queued", !.attempt = task[t].attempt + 1] ELSE Off
  <2>1. /\ next \in [pc : {"off", "queued", "open"}, attempt : 0..MaxTries,
                     questions : Seq(Question), reports : Seq(Report)]
        /\ next.pc # "open"
    <3>1. /\ task[t].attempt \in 0..MaxTries /\ 0 \in 0..MaxTries
          /\ task[t].attempt < MaxTries => task[t].attempt + 1 \in 0..MaxTries
      BY GapsAssumption DEF GapsInv, GapsTypeOK
    <3> QED
      BY <3>1, Queued DEF Off
  <2>2. task' = [task EXCEPT ![t] = next]
    BY <1>7 DEF Fail
  <2> HIDE DEF next
  <2>6. task' \in [Tasks -> [pc : {"off", "queued", "open"}, attempt : 0..MaxTries,
                             questions : Seq(Question), reports : Seq(Report)]]
    BY <2>1, <2>2 DEF GapsInv, GapsTypeOK
  <2>3. GapsTypeOK'
    BY <1>7, <2>6 DEF Fail, GapsInv, GapsTypeOK
  <2>4. \A u \in Tasks : task'[u].pc = "open" => u # t /\ task'[u] = task[u]
    BY <2>1, <2>2 DEF GapsInv, GapsTypeOK
  <2>5. \A u \in Tasks : task'[u].pc = "open" => Loaded(u)'
    BY <1>7, <2>4 DEF Fail, GapsInv, Loaded
  <2> QED
    BY <1>7, <2>3, <2>5 DEF Fail, GapsInv, Served
<1>8. CASE UNCHANGED gapsVars
  BY <1>8 DEF gapsVars, GapsInv, GapsTypeOK, Loaded, Served
<1> QED
  BY <1>2, <1>3, <1>4, <1>5, <1>6, <1>7, <1>8 DEF GapsNext

\* At any time, whatever is asked, fails and runs at once: questions, reports and
\* detections have their types, what an open detection loaded is still there
\* (gap reports are merged into and added, never dropped), and every gap of the
\* last detection that committed has a report that a later one merges it into.
THEOREM GapsInvariant == GapsSpec => []GapsInv
<1>1. GapsInit => GapsInv
  BY Initially
<1>2. GapsInv /\ [GapsNext]_gapsVars => GapsInv'
  BY Step
<1> QED
  BY <1>1, <1>2, PTL DEF GapsSpec

\* A detection that ends has committed, or failed and written nothing.
LEMMA EndsByCommit ==
    ASSUME GapsInv, GapsNext, NEW t \in Tasks, task[t].pc = "open", task'[t].pc = "off"
    PROVE  CommitDetection(t) \/ reports' = reports
<1>1. ASSUME NEW u \in Tasks, Scan(u) \/ Load(u) \/ Fail(u)
      PROVE  reports' = reports
  BY <1>1 DEF Scan, Load, Fail
<1>2. ASSUME NEW u \in Tasks, CommitDetection(u)
      PROVE  u = t
  <2>1. task' = [task EXCEPT ![u] = Off]
    BY <1>2 DEF CommitDetection
  <2> QED
    BY <2>1 DEF GapsInv, GapsTypeOK
<1>3. ASSUME (\E x \in Points, low \in BOOLEAN : Ask(x, low)) \/ Age
      PROVE  reports' = reports
  BY <1>3 DEF Ask, Age
<1> QED
  BY <1>1, <1>2, <1>3 DEF GapsNext

\* A detection that no other one overlapped takes no support from a report and
\* leaves it its topic: it merges, and never replaces
\* (update_gap_report_supporting_ids).
THEOREM ReportsGrow == GapsSpec => ReportsOnlyGrow
<1> DEFINE Keeps ==
        \A t \in Tasks \ raced : task[t].pc = "open" /\ task'[t].pc = "off" /\ reports' # reports =>
          \A k \in DOMAIN reports :
              /\ reports[k].support \subseteq reports'[k].support
              /\ <<reports'[k].sum, reports'[k].count>> = <<reports[k].sum, reports[k].count>>
<1>1. ASSUME GapsInv, [GapsNext]_gapsVars
      PROVE  [Keeps]_gapsVars
  <2> SUFFICES ASSUME GapsNext, NEW t \in Tasks \ raced, task[t].pc = "open", task'[t].pc = "off",
                      reports' # reports, NEW k \in DOMAIN reports
               PROVE  /\ reports[k].support \subseteq reports'[k].support
                      /\ <<reports'[k].sum, reports'[k].count>> = <<reports[k].sum, reports[k].count>>
    BY <1>1
  <2>1. CommitDetection(t)
    BY <1>1, EndsByCommit
  <2>2. task[t].reports = reports
    BY <1>1 DEF GapsInv, Loaded
  <2>3. SameTopic(reports'[k], reports[k]) /\ reports[k].support \subseteq reports'[k].support
    BY <1>1, <2>1, <2>2, Commits
  <2> QED
    BY <2>3 DEF SameTopic
<1>2. GapsSpec => []GapsInv
  BY GapsInvariant
<1>3. GapsSpec => [][Keeps]_gapsVars
  BY <1>1, <1>2, PTL DEF GapsSpec
<1> QED
  BY <1>3 DEF ReportsOnlyGrow

\* A detection that finds the questions of the last one that committed, and that
\* no other one overlapped, opens no report (_find_mergeable_report).
THEOREM RepeatsAddNothing == GapsSpec => RepeatedRunsAddNothing
<1> DEFINE Repeats ==
        \A t \in Tasks \ raced : task[t].pc = "open" /\ task'[t].pc = "off" /\ task[t].questions = seen =>
          Len(reports') = Len(reports)
<1>1. ASSUME GapsInv, [GapsNext]_gapsVars
      PROVE  [Repeats]_gapsVars
  <2> SUFFICES ASSUME GapsNext, NEW t \in Tasks \ raced, task[t].pc = "open", task'[t].pc = "off",
                      task[t].questions = seen, reports' # reports
               PROVE  Len(reports') = Len(reports)
    BY <1>1
  <2>1. CommitDetection(t)
    BY <1>1, EndsByCommit
  <2>2. task[t].reports = reports
    BY <1>1 DEF GapsInv, Loaded
  <2>3. \A l \in DOMAIN Gaps(task[t].questions) : Near(Gaps(task[t].questions)[l], task[t].reports)
    BY <1>1, <2>2 DEF GapsInv, Served
  <2>4. Len(reports') = Len(reports) + (Len(reports) - Len(reports))
    BY <1>1, <2>1, <2>2, <2>3, Commits
  <2> QED
    BY <1>1, <2>4 DEF GapsInv, GapsTypeOK
<1>2. GapsSpec => []GapsInv
  BY GapsInvariant
<1>3. GapsSpec => [][Repeats]_gapsVars
  BY <1>1, <1>2, PTL DEF GapsSpec
<1> QED
  BY <1>3 DEF RepeatedRunsAddNothing

-----------------------------------------------------------------------------
(* Sums of lengths.                                                         *)

\* A sum, number by number.
LEMMA AddFold ==
    ASSUME NEW s \in Seq(Int)
    PROVE  \E f \in [0..Len(s) -> Int] :
              /\ f[0] = 0 /\ FoldLeft(LAMBDA sum, l : sum + l, 0, s) = f[Len(s)]
              /\ \A i \in 1..Len(s) : f[i] = f[i - 1] + s[i]
<1> DEFINE n == Len(s)
           U == Int
           F == [i \in 1..n |-> [a \in U |-> a + s[i]]]
           Iter(h) == h = [t \in SUBSET (DOMAIN s) |->
                              IF t = {} THEN 0 ELSE h[t \ {Max(t)}] + s[Max(t)]]
           h == CHOOSE h : Iter(h)
<1>1. n \in Nat /\ DOMAIN s = 1..n
  OBVIOUS
<1>2. \A i \in 1..n : \A a \in U : F[i][a] = a + s[i]
  OBVIOUS
<1>3. 0 \in U /\ \A i \in 1..n : \A a \in U : a + s[i] \in U
  OBVIOUS
<1> HIDE DEF F, n, U
<1>4. Closed(n, U, 0, F)
  BY <1>2, <1>3 DEF Closed
<1>5. PICK g : Folds(g, n, U, 0, F)
  BY <1>1, <1>4, FoldExists
<1>6. Iter(g)
  <2>1. ASSUME NEW t \in SUBSET (1..n), t # {}
        PROVE  g[t] = g[t \ {Max(t)}] + s[Max(t)]
    <3>1. Max(t) \in 1..n /\ g[t \ {Max(t)}] \in U
      BY <1>1, <1>5, <2>1, MaxIsLast DEF Folds
    <3> QED
      BY <1>2, <1>5, <2>1, <3>1 DEF Folds
  <2> QED
    BY <1>1, <1>5, <2>1 DEF Folds
<1>7. Iter(h)
  BY <1>6
<1>8. FoldLeft(LAMBDA sum, l : sum + l, 0, s) = h[1..n]
  BY <1>1 DEF FoldLeft, MapThenFoldSet
<1> HIDE DEF h
<1>9. ASSUME NEW i \in 1..n
      PROVE  h[1..i] = h[1..(i - 1)] + s[i]
  <2>1. /\ 1..i \in SUBSET (DOMAIN s) /\ 1..i # {}
        /\ Max(1..i) = i /\ (1..i) \ {Max(1..i)} = 1..(i - 1)
    BY <1>1, Prefix
  <2> QED
    BY <1>7, <2>1
<1>10. h[{}] = 0
  BY <1>7
<1> HIDE DEF Iter
<1>11. Obeys(h, n, U, 0, F)
  BY <1>2, <1>9, <1>10 DEF Obeys
<1>12. PICK f : Follows(f, n, U, 0, F) /\ f[n] = h[1..n]
  BY <1>1, <1>4, <1>11, FoldPrefixes
<1>13. f \in [0..n -> U] /\ f[0] = 0 /\ \A i \in 1..n : f[i] = f[i - 1] + s[i]
  BY <1>1, <1>2, <1>12, Between DEF Follows
<1> QED
  BY <1>8, <1>12, <1>13 DEF n, U

\* A sum of no number, and of one more.
LEMMA TotalStep ==
    ASSUME NEW s \in Seq(Int), NEW x \in Int
    PROVE  Total(<<>>) = 0 /\ Total(s) \in Int /\ Total(Append(s, x)) = Total(s) + x
<1>1. Total(<<>>) = 0
  <2>1. <<>> \in Seq(Int) /\ Len(<<>>) = 0
    OBVIOUS
  <2> QED
    BY <2>1, AddFold DEF Total
<1> DEFINE n == Len(s)
           more == Append(s, x)
<1>2. /\ n \in Nat /\ more \in Seq(Int) /\ Len(more) = n + 1 /\ more[n + 1] = x
      /\ \A i \in 1..n : more[i] = s[i] /\ s[i] \in Int
  OBVIOUS
<1> HIDE DEF n, more
<1>3. PICK f \in [0..n -> Int] : f[0] = 0 /\ Total(s) = f[n] /\ \A i \in 1..n : f[i] = f[i - 1] + s[i]
  BY AddFold DEF Total, n
<1>4. PICK g \in [0..Len(more) -> Int] :
         g[0] = 0 /\ Total(more) = g[Len(more)] /\ \A i \in 1..Len(more) : g[i] = g[i - 1] + more[i]
  BY <1>2, AddFold DEF Total
<1> DEFINE P == {i \in 0..n : f[i] = g[i]}
<1>5. 0 \in P
  BY <1>2, <1>3, <1>4
<1>6. ASSUME NEW i \in 1..n, i - 1 \in P PROVE i \in P
  BY <1>2, <1>3, <1>4, <1>6
<1> HIDE DEF P
<1>7. n \in P
  BY <1>2, <1>5, <1>6, Induct
<1>8. f[n] = g[n] /\ f[n] \in Int /\ g[n + 1] = g[n] + x
  <2>1. n + 1 \in 1..(n + 1) /\ (n + 1) - 1 = n /\ n \in 0..n
    BY <1>2
  <2> QED
    BY <1>2, <1>3, <1>4, <1>7, <2>1 DEF P
<1>9. Total(more) = Total(s) + x
  BY <1>2, <1>3, <1>4, <1>8
<1> QED
  BY <1>1, <1>3, <1>8, <1>9 DEF more

Rising(f, N) == f \in [0..N -> Int] /\ \A i \in 1..N : f[i - 1] <= f[i]

\* What does not fall from step to step does not fall.
LEMMA Climbs ==
    ASSUME NEW N \in Nat, NEW f, Rising(f, N)
    PROVE  \A i \in 0..N : f[0] <= f[i] /\ f[i] <= f[N]
<1>0. f \in [0..N -> Int] /\ \A i \in 1..N : f[i - 1] <= f[i]
  BY DEF Rising
<1> SUFFICES ASSUME NEW i \in 0..N PROVE f[0] <= f[i] /\ f[i] <= f[N]
  OBVIOUS
<1> DEFINE P == {m \in 0..N : f[0] <= f[m] /\ (m >= i => f[i] <= f[m])}
<1>1. 0 \in P
  BY <1>0
<1>2. ASSUME NEW m \in 1..N, m - 1 \in P PROVE m \in P
  <2>1. m \in 0..N /\ m - 1 \in 0..N /\ f[m - 1] <= f[m] /\ f[m] \in Int /\ f[m - 1] \in Int
    BY <1>0
  <2>2. f[0] <= f[m] /\ f[0] \in Int
    BY <1>0, <1>2, <2>1
  <2>3. m >= i => f[i] <= f[m]
    BY <1>0, <1>2, <2>1
  <2> QED
    BY <2>1, <2>2, <2>3
<1> HIDE DEF P
<1>3. i \in P /\ N \in P
  BY <1>1, <1>2, Induct
<1> QED
  BY <1>3 DEF P

\* The characters before a paragraph, paragraph by paragraph.
LEMMA BeforeStep ==
    ASSUME NEW section \in Section
    PROVE  /\ Before(section, 0) = 0
           /\ \A n \in 0..Len(section) : Before(section, n) \in Int
           /\ \A n \in 1..Len(section) :
                 /\ section[n].len \in Nat
                 /\ Before(section, n) = Before(section, n - 1) + section[n].len + 2
<1> DEFINE widths(n) == [k \in 1..n |-> section[k].len + 2]
<1>2. section \in Seq(Paragraph) /\ Len(section) \in Nat
  BY DEF Section
<1>1. \A k \in 1..Len(section) : section[k].len \in Nat
  <2>1. \A k \in 1..Len(section) : section[k] \in Paragraph
    BY <1>2
  <2> QED
    BY <2>1 DEF Paragraph
<1>3. \A n \in 0..Len(section) : widths(n) \in Seq(Int)
  BY <1>1, <1>2
<1>4. widths(0) = <<>>
  OBVIOUS
<1>5. ASSUME NEW n \in 1..Len(section)
      PROVE  widths(n) = Append(widths(n - 1), section[n].len + 2)
  BY <1>2
<1> HIDE DEF widths
<1>6. \A n \in 0..Len(section) : Total(widths(n)) \in Int
  BY <1>3, TotalStep
<1>7. Total(widths(0)) = 0
  BY <1>3, <1>4, TotalStep
<1>8. ASSUME NEW n \in 1..Len(section)
      PROVE  Total(widths(n)) = Total(widths(n - 1)) + section[n].len + 2
  <2>1. n - 1 \in 0..Len(section) /\ section[n].len + 2 \in Int
    BY <1>1, <1>2
  <2>2. Total(Append(widths(n - 1), section[n].len + 2)) = Total(widths(n - 1)) + (section[n].len + 2)
    BY <1>3, <2>1, TotalStep
  <2>3. Total(widths(n - 1)) \in Int /\ section[n].len \in Int
    BY <1>1, <1>6, <2>1
  <2>4. \A x, y \in Int : x + (y + 2) = x + y + 2
    OBVIOUS
  <2>5. Total(widths(n)) = Total(widths(n - 1)) + (section[n].len + 2)
    BY <1>5, <2>2
  <2> QED
    BY <2>3, <2>4, <2>5
<1> QED
  BY <1>1, <1>6, <1>7, <1>8 DEF Before, widths

LEMMA BeforeGrows ==
    ASSUME NEW section \in Section
    PROVE  /\ LengthOf(section) \in Nat /\ Len(section) \in Nat \ {0}
           /\ \A n \in 0..Len(section) : Before(section, n) \in Nat
           /\ \A n \in 1..Len(section) :
                 /\ Before(section, n - 1) + section[n].len <= LengthOf(section)
                 /\ Before(section, n) - 2 <= LengthOf(section) /\ Before(section, n) >= 2
<1> DEFINE N == Len(section)
           f == [n \in 0..N |-> Before(section, n)]
<1>1. N \in Nat \ {0}
  BY DEF Section
<1>2. f \in [0..N -> Int] /\ \A n \in 0..N : f[n] = Before(section, n)
  BY BeforeStep
<1> HIDE DEF N, f
<1>3. \A n \in 1..N : n \in 0..N /\ n - 1 \in 0..N /\ section[n].len \in Nat /\ f[n] = f[n - 1] + section[n].len + 2
  <2>1. \A n \in 1..N : n \in 0..N /\ n - 1 \in 0..N
    BY <1>1
  <2>2. \A n \in 1..N : /\ section[n].len \in Nat
                        /\ Before(section, n) = Before(section, n - 1) + section[n].len + 2
    BY BeforeStep DEF N
  <2> QED
    BY <1>2, <2>1, <2>2
<1>4. \A n \in 1..N : f[n - 1] \in Int /\ f[n] \in Int
  BY <1>2, <1>3
<1>5. \A n \in 1..N : f[n - 1] <= f[n]
  BY <1>3, <1>4
<1>6. f[0] = 0 /\ \A n \in 0..N : f[0] <= f[n] /\ f[n] <= f[N]
  <2>1. Rising(f, N)
    BY <1>2, <1>5 DEF Rising
  <2>2. 0 \in 0..N
    BY <1>1
  <2> QED
    BY <1>1, <1>2, <2>1, <2>2, Climbs, BeforeStep
<1>7. \A n \in 0..N : f[n] \in Nat
  BY <1>2, <1>6
<1>8. \A n \in 1..N : f[n] >= 2 /\ f[n - 1] + section[n].len = f[n] - 2 /\ f[n] <= f[N]
  BY <1>3, <1>6, <1>7
<1>9. N \in 0..N /\ N \in 1..N
  BY <1>1
<1>10. LengthOf(section) = f[N] - 2
  BY <1>2, <1>9 DEF LengthOf, N
<1>11. f[N] \in Nat /\ f[N] >= 2
  BY <1>7, <1>8, <1>9
<1>12. \A n \in 1..N : /\ f[n - 1] + section[n].len <= LengthOf(section)
                       /\ f[n] - 2 <= LengthOf(section) /\ f[n] >= 2
  BY <1>3, <1>4, <1>8, <1>10, <1>11
<1>13. LengthOf(section) \in Nat
  BY <1>10, <1>11
<1> QED
  BY <1>1, <1>2, <1>3, <1>7, <1>12, <1>13 DEF N

Text == Seq(Section) \ {<<>>}

\* The characters before a section, section by section.
LEMMA TextStep ==
    ASSUME NEW text \in Text
    PROVE  /\ TextBefore(text, 0) = 0
           /\ \A n \in 0..Len(text) : TextBefore(text, n) \in Int
           /\ \A n \in 1..Len(text) : /\ LengthOf(text[n]) \in Nat
                                      /\ TextBefore(text, n) = TextBefore(text, n - 1) + LengthOf(text[n])
<1> DEFINE widths(n) == [k \in 1..n |-> LengthOf(text[k])]
<1>1. \A k \in 1..Len(text) : LengthOf(text[k]) \in Nat
  BY BeforeGrows DEF Text
<1>2. Len(text) \in Nat
  BY DEF Text
<1>3. \A n \in 0..Len(text) : widths(n) \in Seq(Int)
  BY <1>1, <1>2
<1>4. widths(0) = <<>>
  OBVIOUS
<1>5. ASSUME NEW n \in 1..Len(text)
      PROVE  widths(n) = Append(widths(n - 1), LengthOf(text[n]))
  BY <1>2
<1> HIDE DEF widths
<1>6. \A n \in 0..Len(text) : Total(widths(n)) \in Int
  BY <1>3, TotalStep
<1>7. Total(widths(0)) = 0
  BY <1>3, <1>4, TotalStep
<1>8. ASSUME NEW n \in 1..Len(text)
      PROVE  Total(widths(n)) = Total(widths(n - 1)) + LengthOf(text[n])
  <2>1. n - 1 \in 0..Len(text) /\ LengthOf(text[n]) \in Int
    BY <1>1, <1>2
  <2> QED
    BY <1>3, <1>5, <2>1, TotalStep
<1> QED
  BY <1>1, <1>6, <1>7, <1>8 DEF TextBefore, widths

LEMMA TextGrows ==
    ASSUME NEW text \in Text
    PROVE  /\ \A n \in 0..Len(text) : TextBefore(text, n) \in Nat
           /\ \A n \in 1..Len(text) : TextBefore(text, n - 1) + LengthOf(text[n]) <= TextBefore(text, Len(text))
<1> DEFINE N == Len(text)
           f == [n \in 0..N |-> TextBefore(text, n)]
<1>1. N \in Nat \ {0}
  BY DEF Text
<1>2. f \in [0..N -> Int] /\ \A n \in 0..N : f[n] = TextBefore(text, n)
  BY TextStep
<1> HIDE DEF N, f
<1>3. \A n \in 1..N : n \in 0..N /\ n - 1 \in 0..N /\ LengthOf(text[n]) \in Nat /\ f[n] = f[n - 1] + LengthOf(text[n])
  <2>1. \A n \in 1..N : n \in 0..N /\ n - 1 \in 0..N
    BY <1>1
  <2>2. \A n \in 1..N : /\ LengthOf(text[n]) \in Nat
                        /\ TextBefore(text, n) = TextBefore(text, n - 1) + LengthOf(text[n])
    BY TextStep DEF N
  <2> QED
    BY <1>2, <2>1, <2>2
<1>4. \A n \in 1..N : f[n - 1] \in Int /\ f[n] \in Int
  BY <1>2, <1>3
<1>5. \A n \in 1..N : f[n - 1] <= f[n]
  BY <1>3, <1>4
<1>6. f[0] = 0 /\ \A n \in 0..N : f[0] <= f[n] /\ f[n] <= f[N]
  <2>1. Rising(f, N)
    BY <1>2, <1>5 DEF Rising
  <2>2. 0 \in 0..N
    BY <1>1
  <2> QED
    BY <1>1, <1>2, <2>1, <2>2, Climbs, TextStep
<1>7. \A n \in 0..N : f[n] \in Nat
  BY <1>2, <1>6
<1>8. N \in 0..N
  BY <1>1
<1> QED
  BY <1>2, <1>3, <1>6, <1>7, <1>8 DEF N

-----------------------------------------------------------------------------
(* What chunk_document computes.                                            *)

\* The pieces that are text of what ends at bound, and those that are chunks of it.
Fit(bound) == {p \in Piece : (~p.blank => p.start = p.from) /\ p.from + p.length <= bound}
Quote(bound) == {p \in Fit(bound) : p.length <= MaxChars}

LEMMA SpottedType ==
    ASSUME NEW section \in Section, NEW done \in Seq(Piece), NEW n \in 1..Len(section)
    PROVE  /\ Spotted(section, done, n) \in Seq(Piece)
           /\ Len(Spotted(section, done, n)) = Len(done) + 1
           /\ \A k \in 1..Len(done) : Spotted(section, done, n)[k] = done[k]
           /\ LET p == Spotted(section, done, n)[Len(done) + 1] IN
              /\ p.from = Before(section, n - 1) /\ p.length = section[n].len
              /\ ~p.blank => p.start = p.from
<1> DEFINE found == IF done = <<>> THEN 0 ELSE Last(done).start + Last(done).length
           start == IF n = 1 THEN 0 ELSE Offset(section, found, n)
           p == [start |-> start, from |-> Before(section, n - 1),
                 length |-> section[n].len, blank |-> section[n].blank]
<1>1. found \in Nat
  <2>1. CASE done # <<>>
    <3>1. Len(done) \in 1..Len(done)
      BY <2>1
    <3>2. Last(done) \in Piece
      BY <3>1 DEF Last
    <3> QED
      BY <2>1, <3>2 DEF Piece
  <2> QED
    BY <2>1
<1>2. section[n].len \in Nat /\ section[n].blank \in BOOLEAN
  <2>1. section[n] \in Paragraph
    BY DEF Section
  <2> QED
    BY <2>1 DEF Paragraph
<1>3. n - 1 \in 0..Len(section) /\ Before(section, n - 1) \in Nat /\ Before(section, 0) = 0
  <2>1. n - 1 \in 0..Len(section)
    BY BeforeGrows
  <2> QED
    BY <2>1, BeforeGrows, BeforeStep
<1> HIDE DEF found
<1>4. start \in Nat /\ (~section[n].blank => start = Before(section, n - 1))
  BY <1>1, <1>2, <1>3 DEF Offset
<1>5. Spotted(section, done, n) = Append(done, p)
  BY DEF Spotted, found
<1> HIDE DEF start
<1>6. p \in Piece
  BY <1>2, <1>3, <1>4 DEF Piece
<1>7. p.from = Before(section, n - 1) /\ p.length = section[n].len /\ (~p.blank => p.start = p.from)
  BY <1>4
<1> HIDE DEF p
<1> QED
  BY <1>5, <1>6, <1>7

\* The paragraphs of a section, one by one.
LEMMA SpottedFold ==
    ASSUME NEW section \in Section, NEW s \in Seq(1..Len(section))
    PROVE  \E f \in [0..Len(s) -> Seq(Piece)] :
              /\ f[0] = <<>> /\ FoldLeft(LAMBDA done, m : Spotted(section, done, m), <<>>, s) = f[Len(s)]
              /\ \A i \in 1..Len(s) : f[i] = Spotted(section, f[i - 1], s[i])
<1> DEFINE n == Len(s)
           U == Seq(Piece)
           F == [i \in 1..n |-> [a \in U |-> Spotted(section, a, s[i])]]
           Iter(h) == h = [t \in SUBSET (DOMAIN s) |->
                              IF t = {} THEN <<>> ELSE Spotted(section, h[t \ {Max(t)}], s[Max(t)])]
           h == CHOOSE h : Iter(h)
<1>1. n \in Nat /\ DOMAIN s = 1..n
  OBVIOUS
<1>2. \A i \in 1..n : \A a \in U : F[i][a] = Spotted(section, a, s[i])
  OBVIOUS
<1>3. <<>> \in U /\ \A i \in 1..n : \A a \in U : Spotted(section, a, s[i]) \in U
  BY SpottedType
<1> HIDE DEF F, n, U
<1>4. Closed(n, U, <<>>, F)
  BY <1>2, <1>3 DEF Closed
<1>5. PICK g : Folds(g, n, U, <<>>, F)
  BY <1>1, <1>4, FoldExists
<1>6. Iter(g)
  <2>1. ASSUME NEW t \in SUBSET (1..n), t # {}
        PROVE  g[t] = Spotted(section, g[t \ {Max(t)}], s[Max(t)])
    <3>1. Max(t) \in 1..n /\ g[t \ {Max(t)}] \in U
      BY <1>1, <1>5, <2>1, MaxIsLast DEF Folds
    <3> QED
      BY <1>2, <1>5, <2>1, <3>1 DEF Folds
  <2> QED
    BY <1>1, <1>5, <2>1 DEF Folds
<1>7. Iter(h)
  BY <1>6
<1>8. FoldLeft(LAMBDA done, m : Spotted(section, done, m), <<>>, s) = h[1..n]
  BY <1>1 DEF FoldLeft, MapThenFoldSet
<1> HIDE DEF h
<1>9. ASSUME NEW i \in 1..n
      PROVE  h[1..i] = Spotted(section, h[1..(i - 1)], s[i])
  <2>1. /\ 1..i \in SUBSET (DOMAIN s) /\ 1..i # {}
        /\ Max(1..i) = i /\ (1..i) \ {Max(1..i)} = 1..(i - 1)
    BY <1>1, Prefix
  <2> QED
    BY <1>7, <2>1
<1>10. h[{}] = <<>>
  BY <1>7
<1> HIDE DEF Iter
<1>11. Obeys(h, n, U, <<>>, F)
  BY <1>2, <1>9, <1>10 DEF Obeys
<1>12. PICK f : Follows(f, n, U, <<>>, F) /\ f[n] = h[1..n]
  BY <1>1, <1>4, <1>11, FoldPrefixes
<1>13. f \in [0..n -> U] /\ f[0] = <<>> /\ \A i \in 1..n : f[i] = Spotted(section, f[i - 1], s[i])
  BY <1>1, <1>2, <1>12, Between DEF Follows
<1> QED
  BY <1>8, <1>12, <1>13 DEF n, U

\* A paragraph is where its text is, and unless it is blank that is what it says.
LEMMA ParagraphsAre ==
    ASSUME NEW section \in Section
    PROVE  LET ps == Paragraphs(section) IN
           /\ ps \in Seq(Piece) /\ Len(ps) = Len(section)
           /\ \A k \in 1..Len(section) :
                 /\ ps[k].from = Before(section, k - 1) /\ ps[k].length = section[k].len
                 /\ ~ps[k].blank => ps[k].start = ps[k].from
<1> DEFINE N == Len(section)
           ns == [k \in DOMAIN section |-> k]
           Is(p, k) == /\ p.from = Before(section, k - 1) /\ p.length = section[k].len
                       /\ ~p.blank => p.start = p.from
           Done(a, i) == Len(a) = i /\ \A k \in 1..i : Is(a[k], k)
<1>1. N \in Nat /\ DOMAIN section = 1..N
  BY DEF Section
<1>2. ns \in Seq(1..Len(section)) /\ Len(ns) = N /\ \A i \in 1..N : ns[i] = i
  BY <1>1
<1> HIDE DEF ns
<1>3. PICK f \in [0..Len(ns) -> Seq(Piece)] :
         /\ f[0] = <<>> /\ FoldLeft(LAMBDA done, m : Spotted(section, done, m), <<>>, ns) = f[Len(ns)]
         /\ \A i \in 1..Len(ns) : f[i] = Spotted(section, f[i - 1], ns[i])
  BY <1>2, SpottedFold
<1>4. Paragraphs(section) = f[N]
  BY <1>2, <1>3 DEF Paragraphs, FoldLeftDomain, ns
<1>5. f \in [0..N -> Seq(Piece)] /\ \A i \in 1..N : f[i] = Spotted(section, f[i - 1], i)
  BY <1>2, <1>3
<1> DEFINE P == {i \in 0..N : Done(f[i], i)}
<1>6. 0 \in P
  <2>1. 0 \in 0..N /\ f[0] = <<>>
    BY <1>1, <1>3, Between
  <2>2. Len(<<>>) = 0 /\ \A k \in 1..0 : FALSE
    OBVIOUS
  <2> QED
    BY Zenon, <2>1, <2>2
<1>7. ASSUME NEW i \in 1..N, i - 1 \in P PROVE i \in P
  <2>1. i \in 0..N /\ i - 1 \in 0..N /\ i \in Nat /\ i # 0
    BY <1>1, Between
  <2>2. f[i - 1] \in Seq(Piece) /\ f[i] = Spotted(section, f[i - 1], i)
    BY <1>5, <2>1
  <2>3. Len(f[i - 1]) = i - 1 /\ \A k \in 1..(i - 1) : Is(f[i - 1][k], k)
    BY <1>7
  <2> HIDE DEF Is
  <2>4. (i - 1) + 1 = i
    BY <2>1
  <2>5. Len(f[i]) = i /\ Is(f[i][i], i) /\ \A k \in 1..(i - 1) : f[i][k] = f[i - 1][k]
    <3> DEFINE a == f[i - 1]
               b == Spotted(section, a, i)
    <3>1. a \in Seq(Piece) /\ Len(a) = i - 1 /\ i \in 1..Len(section) /\ f[i] = b
      BY <2>2, <2>3 DEF N
    <3> HIDE DEF a, b, N
    <3>2. /\ Len(b) = Len(a) + 1 /\ \A k \in 1..Len(a) : b[k] = a[k]
          /\ LET p == b[Len(a) + 1] IN
             /\ p.from = Before(section, i - 1) /\ p.length = section[i].len
             /\ ~p.blank => p.start = p.from
      BY <3>1, SpottedType DEF b
    <3>3. Len(b) = i /\ Is(b[i], i) /\ \A k \in 1..(i - 1) : b[k] = a[k]
      BY <2>4, <3>1, <3>2 DEF Is
    <3> QED
      BY <3>1, <3>3 DEF a
  <2>6. \A k \in 1..i : k = i \/ k \in 1..(i - 1)
    BY <2>1
  <2>7. \A k \in 1..i : Is(f[i][k], k)
    BY <2>3, <2>5, <2>6
  <2> QED
    BY <2>1, <2>5, <2>7
<1> HIDE DEF P
<1>8. N \in P
  BY <1>1, <1>6, <1>7, Induct
<1>9. Done(f[N], N) /\ f[N] \in Seq(Piece)
  BY <1>1, <1>5, <1>8, Between DEF P
<1> QED
  BY <1>4, <1>9 DEF N

\* A group that a paragraph joins.
LEMMA JoinedType ==
    ASSUME NEW l \in Piece, NEW x \in Nat
    PROVE  LET j == [l EXCEPT !.length = @ + 2 + x] IN
           /\ j \in Piece /\ j.start = l.start /\ j.from = l.from /\ j.blank = l.blank
           /\ j.length = l.length + 2 + x
<1>1. l.length + 2 + x \in Nat
  BY DEF Piece
<1> QED
  BY <1>1 DEF Piece

LEMMA FrontType ==
    ASSUME NEW S, NEW s \in Seq(S), s # <<>>
    PROVE  /\ Front(s) \in Seq(S) /\ Len(Front(s)) = Len(s) - 1 /\ Last(s) \in S
           /\ Len(s) \in Nat \ {0} /\ Last(s) = s[Len(s)]
           /\ \A k \in 1..(Len(s) - 1) : Front(s)[k] = s[k]
<1>1. Len(s) \in Nat \ {0} /\ Len(s) \in 1..Len(s) /\ Len(s) - 1 \in Nat
  BY EmptySeq
<1>2. Last(s) \in S /\ Last(s) = s[Len(s)]
  BY <1>1 DEF Last
<1>3. Front(s) = [k \in 1..(Len(s) - 1) |-> s[k]]
  BY <1>1 DEF Front
<1> QED
  BY <1>1, <1>2, <1>3

LEMMA GroupType ==
    ASSUME NEW groups \in Seq(Piece), NEW p \in Piece
    PROVE  Group(groups, p) \in Seq(Piece)
<1> DEFINE joined == [Last(groups) EXCEPT !.length = @ + 2 + p.length]
<1>1. CASE groups # <<>>
  <2>1. Front(groups) \in Seq(Piece) /\ Last(groups) \in Piece
    BY <1>1, FrontType
  <2>2. joined \in Piece
    BY <2>1, JoinedType DEF Piece
  <2> HIDE DEF joined
  <2>3. Append(Front(groups), joined) \in Seq(Piece) /\ Append(groups, p) \in Seq(Piece)
    BY <2>1, <2>2
  <2> QED
    BY <2>3 DEF Group, joined
<1>2. CASE groups = <<>>
  BY <1>2 DEF Group
<1> QED
  BY <1>1, <1>2

\* The groups of paragraphs, one by one.
LEMMA GroupFold ==
    ASSUME NEW s \in Seq(Piece)
    PROVE  \E f \in [0..Len(s) -> Seq(Piece)] :
              /\ f[0] = <<>> /\ FoldLeft(Group, <<>>, s) = f[Len(s)]
              /\ \A i \in 1..Len(s) : f[i] = Group(f[i - 1], s[i])
<1> DEFINE n == Len(s)
           U == Seq(Piece)
           F == [i \in 1..n |-> [a \in U |-> Group(a, s[i])]]
           Iter(h) == h = [t \in SUBSET (DOMAIN s) |->
                              IF t = {} THEN <<>> ELSE Group(h[t \ {Max(t)}], s[Max(t)])]
           h == CHOOSE h : Iter(h)
<1>1. n \in Nat /\ DOMAIN s = 1..n
  OBVIOUS
<1>2. \A i \in 1..n : \A a \in U : F[i][a] = Group(a, s[i])
  OBVIOUS
<1>3. <<>> \in U /\ \A i \in 1..n : \A a \in U : Group(a, s[i]) \in U
  BY GroupType
<1> HIDE DEF F, n, U
<1>4. Closed(n, U, <<>>, F)
  BY <1>2, <1>3 DEF Closed
<1>5. PICK g : Folds(g, n, U, <<>>, F)
  BY <1>1, <1>4, FoldExists
<1>6. Iter(g)
  <2>1. ASSUME NEW t \in SUBSET (1..n), t # {}
        PROVE  g[t] = Group(g[t \ {Max(t)}], s[Max(t)])
    <3>1. Max(t) \in 1..n /\ g[t \ {Max(t)}] \in U
      BY <1>1, <1>5, <2>1, MaxIsLast DEF Folds
    <3> QED
      BY <1>2, <1>5, <2>1, <3>1 DEF Folds
  <2> QED
    BY <1>1, <1>5, <2>1 DEF Folds
<1>7. Iter(h)
  BY <1>6
<1>8. FoldLeft(Group, <<>>, s) = h[1..n]
  BY <1>1 DEF FoldLeft, MapThenFoldSet
<1> HIDE DEF h
<1>9. ASSUME NEW i \in 1..n
      PROVE  h[1..i] = Group(h[1..(i - 1)], s[i])
  <2>1. /\ 1..i \in SUBSET (DOMAIN s) /\ 1..i # {}
        /\ Max(1..i) = i /\ (1..i) \ {Max(1..i)} = 1..(i - 1)
    BY <1>1, Prefix
  <2> QED
    BY <1>7, <2>1
<1>10. h[{}] = <<>>
  BY <1>7
<1> HIDE DEF Iter
<1>11. Obeys(h, n, U, <<>>, F)
  BY <1>2, <1>9, <1>10 DEF Obeys
<1>12. PICK f : Follows(f, n, U, <<>>, F) /\ f[n] = h[1..n]
  BY <1>1, <1>4, <1>11, FoldPrefixes
<1>13. f \in [0..n -> U] /\ f[0] = <<>> /\ \A i \in 1..n : f[i] = Group(f[i - 1], s[i])
  BY <1>1, <1>2, <1>12, Between DEF Follows
<1> QED
  BY <1>8, <1>12, <1>13 DEF n, U

\* The groups are text up to the paragraph that was grouped last, which is the end
\* of the last of them.
Grouped(groups, end) ==
    /\ \A k \in 1..Len(groups) : groups[k] \in Fit(end)
    /\ groups # <<>> => Last(groups).from + Last(groups).length = end

LEMMA GroupStep ==
    ASSUME NEW groups \in Seq(Piece), NEW p \in Piece, NEW end \in Int, Grouped(groups, end),
           groups # <<>> => p.from = end + 2, ~p.blank => p.start = p.from
    PROVE  Grouped(Group(groups, p), p.from + p.length) /\ Group(groups, p) # <<>>
<1> DEFINE l == Last(groups)
           joined == [l EXCEPT !.length = @ + 2 + p.length]
           new == Group(groups, p)
           to == p.from + p.length
<1>1. p.from \in Nat /\ p.length \in Nat /\ p \in Fit(to)
  BY DEF Piece, Fit
<1>2. CASE groups = <<>>
  <2>1. new = <<p>>
    BY <1>2 DEF Group
  <2> QED
    BY <1>1, <2>1 DEF Grouped, Last
<1>3. CASE groups # <<>>
  <2>1. Len(groups) \in Nat /\ Len(groups) \in 1..Len(groups) /\ p.from = end + 2
    BY <1>3
  <2>2. l \in Fit(end) /\ l.from + l.length = end
    BY <1>3, <2>1 DEF Last, Grouped
  <2>3. \A g \in Fit(end) : g \in Fit(to)
    BY <1>1, <2>1 DEF Fit, Piece
  <2>4. joined \in Fit(to) /\ joined.from + joined.length = to
    <3>1. /\ joined \in Piece /\ joined.start = l.start /\ joined.from = l.from /\ joined.blank = l.blank
          /\ joined.length = l.length + 2 + p.length
      BY <1>1, <2>2, JoinedType DEF Fit
    <3>2. l.from \in Nat /\ l.length \in Nat /\ (~l.blank => l.start = l.from)
      BY <2>2 DEF Fit, Piece
    <3> HIDE DEF joined, l
    <3>3. joined.from + joined.length = to
      <4>1. \A x, y, z, w \in Int : x + y = end /\ z = end + 2 => x + (y + 2 + w) = z + w
        OBVIOUS
      <4>2. l.from \in Int /\ l.length \in Int /\ p.from \in Int /\ p.length \in Int
        BY <1>1, <3>2
      <4>3. l.from + l.length = end /\ p.from = end + 2
        BY <2>1, <2>2
      <4>4. l.from + (l.length + 2 + p.length) = p.from + p.length
        BY <4>1, <4>2, <4>3
      <4>5. joined.from + joined.length = p.from + p.length
        BY <3>1, <4>4
      <4> QED
        BY <4>5
    <3>4. joined.from + joined.length <= to
      BY <1>1, <3>3
    <3> QED
      BY <3>1, <3>2, <3>3, <3>4 DEF Fit
  <2>5. Front(groups) \in Seq(Piece) /\ Len(Front(groups)) = Len(groups) - 1
        /\ \A k \in 1..(Len(groups) - 1) : Front(groups)[k] = groups[k]
    BY <1>3, FrontType
  <2> HIDE DEF joined
  <2>6. joined \in Piece
    BY <2>4 DEF Fit
  <2>7. CASE new = Append(Front(groups), joined)
    <3>1. new \in Seq(Piece) /\ Len(new) = Len(groups) /\ new[Len(groups)] = joined
      BY <2>1, <2>5, <2>6, <2>7
    <3>2. \A k \in 1..(Len(groups) - 1) : new[k] = groups[k]
      BY <2>1, <2>5, <2>6, <2>7
    <3>3. \A k \in 1..Len(groups) : k = Len(groups) \/ k \in 1..(Len(groups) - 1)
      BY <2>1
    <3>4. \A k \in 1..Len(groups) : new[k] \in Fit(to)
      BY <2>3, <2>4, <3>1, <3>2, <3>3 DEF Grouped
    <3>5. new # <<>> /\ Last(new) = joined
      BY <2>1, <3>1 DEF Last
    <3> QED
      BY <2>4, <3>1, <3>4, <3>5 DEF Grouped
  <2>8. CASE new = Append(groups, p)
    <3>1. /\ new \in Seq(Piece) /\ Len(new) = Len(groups) + 1 /\ new[Len(groups) + 1] = p
          /\ \A k \in 1..Len(groups) : new[k] = groups[k]
      BY <2>8
    <3>2. \A k \in 1..(Len(groups) + 1) : k = Len(groups) + 1 \/ k \in 1..Len(groups)
      BY <2>1
    <3>3. \A k \in 1..(Len(groups) + 1) : new[k] \in Fit(to)
      BY <1>1, <2>3, <3>1, <3>2 DEF Grouped
    <3>4. new # <<>> /\ Last(new) = p
      BY <2>1, <3>1 DEF Last
    <3> QED
      BY <3>1, <3>3, <3>4 DEF Grouped
  <2> QED
    BY <1>3, <2>7, <2>8 DEF Group, joined
<1> QED
  BY <1>2, <1>3

\* The groups of a section are text of it.
LEMMA GroupsFit ==
    ASSUME NEW section \in Section
    PROVE  FoldLeft(Group, <<>>, Paragraphs(section)) \in Seq(Fit(LengthOf(section)))
<1> DEFINE N == Len(section)
           ps == Paragraphs(section)
<1>1. /\ ps \in Seq(Piece) /\ Len(ps) = N /\ N \in Nat \ {0}
      /\ \A k \in 1..N : /\ ps[k] \in Piece /\ ps[k].from = Before(section, k - 1) /\ ps[k].length = section[k].len
                         /\ ~ps[k].blank => ps[k].start = ps[k].from
  BY ParagraphsAre, BeforeGrows
<1> HIDE DEF N, ps
<1>2. PICK f \in [0..Len(ps) -> Seq(Piece)] :
         /\ f[0] = <<>> /\ FoldLeft(Group, <<>>, ps) = f[Len(ps)]
         /\ \A i \in 1..Len(ps) : f[i] = Group(f[i - 1], ps[i])
  BY <1>1, GroupFold
<1>3. f \in [0..N -> Seq(Piece)] /\ FoldLeft(Group, <<>>, ps) = f[N] /\ \A i \in 1..N : f[i] = Group(f[i - 1], ps[i])
  BY <1>1, <1>2
<1>4. \A n \in 0..N : Before(section, n) \in Int
  BY BeforeStep DEF N
<1>5. \A n \in 1..N : section[n].len \in Nat /\ Before(section, n) = Before(section, n - 1) + section[n].len + 2
  BY BeforeStep DEF N
<1> DEFINE P == {i \in 0..N : (i = 0 => f[i] = <<>>) /\ Grouped(f[i], Before(section, i) - 2)}
<1>6. 0 \in P
  BY <1>1, <1>2 DEF Grouped
<1>7. ASSUME NEW i \in 1..N, i - 1 \in P PROVE i \in P
  <2>1. i \in 0..N /\ i - 1 \in 0..N /\ i \in Nat /\ i # 0
    BY <1>1, Between
  <2> DEFINE end == Before(section, i - 1) - 2
  <2>2. end \in Int /\ ps[i].from = end + 2 /\ ps[i].from + ps[i].length = Before(section, i) - 2
    <3>1. Before(section, i - 1) \in Int /\ section[i].len \in Nat
      BY <1>4, <1>5, <2>1
    <3>2. /\ Before(section, i) = Before(section, i - 1) + section[i].len + 2
          /\ ps[i].from = Before(section, i - 1) /\ ps[i].length = section[i].len
      BY <1>1, <1>5
    <3>3. \A x \in Int, y \in Nat : x - 2 \in Int /\ x = (x - 2) + 2 /\ x + y = (x + y + 2) - 2
      OBVIOUS
    <3> QED
      BY <3>1, <3>2, <3>3
  <2>3. Grouped(f[i - 1], end) /\ f[i - 1] \in Seq(Piece)
    BY <1>3, <1>7, <2>1
  <2>4. ps[i] \in Piece /\ (~ps[i].blank => ps[i].start = ps[i].from) /\ f[i] = Group(f[i - 1], ps[i])
    BY <1>1, <1>3
  <2> HIDE DEF end
  <2>5. Grouped(f[i], Before(section, i) - 2)
    BY <2>2, <2>3, <2>4, GroupStep
  <2> QED
    BY <2>1, <2>5
<1> HIDE DEF P
<1>8. N \in P
  BY <1>1, <1>6, <1>7, Induct
<1>9. f[N] \in Seq(Piece) /\ \A k \in 1..Len(f[N]) : f[N][k] \in Fit(LengthOf(section))
  BY <1>1, <1>3, <1>8, Between DEF P, Grouped, LengthOf, N
<1>10. f[N] \in Seq(Fit(LengthOf(section)))
  BY <1>9
<1> QED
  BY <1>3, <1>10 DEF ps

\* A slice begins within the group.
LEMMA SliceStarts ==
    ASSUME NEW length \in Nat, NEW M \in Nat \ {0}, NEW n \in 1..((length + M - 1) \div M)
    PROVE  (n - 1) * M \in Nat /\ (n - 1) * M < length
<1> DEFINE q == (length + M - 1) \div M
           r == (length + M - 1) % M
<1>1. q \in Int /\ r \in 0..(M - 1) /\ length + M - 1 = M * q + r
  OBVIOUS
<1>2. n \in 1..q
  OBVIOUS
<1> HIDE DEF q, r
<1>3. \A x, y \in Int : x <= y => x * M <= y * M
  OBVIOUS
<1>4. (n - 1) * M <= (q - 1) * M /\ 0 * M <= (n - 1) * M
  BY <1>1, <1>2, <1>3
<1>5. (q - 1) * M = M * q - M /\ 0 * M = 0 /\ (n - 1) * M \in Int
  BY <1>1, <1>2
<1>6. M * q \in Int /\ (q - 1) * M \in Int
  BY <1>1
<1> QED
  BY <1>1, <1>4, <1>5, <1>6

\* A piece of a part, as one of the whole.
Moved(p, at, l) == [p EXCEPT !.start = @ + at, !.from = @ + at, !.length = l]

LEMMA ShiftType ==
    ASSUME NEW p \in Piece, ~p.blank => p.start = p.from, NEW at \in Nat, NEW l \in Nat
    PROVE  LET q == Moved(p, at, l) IN
           /\ q \in Piece /\ (~q.blank => q.start = q.from)
           /\ q.from = p.from + at /\ q.length = l
<1>1. p.start + at \in Nat /\ p.from + at \in Nat
  BY DEF Piece
<1> QED
  BY <1>1 DEF Piece, Moved

LEMMA SlicesType ==
    ASSUME MaxChars \in Nat \ {0}, NEW bound \in Int, NEW p \in Fit(bound)
    PROVE  Slices(p) \in Seq(Quote(bound))
<1>1. p \in Piece /\ (~p.blank => p.start = p.from) /\ p.from + p.length <= bound
  BY DEF Fit
<1>2. p.from \in Nat /\ p.length \in Nat
  BY <1>1 DEF Piece
<1>3. CASE p.length <= MaxChars
  <2>1. p \in Quote(bound)
    BY <1>3 DEF Quote
  <2> QED
    BY <1>3, <2>1 DEF Slices
<1>4. CASE ~(p.length <= MaxChars)
  <2> DEFINE count == (p.length + MaxChars - 1) \div MaxChars
             at(n) == (n - 1) * MaxChars
             size(n) == IF p.length - at(n) < MaxChars THEN p.length - at(n) ELSE MaxChars
             slice(n) == Moved(p, at(n), size(n))
  <2>1. count \in Nat
    BY <1>2
  <2>2. Slices(p) = [n \in 1..count |-> slice(n)]
    BY <1>4 DEF Slices, Moved
  <2>3. ASSUME NEW n \in 1..count PROVE slice(n) \in Quote(bound)
    <3>1. at(n) \in Nat /\ at(n) < p.length
      BY <1>2, <2>3, SliceStarts
    <3> HIDE DEF at
    <3>2. size(n) \in Nat /\ size(n) <= MaxChars /\ size(n) <= p.length - at(n)
      BY <1>2, <3>1
    <3> HIDE DEF size
    <3>3. /\ slice(n) \in Piece /\ (~slice(n).blank => slice(n).start = slice(n).from)
          /\ slice(n).from = p.from + at(n) /\ slice(n).length = size(n)
      BY <1>1, <3>1, <3>2, ShiftType
    <3> HIDE DEF slice
    <3>4. slice(n).from + slice(n).length <= bound /\ slice(n).length <= MaxChars
      BY <1>1, <1>2, <3>1, <3>2, <3>3
    <3> QED
      BY <3>3, <3>4 DEF Quote, Fit
  <2> HIDE DEF count, slice
  <2> QED
    BY <2>1, <2>2, <2>3
<1> QED
  BY <1>3, <1>4

\* The slices of the groups, one by one.
LEMMA SliceFold ==
    ASSUME MaxChars \in Nat \ {0}, NEW bound \in Int, NEW s \in Seq(Fit(bound))
    PROVE  FoldLeft(LAMBDA pieces, p : pieces \o Slices(p), <<>>, s) \in Seq(Quote(bound))
<1> DEFINE n == Len(s)
           U == Seq(Quote(bound))
           F == [i \in 1..n |-> [a \in U |-> a \o Slices(s[i])]]
           Iter(h) == h = [t \in SUBSET (DOMAIN s) |->
                              IF t = {} THEN <<>> ELSE h[t \ {Max(t)}] \o Slices(s[Max(t)])]
           h == CHOOSE h : Iter(h)
<1>1. n \in Nat /\ DOMAIN s = 1..n
  OBVIOUS
<1>2. \A i \in 1..n : \A a \in U : F[i][a] = a \o Slices(s[i])
  OBVIOUS
<1>3. <<>> \in U /\ \A i \in 1..n : \A a \in U : a \o Slices(s[i]) \in U
  BY SlicesType, ConcatProperties
<1> HIDE DEF F, n, U
<1>4. Closed(n, U, <<>>, F)
  BY <1>2, <1>3 DEF Closed
<1>5. PICK g : Folds(g, n, U, <<>>, F)
  BY <1>1, <1>4, FoldExists
<1>6. Iter(g)
  <2>1. ASSUME NEW t \in SUBSET (1..n), t # {}
        PROVE  g[t] = g[t \ {Max(t)}] \o Slices(s[Max(t)])
    <3>1. Max(t) \in 1..n /\ g[t \ {Max(t)}] \in U
      BY <1>1, <1>5, <2>1, MaxIsLast DEF Folds
    <3> QED
      BY <1>2, <1>5, <2>1, <3>1 DEF Folds
  <2> QED
    BY <1>1, <1>5, <2>1 DEF Folds
<1>7. Iter(h)
  BY <1>6
<1>8. FoldLeft(LAMBDA pieces, p : pieces \o Slices(p), <<>>, s) = h[1..n]
  BY <1>1 DEF FoldLeft, MapThenFoldSet
<1> HIDE DEF h
<1>9. ASSUME NEW i \in 1..n
      PROVE  h[1..i] = h[1..(i - 1)] \o Slices(s[i])
  <2>1. /\ 1..i \in SUBSET (DOMAIN s) /\ 1..i # {}
        /\ Max(1..i) = i /\ (1..i) \ {Max(1..i)} = 1..(i - 1)
    BY <1>1, Prefix
  <2> QED
    BY <1>7, <2>1
<1>10. h[{}] = <<>>
  BY <1>7
<1> HIDE DEF Iter
<1>11. Obeys(h, n, U, <<>>, F)
  BY <1>2, <1>9, <1>10 DEF Obeys
<1>12. PICK f : Follows(f, n, U, <<>>, F) /\ f[n] = h[1..n]
  BY <1>1, <1>4, <1>11, FoldPrefixes
<1>13. f[n] \in U
  BY <1>1, <1>12, Between DEF Follows
<1> QED
  BY <1>8, <1>12, <1>13 DEF U

LEMMA SplitType ==
    ASSUME MaxChars \in Nat \ {0}, NEW section \in Section
    PROVE  SplitOversized(section) \in Seq(Quote(LengthOf(section)))
<1>1. LengthOf(section) \in Nat
  BY BeforeGrows
<1>2. CASE LengthOf(section) <= MaxChars
  <2> DEFINE p == [start |-> 0, from |-> 0, length |-> LengthOf(section), blank |-> section[1].blank]
  <2>1. section[1] \in Paragraph
    <3>1. 1 \in 1..Len(section) /\ section \in Seq(Paragraph)
      BY BeforeGrows DEF Section
    <3> QED
      BY <3>1
  <2>2. p \in Quote(LengthOf(section))
    BY <1>1, <1>2, <2>1 DEF Quote, Fit, Piece, Paragraph
  <2>3. SplitOversized(section) = <<p>>
    BY <1>2 DEF SplitOversized
  <2> HIDE DEF p
  <2> QED
    BY <2>2, <2>3
<1>3. CASE ~(LengthOf(section) <= MaxChars)
  <2> DEFINE s == FoldLeft(Group, <<>>, Paragraphs(section))
             bound == LengthOf(section)
  <2>1. s \in Seq(Fit(bound)) /\ bound \in Int
    BY <1>1, GroupsFit
  <2>2. SplitOversized(section) = FoldLeft(LAMBDA pieces, p : pieces \o Slices(p), <<>>, s)
    BY <1>3 DEF SplitOversized
  <2> HIDE DEF s, bound
  <2> QED
    BY <2>1, <2>2, SliceFold DEF bound
<1> QED
  BY <1>2, <1>3

LEMMA SlicedType ==
    ASSUME MaxChars \in Nat \ {0}, NEW text \in Text, NEW n \in 1..Len(text)
    PROVE  Sliced(text, n) \in Seq(Quote(TextBefore(text, Len(text))))
<1> DEFINE pieces == SplitOversized(text[n])
           at == TextBefore(text, n - 1)
           b == LengthOf(text[n])
           c == TextBefore(text, Len(text))
           shifted(p) == [p EXCEPT !.start = @ + at, !.from = @ + at]
<1>1. n - 1 \in 0..Len(text) /\ Len(text) \in 0..Len(text) /\ text[n] \in Section
  BY DEF Text
<1>2. pieces \in Seq(Quote(b))
  BY <1>1, SplitType
<1>3. at \in Nat /\ b \in Nat /\ c \in Nat /\ at + b <= c
  BY <1>1, TextGrows, BeforeGrows
<1>4. Sliced(text, n) = <<>> \/ Sliced(text, n) = [k \in DOMAIN pieces |-> shifted(pieces[k])]
  BY DEF Sliced
<1> HIDE DEF pieces, at, b, c
<1>5. ASSUME NEW p \in Quote(b) PROVE shifted(p) \in Quote(c)
  <2>1. /\ p \in Piece /\ (~p.blank => p.start = p.from)
        /\ p.from + p.length <= b /\ p.length <= MaxChars
    BY DEF Quote, Fit
  <2>2. p.from \in Nat /\ p.length \in Nat
    BY <2>1 DEF Piece
  <2>3. shifted(p) = Moved(p, at, p.length)
    BY <2>1 DEF Piece, Moved
  <2> HIDE DEF shifted
  <2>4. /\ shifted(p) \in Piece /\ (~shifted(p).blank => shifted(p).start = shifted(p).from)
        /\ shifted(p).from = p.from + at /\ shifted(p).length = p.length
    <3> DEFINE q == Moved(p, at, p.length)
    <3>1. /\ q \in Piece /\ (~q.blank => q.start = q.from)
          /\ q.from = p.from + at /\ q.length = p.length
      <4> DEFINE l == p.length
      <4>1. l \in Nat /\ at \in Nat /\ q = Moved(p, at, l)
        BY <1>3, <2>2
      <4> HIDE DEF q, l
      <4>2. LET x == Moved(p, at, l) IN
            /\ x \in Piece /\ (~x.blank => x.start = x.from) /\ x.from = p.from + at /\ x.length = l
        BY <2>1, <4>1, ShiftType
      <4> QED
        BY <4>1, <4>2 DEF l
    <3> HIDE DEF q
    <3>2. shifted(p) = q
      BY <2>3 DEF q
    <3> QED
      BY <3>1, <3>2
  <2>5. shifted(p).from + shifted(p).length <= c /\ shifted(p).length <= MaxChars
    BY <1>3, <2>1, <2>2, <2>4
  <2> QED
    BY <2>4, <2>5 DEF Quote, Fit
<1> HIDE DEF shifted
<1>6. DOMAIN pieces = 1..Len(pieces) /\ Len(pieces) \in Nat /\ \A k \in DOMAIN pieces : pieces[k] \in Quote(b)
  BY <1>2
<1>7. [k \in DOMAIN pieces |-> shifted(pieces[k])] \in Seq(Quote(c))
  BY <1>5, <1>6
<1>8. <<>> \in Seq(Quote(c))
  OBVIOUS
<1>9. Sliced(text, n) \in Seq(Quote(c))
  BY Zenon, <1>4, <1>7, <1>8
<1> QED
  BY <1>9 DEF c

\* The pieces of the sections, one by one.
LEMMA ChunkFold ==
    ASSUME MaxChars \in Nat \ {0}, NEW text \in Text, NEW s \in Seq(1..Len(text))
    PROVE  FoldLeft(LAMBDA pieces, m : pieces \o Sliced(text, m), <<>>, s) \in Seq(Quote(TextBefore(text, Len(text))))
<1> DEFINE n == Len(s)
           U == Seq(Quote(TextBefore(text, Len(text))))
           F == [i \in 1..n |-> [a \in U |-> a \o Sliced(text, s[i])]]
           Iter(h) == h = [t \in SUBSET (DOMAIN s) |->
                              IF t = {} THEN <<>> ELSE h[t \ {Max(t)}] \o Sliced(text, s[Max(t)])]
           h == CHOOSE h : Iter(h)
<1>1. n \in Nat /\ DOMAIN s = 1..n
  OBVIOUS
<1>2. \A i \in 1..n : \A a \in U : F[i][a] = a \o Sliced(text, s[i])
  OBVIOUS
<1>3. <<>> \in U /\ \A i \in 1..n : \A a \in U : a \o Sliced(text, s[i]) \in U
  BY SlicedType, ConcatProperties
<1> HIDE DEF F, n, U
<1>4. Closed(n, U, <<>>, F)
  BY <1>2, <1>3 DEF Closed
<1>5. PICK g : Folds(g, n, U, <<>>, F)
  BY <1>1, <1>4, FoldExists
<1>6. Iter(g)
  <2>1. ASSUME NEW t \in SUBSET (1..n), t # {}
        PROVE  g[t] = g[t \ {Max(t)}] \o Sliced(text, s[Max(t)])
    <3>1. Max(t) \in 1..n /\ g[t \ {Max(t)}] \in U
      BY <1>1, <1>5, <2>1, MaxIsLast DEF Folds
    <3> QED
      BY <1>2, <1>5, <2>1, <3>1 DEF Folds
  <2> QED
    BY <1>1, <1>5, <2>1 DEF Folds
<1>7. Iter(h)
  BY <1>6
<1>8. FoldLeft(LAMBDA pieces, m : pieces \o Sliced(text, m), <<>>, s) = h[1..n]
  BY <1>1 DEF FoldLeft, MapThenFoldSet
<1> HIDE DEF h
<1>9. ASSUME NEW i \in 1..n
      PROVE  h[1..i] = h[1..(i - 1)] \o Sliced(text, s[i])
  <2>1. /\ 1..i \in SUBSET (DOMAIN s) /\ 1..i # {}
        /\ Max(1..i) = i /\ (1..i) \ {Max(1..i)} = 1..(i - 1)
    BY <1>1, Prefix
  <2> QED
    BY <1>7, <2>1
<1>10. h[{}] = <<>>
  BY <1>7
<1> HIDE DEF Iter
<1>11. Obeys(h, n, U, <<>>, F)
  BY <1>2, <1>9, <1>10 DEF Obeys
<1>12. PICK f : Follows(f, n, U, <<>>, F) /\ f[n] = h[1..n]
  BY <1>1, <1>4, <1>11, FoldPrefixes
<1>13. f[n] \in U
  BY <1>1, <1>12, Between DEF Follows
<1> QED
  BY <1>8, <1>12, <1>13 DEF U

\* The sections of a chat message, made one, are as long as both.
LEMMA ContinuedType ==
    ASSUME NEW w \in Section, NEW s \in Section
    PROVE  /\ Continued(w, s) \in Section
           /\ LengthOf(Continued(w, s)) = LengthOf(w) + LengthOf(s)
<1> DEFINE A == Len(w)
           B == Len(s)
           mid == [len |-> Last(w).len + s[1].len, blank |-> Last(w).blank /\ s[1].blank]
           c == Continued(w, s)
           N == A + B - 1
<1>1. /\ w \in Seq(Paragraph) /\ s \in Seq(Paragraph) /\ A \in Nat \ {0} /\ B \in Nat \ {0} /\ N \in Nat \ {0}
      /\ w # <<>> /\ s # <<>> /\ N = A + B - 1
  BY BeforeGrows DEF Section
<1>2. /\ Front(w) \in Seq(Paragraph) /\ Len(Front(w)) = A - 1 /\ Last(w) = w[A] /\ Last(w) \in Paragraph
      /\ \A k \in 1..(A - 1) : Front(w)[k] = w[k]
  BY <1>1, FrontType
<1>3. /\ Tail(s) \in Seq(Paragraph) /\ Len(Tail(s)) = B - 1
      /\ \A k \in 1..(B - 1) : Tail(s)[k] = s[k + 1]
  BY <1>1
<1>4. mid \in Paragraph /\ mid.len = w[A].len + s[1].len
  <2>1. s[1] \in Paragraph
    BY <1>1
  <2> QED
    BY <1>2, <2>1 DEF Paragraph
<1>5. c = Front(w) \o <<mid>> \o Tail(s)
  BY DEF Continued
<1> HIDE DEF A, B, N, mid, c
<1>6. /\ c \in Seq(Paragraph) /\ Len(c) = N /\ c[A] = mid
      /\ \A k \in 1..(A - 1) : c[k] = w[k]
      /\ \A k \in 1..(B - 1) : c[A + k] = s[k + 1]
  <2> DEFINE u == Front(w) \o <<mid>>
  <2>1. u \in Seq(Paragraph) /\ Len(u) = A /\ u[A] = mid /\ \A k \in 1..(A - 1) : u[k] = w[k]
    <3> DEFINE v == Front(w)
    <3>1. v \in Seq(Paragraph) /\ Len(v) = A - 1 /\ A - 1 + 1 = A /\ u = v \o <<mid>>
      BY <1>1, <1>2
    <3> HIDE DEF v, u
    <3>2. u \in Seq(Paragraph) /\ Len(u) = A
      BY <1>1, <1>4, <3>1
    <3>3. u[A] = mid
      BY <1>1, <1>4, <3>1
    <3>4. \A k \in 1..(A - 1) : u[k] = v[k]
      BY <1>1, <1>4, <3>1
    <3> QED
      BY <1>2, <3>2, <3>3, <3>4 DEF v
  <2>2. c = u \o Tail(s)
    BY <1>5
  <2> HIDE DEF u
  <2> DEFINE t == Tail(s)
  <2>3. t \in Seq(Paragraph) /\ Len(t) = B - 1
    BY <1>3
  <2>4. c = u \o t
    BY <2>2
  <2> HIDE DEF t
  <2>5. /\ c \in Seq(Paragraph) /\ Len(c) = A + (B - 1)
        /\ \A k \in 1..(A + (B - 1)) : c[k] = IF k <= A THEN u[k] ELSE t[k - A]
    <3>1. /\ u \o t \in Seq(Paragraph) /\ Len(u \o t) = Len(u) + Len(t)
          /\ \A k \in 1..(Len(u) + Len(t)) : (u \o t)[k] = IF k <= Len(u) THEN u[k] ELSE t[k - Len(u)]
      BY <2>1, <2>3, ConcatProperties
    <3> QED
      BY <2>1, <2>3, <2>4, <3>1
  <2>6. A + (B - 1) = N /\ A \in 1..A /\ (\A k \in 1..A : k \in 1..(A + (B - 1)) /\ k <= A)
    BY <1>1
  <2>7. \A k \in 1..(B - 1) : A + k \in 1..(A + (B - 1)) /\ ~(A + k <= A) /\ (A + k) - A = k
    BY <1>1
  <2>8. \A k \in 1..A : c[k] = u[k]
    BY <2>5, <2>6
  <2>9. \A k \in 1..(B - 1) : c[A + k] = t[k]
    BY <2>5, <2>7
  <2>10. \A k \in 1..(A - 1) : k \in 1..A
    BY <1>1
  <2> QED
    BY <1>3, <2>1, <2>5, <2>6, <2>8, <2>9, <2>10 DEF t
<1>7. c \in Section
  BY <1>1, <1>6 DEF Section
<1> DEFINE bc == [n \in 0..N |-> Before(c, n)]
           bw == [n \in 0..A |-> Before(w, n)]
           bs == [n \in 0..B |-> Before(s, n)]
<1>8. /\ bc \in [0..N -> Int] /\ bc[0] = 0
      /\ \A n \in 1..N : c[n].len \in Int /\ bc[n] = bc[n - 1] + c[n].len + 2
  <2>1. 0 \in 0..N /\ \A n \in 1..N : n \in 0..N /\ n - 1 \in 0..N
    BY <1>1
  <2> QED
    BY <1>6, <1>7, <2>1, BeforeStep
<1>9. /\ bw \in [0..A -> Int] /\ bw[0] = 0
      /\ \A n \in 1..A : w[n].len \in Int /\ bw[n] = bw[n - 1] + w[n].len + 2
  <2>1. 0 \in 0..A /\ \A n \in 1..A : n \in 0..A /\ n - 1 \in 0..A
    BY <1>1
  <2> QED
    BY <2>1, BeforeStep DEF A
<1>10. /\ bs \in [0..B -> Int] /\ bs[0] = 0
       /\ \A n \in 1..B : s[n].len \in Int /\ bs[n] = bs[n - 1] + s[n].len + 2
  <2>1. 0 \in 0..B /\ \A n \in 1..B : n \in 0..B /\ n - 1 \in 0..B
    BY <1>1
  <2> QED
    BY <2>1, BeforeStep DEF B
<1>11. /\ LengthOf(c) = bc[N] - 2 /\ LengthOf(w) = bw[A] - 2 /\ LengthOf(s) = bs[B] - 2
       /\ N \in 0..N /\ A \in 0..A /\ B \in 0..B
  BY <1>1, <1>6 DEF LengthOf, A, B
<1> HIDE DEF bc, bw, bs
<1> DEFINE P == {n \in 0..N : /\ n < A => bc[n] = bw[n]
                              /\ n >= A => bc[n] = bw[A] - 2 + bs[n - A + 1]}
<1>12. 0 \in P
  BY <1>1, <1>8, <1>9
<1>13. ASSUME NEW n \in 1..N, n - 1 \in P PROVE n \in P
  <2>1. n \in 0..N /\ n \in Nat /\ bc[n] = bc[n - 1] + c[n].len + 2
    <3>1. n \in 0..N /\ n \in Nat
      BY <1>1
    <3> QED
      BY <1>8, <3>1
  <2>2. CASE n < A
    <3>1. n \in 1..A /\ n \in 1..(A - 1) /\ n - 1 < A
      BY <1>1, <2>1, <2>2
    <3>2. bc[n - 1] = bw[n - 1] /\ c[n] = w[n]
      BY <1>6, <1>13, <3>1
    <3>3. bw[n] = bw[n - 1] + w[n].len + 2
      BY <1>9, <3>1
    <3>4. bc[n] = bw[n] /\ ~(n >= A)
      BY <1>1, <2>1, <2>2, <3>2, <3>3
    <3> QED
      BY <2>1, <3>4
  <2>3. CASE n = A
    <3>1. A \in 1..A /\ 1 \in 1..B /\ n - 1 < A /\ n - A + 1 = 1
      BY <1>1, <2>3
    <3>2. bc[A - 1] = bw[A - 1] /\ c[A].len = w[A].len + s[1].len
      BY <1>4, <1>6, <1>13, <2>3, <3>1
    <3>3. bw[A] = bw[A - 1] + w[A].len + 2 /\ bs[1] = s[1].len + 2 /\ w[A].len \in Int /\ s[1].len \in Int
      <4>1. 1 - 1 = 0 /\ \A x \in Int : 0 + x + 2 = x + 2
        OBVIOUS
      <4>2. bw[A] = bw[A - 1] + w[A].len + 2 /\ w[A].len \in Int
        BY <1>9, <3>1
      <4>3. bs[1] = bs[1 - 1] + s[1].len + 2 /\ s[1].len \in Int
        BY <1>10, <3>1
      <4> QED
        BY <1>10, <4>1, <4>2, <4>3
    <3>4. bw[A - 1] \in Int
      BY <1>1, <1>9
    <3>5. bc[A] = bw[A - 1] + (w[A].len + s[1].len) + 2
      BY <2>1, <2>3, <3>2
    <3>6. bc[A] = bw[A] - 2 + bs[1]
      BY <3>3, <3>4, <3>5
    <3> QED
      BY <2>1, <2>3, <3>1, <3>6
  <2>4. CASE n > A
    <3>1. n - A \in 1..(B - 1) /\ n - A + 1 \in 1..B /\ A + (n - A) = n /\ n - 1 >= A
      BY <1>1, <2>1, <2>4
    <3>2. c[n] = s[n - A + 1] /\ bc[n - 1] = bw[A] - 2 + bs[n - A]
      <4>1. (n - 1) - A + 1 = n - A
        BY <1>1, <2>1
      <4> QED
        BY <1>6, <1>13, <3>1, <4>1
    <3>3. bs[n - A + 1] = bs[n - A] + s[n - A + 1].len + 2 /\ s[n - A + 1].len \in Int
      <4>1. (n - A + 1) - 1 = n - A
        BY <1>1, <2>1
      <4> QED
        BY <1>10, <3>1, <4>1
    <3>4. bw[A] \in Int /\ bs[n - A] \in Int
      BY <1>1, <1>9, <1>10, <3>1
    <3>5. bc[n] = bw[A] - 2 + bs[n - A + 1]
      BY <2>1, <3>2, <3>3, <3>4
    <3> QED
      BY <1>1, <2>1, <2>4, <3>5
  <2> QED
    BY <1>1, <2>1, <2>2, <2>3, <2>4
<1> HIDE DEF P
<1>14. N \in P
  BY <1>1, <1>12, <1>13, Induct
<1>15. N >= A /\ N - A + 1 = B /\ bw[A] \in Int /\ bs[B] \in Int
  BY <1>1, <1>9, <1>10, <1>11
<1>16. bc[N] = bw[A] - 2 + bs[B]
  BY <1>14, <1>15 DEF P
<1>17. LengthOf(c) = LengthOf(w) + LengthOf(s)
  <2>1. LengthOf(c) = (bw[A] - 2 + bs[B]) - 2 /\ LengthOf(w) = bw[A] - 2 /\ LengthOf(s) = bs[B] - 2
    BY <1>11, <1>16
  <2>2. \A x, y \in Int : (x - 2 + y) - 2 = (x - 2) + (y - 2)
    OBVIOUS
  <2> QED
    BY <1>15, <2>1, <2>2
<1> QED
  BY <1>7, <1>17 DEF c

\* The sections of a message, one by one.
LEMMA WholeFold ==
    ASSUME NEW b \in Section, NEW s \in Seq(Section)
    PROVE  \E f \in [0..Len(s) -> Section] :
              /\ f[0] = b /\ FoldLeft(Continued, b, s) = f[Len(s)]
              /\ \A i \in 1..Len(s) : f[i] = Continued(f[i - 1], s[i])
<1> DEFINE n == Len(s)
           U == Section
           F == [i \in 1..n |-> [a \in U |-> Continued(a, s[i])]]
           Iter(h) == h = [t \in SUBSET (DOMAIN s) |->
                              IF t = {} THEN b ELSE Continued(h[t \ {Max(t)}], s[Max(t)])]
           h == CHOOSE h : Iter(h)
<1>1. n \in Nat /\ DOMAIN s = 1..n
  OBVIOUS
<1>2. \A i \in 1..n : \A a \in U : F[i][a] = Continued(a, s[i])
  OBVIOUS
<1>3. b \in U /\ \A i \in 1..n : \A a \in U : Continued(a, s[i]) \in U
  BY ContinuedType
<1> HIDE DEF F, n, U
<1>4. Closed(n, U, b, F)
  BY <1>2, <1>3 DEF Closed
<1>5. PICK g : Folds(g, n, U, b, F)
  BY <1>1, <1>4, FoldExists
<1>6. Iter(g)
  <2>1. ASSUME NEW t \in SUBSET (1..n), t # {}
        PROVE  g[t] = Continued(g[t \ {Max(t)}], s[Max(t)])
    <3>1. Max(t) \in 1..n /\ g[t \ {Max(t)}] \in U
      BY <1>1, <1>5, <2>1, MaxIsLast DEF Folds
    <3> QED
      BY <1>2, <1>5, <2>1, <3>1 DEF Folds
  <2> QED
    BY <1>1, <1>5, <2>1 DEF Folds
<1>7. Iter(h)
  BY <1>6
<1>8. FoldLeft(Continued, b, s) = h[1..n]
  BY <1>1 DEF FoldLeft, MapThenFoldSet
<1> HIDE DEF h
<1>9. ASSUME NEW i \in 1..n
      PROVE  h[1..i] = Continued(h[1..(i - 1)], s[i])
  <2>1. /\ 1..i \in SUBSET (DOMAIN s) /\ 1..i # {}
        /\ Max(1..i) = i /\ (1..i) \ {Max(1..i)} = 1..(i - 1)
    BY <1>1, Prefix
  <2> QED
    BY <1>7, <2>1
<1>10. h[{}] = b
  BY <1>7
<1> HIDE DEF Iter
<1>11. Obeys(h, n, U, b, F)
  BY <1>2, <1>9, <1>10 DEF Obeys
<1>12. PICK f : Follows(f, n, U, b, F) /\ f[n] = h[1..n]
  BY <1>1, <1>4, <1>11, FoldPrefixes
<1>13. f \in [0..n -> U] /\ f[0] = b /\ \A i \in 1..n : f[i] = Continued(f[i - 1], s[i])
  BY <1>1, <1>2, <1>12, Between DEF Follows
<1> QED
  BY <1>8, <1>12, <1>13 DEF n, U

LEMMA WholeType ==
    ASSUME NEW text \in Text
    PROVE  Whole(text) \in Section /\ LengthOf(Whole(text)) = TextBefore(text, Len(text))
<1> DEFINE N == Len(text) - 1
           s == Tail(text)
<1>1. /\ Len(text) = N + 1 /\ N \in Nat /\ text[1] \in Section
      /\ s \in Seq(Section) /\ Len(s) = N /\ \A k \in 1..N : s[k] = text[k + 1]
  BY DEF Text
<1>2. PICK f \in [0..Len(s) -> Section] :
         /\ f[0] = text[1] /\ FoldLeft(Continued, text[1], s) = f[Len(s)]
         /\ \A i \in 1..Len(s) : f[i] = Continued(f[i - 1], s[i])
  BY <1>1, WholeFold
<1>3. Whole(text) = f[N]
  BY <1>1, <1>2 DEF Whole
<1> HIDE DEF N, s
<1>4. f \in [0..N -> Section] /\ \A i \in 1..N : f[i] = Continued(f[i - 1], text[i + 1])
  BY <1>1, <1>2
<1>5. \A i \in 0..N : LengthOf(f[i]) \in Int
  BY <1>4, BeforeGrows
<1> DEFINE P == {i \in 0..N : LengthOf(f[i]) = TextBefore(text, i + 1)}
<1>6. 0 \in P
  <2>1. 0 \in 0..N /\ 1 \in 1..Len(text) /\ 0 + 1 = 1 /\ 1 - 1 = 0
    BY <1>1
  <2>2. /\ TextBefore(text, 1) = TextBefore(text, 0) + LengthOf(text[1])
        /\ TextBefore(text, 0) = 0 /\ LengthOf(text[1]) \in Nat
    BY <2>1, TextStep
  <2> QED
    BY <1>2, <2>1, <2>2
<1>7. ASSUME NEW i \in 1..N, i - 1 \in P PROVE i \in P
  <2>1. i \in 0..N /\ i - 1 \in 0..N /\ i + 1 \in 1..Len(text) /\ (i + 1) - 1 = i /\ (i - 1) + 1 = i
    BY <1>1
  <2>2. text[i + 1] \in Section /\ f[i - 1] \in Section /\ f[i] = Continued(f[i - 1], text[i + 1])
    <3>1. \A k \in 1..Len(text) : text[k] \in Section
      BY DEF Text
    <3> QED
      BY <1>4, <2>1, <3>1
  <2>3. LengthOf(f[i]) = LengthOf(f[i - 1]) + LengthOf(text[i + 1])
    BY <2>2, ContinuedType
  <2>4. TextBefore(text, i + 1) = TextBefore(text, i) + LengthOf(text[i + 1])
    BY <2>1, TextStep
  <2>5. LengthOf(f[i - 1]) = TextBefore(text, i)
    BY <1>7, <2>1
  <2> QED
    BY <2>1, <2>3, <2>4, <2>5
<1> HIDE DEF P
<1>8. N \in P
  BY <1>1, <1>6, <1>7, Induct
<1> QED
  BY <1>1, <1>3, <1>4, <1>8, Between DEF P

\* The pieces of a document are text of it, at the offsets they are cited with.
LEMMA ChunkDocumentQuotes ==
    ASSUME MaxChars \in Nat \ {0}, NEW text \in Text, NEW type
    PROVE  ChunkDocument(text, type) \in Seq(Quote(TextBefore(text, Len(text))))
<1> DEFINE sections == IF type = "chat" THEN <<Whole(text)>> ELSE text
           N == Len(sections)
           ns == [k \in DOMAIN sections |-> k]
<1>1. sections \in Text /\ TextBefore(sections, N) = TextBefore(text, Len(text))
  <2> DEFINE w == Whole(text)
             one == <<w>>
  <2>1. w \in Section /\ LengthOf(w) = TextBefore(text, Len(text)) /\ LengthOf(w) \in Nat
    BY WholeType, BeforeGrows
  <2> HIDE DEF w
  <2>2. one \in Text /\ Len(one) = 1 /\ one[1] = w
    BY <2>1 DEF Text
  <2> HIDE DEF one
  <2>3. TextBefore(one, 1) = TextBefore(one, 0) + LengthOf(w) /\ TextBefore(one, 0) = 0
    <3>1. 1 \in 1..Len(one) /\ 1 - 1 = 0
      BY <2>2
    <3> QED
      BY <2>2, <3>1, TextStep
  <2>4. TextBefore(one, Len(one)) = TextBefore(text, Len(text))
    BY <2>1, <2>2, <2>3
  <2>5. sections = one \/ sections = text
    BY DEF one, w
  <2> QED
    BY <2>2, <2>4, <2>5
<1>2. ChunkDocument(text, type) = FoldLeftDomain(LAMBDA pieces, m : pieces \o Sliced(sections, m), <<>>, sections)
  BY DEF ChunkDocument
<1> HIDE DEF sections
<1>3. N \in Nat /\ DOMAIN sections = 1..N
  BY <1>1 DEF Text
<1>4. ns \in Seq(1..Len(sections)) /\ Len(ns) = N
  BY <1>3
<1>5. ChunkDocument(text, type) = FoldLeft(LAMBDA pieces, m : pieces \o Sliced(sections, m), <<>>, ns)
  BY <1>2 DEF FoldLeftDomain
<1> HIDE DEF ns
<1>6. ChunkDocument(text, type) \in Seq(Quote(TextBefore(sections, N)))
  BY <1>1, <1>4, <1>5, ChunkFold
<1> QED
  BY <1>1, <1>6

-----------------------------------------------------------------------------
(* What reciprocal_rank_fusion returns.                                     *)

LEMMA MetType ==
    ASSUME NEW S, NEW done \in Seq(S), NEW c \in S
    PROVE  Met(done, c) \in Seq(S)
BY DEF Met

\* What a list names, after what was met before it.
LEMMA MetFold ==
    ASSUME NEW S, NEW b \in Seq(S), NEW s \in Seq(S)
    PROVE  FoldLeft(Met, b, s) \in Seq(S)
<1> DEFINE n == Len(s)
           U == Seq(S)
           F == [i \in 1..n |-> [a \in U |-> Met(a, s[i])]]
           Iter(h) == h = [t \in SUBSET (DOMAIN s) |->
                              IF t = {} THEN b ELSE Met(h[t \ {Max(t)}], s[Max(t)])]
           h == CHOOSE h : Iter(h)
<1>1. n \in Nat /\ DOMAIN s = 1..n
  OBVIOUS
<1>2. \A i \in 1..n : \A a \in U : F[i][a] = Met(a, s[i])
  OBVIOUS
<1>3. b \in U /\ \A i \in 1..n : \A a \in U : Met(a, s[i]) \in U
  BY MetType
<1> HIDE DEF F, n, U
<1>4. Closed(n, U, b, F)
  BY <1>2, <1>3 DEF Closed
<1>5. PICK g : Folds(g, n, U, b, F)
  BY <1>1, <1>4, FoldExists
<1>6. Iter(g)
  <2>1. ASSUME NEW t \in SUBSET (1..n), t # {}
        PROVE  g[t] = Met(g[t \ {Max(t)}], s[Max(t)])
    <3>1. Max(t) \in 1..n /\ g[t \ {Max(t)}] \in U
      BY <1>1, <1>5, <2>1, MaxIsLast DEF Folds
    <3> QED
      BY <1>2, <1>5, <2>1, <3>1 DEF Folds
  <2> QED
    BY <1>1, <1>5, <2>1 DEF Folds
<1>7. Iter(h)
  BY <1>6
<1>8. FoldLeft(Met, b, s) = h[1..n]
  BY <1>1 DEF FoldLeft, MapThenFoldSet
<1> HIDE DEF h
<1>9. ASSUME NEW i \in 1..n
      PROVE  h[1..i] = Met(h[1..(i - 1)], s[i])
  <2>1. /\ 1..i \in SUBSET (DOMAIN s) /\ 1..i # {}
        /\ Max(1..i) = i /\ (1..i) \ {Max(1..i)} = 1..(i - 1)
    BY <1>1, Prefix
  <2> QED
    BY <1>7, <2>1
<1>10. h[{}] = b
  BY <1>7
<1> HIDE DEF Iter
<1>11. Obeys(h, n, U, b, F)
  BY <1>2, <1>9, <1>10 DEF Obeys
<1>12. PICK f : Follows(f, n, U, b, F) /\ f[n] = h[1..n]
  BY <1>1, <1>4, <1>11, FoldPrefixes
<1>13. f[n] \in U
  BY <1>1, <1>12, Between DEF Follows
<1> QED
  BY <1>8, <1>12, <1>13 DEF U

\* The lists, one by one.
LEMMA ListFold ==
    ASSUME NEW S, NEW s \in Seq(Seq(S))
    PROVE  FoldLeft(LAMBDA done, list : FoldLeft(Met, done, list), <<>>, s) \in Seq(S)
<1> DEFINE n == Len(s)
           U == Seq(S)
           F == [i \in 1..n |-> [a \in U |-> FoldLeft(Met, a, s[i])]]
           Iter(h) == h = [t \in SUBSET (DOMAIN s) |->
                              IF t = {} THEN <<>> ELSE FoldLeft(Met, h[t \ {Max(t)}], s[Max(t)])]
           h == CHOOSE h : Iter(h)
<1>1. n \in Nat /\ DOMAIN s = 1..n
  OBVIOUS
<1>2. \A i \in 1..n : \A a \in U : F[i][a] = FoldLeft(Met, a, s[i])
  OBVIOUS
<1>3. <<>> \in U /\ \A i \in 1..n : \A a \in U : FoldLeft(Met, a, s[i]) \in U
  BY MetFold
<1> HIDE DEF F, n, U
<1>4. Closed(n, U, <<>>, F)
  BY <1>2, <1>3 DEF Closed
<1>5. PICK g : Folds(g, n, U, <<>>, F)
  BY <1>1, <1>4, FoldExists
<1>6. Iter(g)
  <2>1. ASSUME NEW t \in SUBSET (1..n), t # {}
        PROVE  g[t] = FoldLeft(Met, g[t \ {Max(t)}], s[Max(t)])
    <3>1. Max(t) \in 1..n /\ g[t \ {Max(t)}] \in U
      BY <1>1, <1>5, <2>1, MaxIsLast DEF Folds
    <3> QED
      BY <1>2, <1>5, <2>1, <3>1 DEF Folds
  <2> QED
    BY <1>1, <1>5, <2>1 DEF Folds
<1>7. Iter(h)
  BY <1>6
<1>8. FoldLeft(LAMBDA done, list : FoldLeft(Met, done, list), <<>>, s) = h[1..n]
  BY <1>1 DEF FoldLeft, MapThenFoldSet
<1> HIDE DEF h
<1>9. ASSUME NEW i \in 1..n
      PROVE  h[1..i] = FoldLeft(Met, h[1..(i - 1)], s[i])
  <2>1. /\ 1..i \in SUBSET (DOMAIN s) /\ 1..i # {}
        /\ Max(1..i) = i /\ (1..i) \ {Max(1..i)} = 1..(i - 1)
    BY <1>1, Prefix
  <2> QED
    BY <1>7, <2>1
<1>10. h[{}] = <<>>
  BY <1>7
<1> HIDE DEF Iter
<1>11. Obeys(h, n, U, <<>>, F)
  BY <1>2, <1>9, <1>10 DEF Obeys
<1>12. PICK f : Follows(f, n, U, <<>>, F) /\ f[n] = h[1..n]
  BY <1>1, <1>4, <1>11, FoldPrefixes
<1>13. f[n] \in U
  BY <1>1, <1>12, Between DEF Follows
<1> QED
  BY <1>8, <1>12, <1>13 DEF U

LEMMA SortedType ==
    ASSUME NEW S, NEW ranked \in Seq(S), NEW c \in S
    PROVE  Sorted(ranked, c) \in Seq(S)
<1> DEFINE before == {n \in DOMAIN ranked : ~Less(ranked[n].score, c.score)}
           at == Cardinality(before) + 1
           L == Len(ranked)
           u == SubSeq(ranked, 1, at - 1)
           t == SubSeq(ranked, at, L)
<1>1. L \in Nat /\ DOMAIN ranked = 1..L /\ before \subseteq 1..L
  OBVIOUS
<1>2. Cardinality(before) \in Nat /\ Cardinality(before) <= L
  <2>1. IsFiniteSet(1..L) /\ Cardinality(1..L) = L
    <3> HIDE DEF L
    <3>1. 1 \in Int /\ L \in Int
      BY <1>1
    <3>2. IsFiniteSet(1..L) /\ Cardinality(1..L) = IF 1 > L THEN 0 ELSE L - 1 + 1
      BY <3>1, FS_Interval
    <3> QED
      BY <1>1, <3>2
  <2> HIDE DEF before, L
  <2> QED
    <3>1. IsFiniteSet(before) /\ Cardinality(before) <= Cardinality(1..L)
      BY <1>1, <2>1, FS_Subset
    <3> QED
      BY <2>1, <3>1, FS_CardinalityType
<1>3. Sorted(ranked, c) = u \o <<c>> \o t
  BY DEF Sorted, InsertAt
<1> HIDE DEF before
<1>4. at \in 1..(L + 1)
  BY <1>1, <1>2
<1> HIDE DEF at
<1>5. u \in Seq(S) /\ t \in Seq(S)
  <2>1. 1 \in 1..(L + 1) /\ at - 1 \in 0..L
    BY <1>1, <1>4
  <2> QED
    BY <1>1, <1>4, <2>1, SubSeqProperties
<1> HIDE DEF u, t
<1>6. u \o <<c>> \o t \in Seq(S)
  BY <1>5
<1> QED
  BY <1>3, <1>6

\* The insertions, one by one.
LEMMA SortedFold ==
    ASSUME NEW S, NEW s \in Seq(S)
    PROVE  FoldLeft(Sorted, <<>>, s) \in Seq(S)
<1> DEFINE n == Len(s)
           U == Seq(S)
           F == [i \in 1..n |-> [a \in U |-> Sorted(a, s[i])]]
           Iter(h) == h = [t \in SUBSET (DOMAIN s) |->
                              IF t = {} THEN <<>> ELSE Sorted(h[t \ {Max(t)}], s[Max(t)])]
           h == CHOOSE h : Iter(h)
<1>1. n \in Nat /\ DOMAIN s = 1..n
  OBVIOUS
<1>2. \A i \in 1..n : \A a \in U : F[i][a] = Sorted(a, s[i])
  OBVIOUS
<1>3. <<>> \in U /\ \A i \in 1..n : \A a \in U : Sorted(a, s[i]) \in U
  BY SortedType
<1> HIDE DEF F, n, U
<1>4. Closed(n, U, <<>>, F)
  BY <1>2, <1>3 DEF Closed
<1>5. PICK g : Folds(g, n, U, <<>>, F)
  BY <1>1, <1>4, FoldExists
<1>6. Iter(g)
  <2>1. ASSUME NEW t \in SUBSET (1..n), t # {}
        PROVE  g[t] = Sorted(g[t \ {Max(t)}], s[Max(t)])
    <3>1. Max(t) \in 1..n /\ g[t \ {Max(t)}] \in U
      BY <1>1, <1>5, <2>1, MaxIsLast DEF Folds
    <3> QED
      BY <1>2, <1>5, <2>1, <3>1 DEF Folds
  <2> QED
    BY <1>1, <1>5, <2>1 DEF Folds
<1>7. Iter(h)
  BY <1>6
<1>8. FoldLeft(Sorted, <<>>, s) = h[1..n]
  BY <1>1 DEF FoldLeft, MapThenFoldSet
<1> HIDE DEF h
<1>9. ASSUME NEW i \in 1..n
      PROVE  h[1..i] = Sorted(h[1..(i - 1)], s[i])
  <2>1. /\ 1..i \in SUBSET (DOMAIN s) /\ 1..i # {}
        /\ Max(1..i) = i /\ (1..i) \ {Max(1..i)} = 1..(i - 1)
    BY <1>1, Prefix
  <2> QED
    BY <1>7, <2>1
<1>10. h[{}] = <<>>
  BY <1>7
<1> HIDE DEF Iter
<1>11. Obeys(h, n, U, <<>>, F)
  BY <1>2, <1>9, <1>10 DEF Obeys
<1>12. PICK f : Follows(f, n, U, <<>>, F) /\ f[n] = h[1..n]
  BY <1>1, <1>4, <1>11, FoldPrefixes
<1>13. f[n] \in U
  BY <1>1, <1>12, Between DEF Follows
<1> QED
  BY <1>8, <1>12, <1>13 DEF U

LEMMA Fused ==
    ASSUME NEW S, NEW lists \in Seq(Seq(S)), TopK \in Nat
    PROVE  ReciprocalRankFusion(lists) \in Seq(S)
<1> DEFINE met == Concatenated(lists)
           scored(c) == [chunk |-> c, score |-> FusedScore(c, lists)]
           all == [n \in DOMAIN met |-> scored(met[n])]
           T == {scored(c) : c \in S}
           sorted == FoldLeft(Sorted, <<>>, all)
           m == AtMost(Len(sorted))
<1>1. met \in Seq(S)
  BY ListFold DEF Concatenated
<1>2. ReciprocalRankFusion(lists) = [n \in 1..m |-> sorted[n].chunk]
  BY DEF ReciprocalRankFusion
<1> HIDE DEF met
<1>3. all \in Seq(T)
  <2>1. \A c \in S : scored(c) \in T
    OBVIOUS
  <2>2. met \in Seq(S) /\ DOMAIN met = 1..Len(met) /\ Len(met) \in Nat
    BY <1>1
  <2> HIDE DEF T, scored
  <2>3. \A n \in 1..Len(met) : scored(met[n]) \in T
    BY <2>1, <2>2
  <2>4. [n \in 1..Len(met) |-> scored(met[n])] \in Seq(T)
    BY <2>2, <2>3
  <2> QED
    BY <2>2, <2>4
<1>4. \A x \in T : x.chunk \in S
  OBVIOUS
<1> HIDE DEF T, all
<1>5. sorted \in Seq(T)
  BY <1>3, SortedFold
<1> HIDE DEF sorted
<1>6. Len(sorted) \in Nat /\ m \in 0..Len(sorted)
  BY <1>5 DEF AtMost
<1> HIDE DEF m
<1>7. \A k \in 1..m : sorted[k].chunk \in S
  BY <1>4, <1>5, <1>6
<1>8. [k \in 1..m |-> sorted[k].chunk] \in Seq(S)
  BY <1>6, <1>7
<1> QED
  BY <1>2, <1>8

\* The rankings of admitted rows are sequences of them.
LEMMA RankingsOf ==
    ASSUME NEW rows, IsFiniteSet(rows), TopK \in Nat
    PROVE  Ranked(rows) \subseteq Seq(rows) /\ Matched(rows) \subseteq Seq(rows)
<1> DEFINE m == AtMost(Cardinality(rows))
<1>1. Cardinality(rows) \in Nat
  BY FS_CardinalityType
<1>2. m \in Nat
  BY <1>1 DEF AtMost
<1> HIDE DEF m
<1>3. \A n \in Nat : Injection(1..n, rows) \subseteq Seq(rows)
  <2>1. \A n \in Nat : [1..n -> rows] \subseteq Seq(rows)
    OBVIOUS
  <2> QED
    BY <2>1 DEF Injection
<1>4. Ranked(rows) = Injection(1..m, rows)
  BY DEF Ranked, m
<1>5. Matched(rows) = UNION {Injection(1..n, rows) : n \in 0..m}
  BY DEF Matched, m
<1>6. \A n \in 0..m : n \in Nat
  BY <1>2
<1> QED
  BY <1>2, <1>3, <1>4, <1>5, <1>6

-----------------------------------------------------------------------------
(* The store, and what a search cites.                                      *)

\* A chunk of a document that is there, with its tenant and its permission, and
\* the text it says.
Cited(c, store) ==
    /\ c.id \in DOMAIN store
    /\ LET d == store[c.id] IN
       /\ c.org = d.org /\ c.acl = d.acl /\ (c.repo # Absent => c.repo = d.repo)
       /\ c.piece \in Quote(TextBefore(d.text, Len(d.text)))

RetrievalInv ==
    /\ RetrievalTypeOK
    /\ \A n \in DOMAIN chunks : Cited(chunks[n], documents)
    /\ \A n \in DOMAIN result.list : Admits(result.filters, result.list[n])

\* The rows of a document are chunks of it.
LEMMA UpsertedRows ==
    ASSUME NEW document \in Incoming, NEW id \in Nat \ {0}
    PROVE  LET rows == Upserted(id, document) IN
           /\ rows \in Seq(Chunk)
           /\ \A n \in DOMAIN rows :
                 LET c == rows[n] IN
                 /\ c.id = id /\ c.org = document.org /\ c.acl = document.acl
                 /\ c.repo # Absent => c.repo = document.repo
                 /\ c.piece \in Quote(TextBefore(document.text, Len(document.text)))
<1> DEFINE bound == TextBefore(document.text, Len(document.text))
           pieces == ChunkDocument(document.text, document.type)
           collection == _CONTENT_TYPE_TO_COLLECTION[document.type]
           repo == IF collection \in _REPO_SCOPED_COLLECTIONS THEN document.repo ELSE Absent
           row(n) == [id |-> id, index |-> n - 1, collection |-> collection, org |-> document.org,
                      acl |-> document.acl, repo |-> repo, piece |-> pieces[n]]
           rows == Upserted(id, document)
<1>1. document \in Document /\ MaxChars \in Nat \ {0}
  BY RetrievalAssumption
<1>2. /\ document.org \in Orgs /\ document.acl \in Permissions \cup {Absent} /\ document.repo \in Repos \cup {Absent}
      /\ document.type \in {"document", "code", "chat"} /\ document.text \in Text
  BY <1>1 DEF Document, Text
<1>3. pieces \in Seq(Quote(bound))
  BY <1>1, <1>2, ChunkDocumentQuotes
<1>4. collection \in Collections
  BY <1>2 DEF _CONTENT_TYPE_TO_COLLECTION, Collections
<1>5. repo \in Repos \cup {Absent} /\ (repo # Absent => repo = document.repo)
  BY <1>2
<1>6. rows = [n \in DOMAIN pieces |-> row(n)]
  BY DEF Upserted
<1> HIDE DEF bound, pieces, collection, repo, rows
<1>7. DOMAIN pieces = 1..Len(pieces) /\ Len(pieces) \in Nat
  BY <1>3
<1>8. ASSUME NEW n \in DOMAIN pieces
      PROVE  /\ row(n) \in Chunk /\ row(n).id = id /\ row(n).org = document.org /\ row(n).acl = document.acl
             /\ (row(n).repo # Absent => row(n).repo = document.repo) /\ row(n).piece \in Quote(bound)
  <2>1. pieces[n] \in Quote(bound) /\ n - 1 \in Nat
    BY <1>3, <1>7
  <2>2. pieces[n] \in Piece
    BY <2>1 DEF Quote, Fit
  <2> QED
    BY <1>2, <1>4, <1>5, <2>1, <2>2 DEF Chunk
<1> HIDE DEF row
<1>9. rows \in Seq(Chunk) /\ DOMAIN rows = DOMAIN pieces
  BY <1>6, <1>7, <1>8
<1>10. \A n \in DOMAIN rows : rows[n] = row(n)
  BY <1>6
<1> QED
  BY <1>8, <1>9, <1>10 DEF bound, rows

\* A document more takes nothing from what is cited.
LEMMA IngestKeeps ==
    ASSUME RetrievalInv, NEW document \in Incoming, Ingest(document)
    PROVE  RetrievalInv'
<1> DEFINE id == Len(documents) + 1
           rows == Upserted(id, document)
           L == Len(chunks)
<1>1. /\ documents \in Seq(Incoming) /\ chunks \in Seq(Chunk) /\ id \in Nat \ {0} /\ L \in Nat
      /\ documents' = Append(documents, document) /\ chunks' = chunks \o rows /\ result' = result
  BY DEF RetrievalInv, RetrievalTypeOK, Ingest
<1>2. /\ documents' \in Seq(Incoming) /\ id \in DOMAIN documents' /\ documents'[id] = document
      /\ \A k \in DOMAIN documents : k \in DOMAIN documents' /\ documents'[k] = documents[k]
  BY <1>1
<1>3. /\ rows \in Seq(Chunk)
      /\ \A n \in DOMAIN rows :
            LET c == rows[n] IN
            /\ c.id = id /\ c.org = document.org /\ c.acl = document.acl
            /\ c.repo # Absent => c.repo = document.repo
            /\ c.piece \in Quote(TextBefore(document.text, Len(document.text)))
  BY <1>1, UpsertedRows
<1>4. \A n \in DOMAIN rows : Cited(rows[n], documents')
  <2> SUFFICES ASSUME NEW n \in DOMAIN rows PROVE Cited(rows[n], documents')
    OBVIOUS
  <2> DEFINE c == rows[n]
  <2>1. /\ c.id = id /\ c.org = document.org /\ c.acl = document.acl /\ (c.repo # Absent => c.repo = document.repo)
        /\ c.piece \in Quote(TextBefore(document.text, Len(document.text)))
    BY <1>3
  <2> HIDE DEF id
  <2> QED
    BY <1>2, <2>1 DEF Cited
<1>5. \A n \in DOMAIN chunks : Cited(chunks[n], documents')
  <2> SUFFICES ASSUME NEW n \in DOMAIN chunks PROVE Cited(chunks[n], documents')
    OBVIOUS
  <2> DEFINE c == chunks[n]
             d == documents[c.id]
  <2>1. /\ c.id \in DOMAIN documents /\ c.org = d.org /\ c.acl = d.acl /\ (c.repo # Absent => c.repo = d.repo)
        /\ c.piece \in Quote(TextBefore(d.text, Len(d.text)))
    BY DEF RetrievalInv, Cited
  <2>2. c.id \in DOMAIN documents' /\ documents'[c.id] = d
    BY <1>2, <2>1
  <2> HIDE DEF c, d
  <2>3. Cited(c, documents')
    BY <2>1, <2>2 DEF Cited
  <2> QED
    BY <2>3 DEF c
<1> HIDE DEF id, rows
<1>6. /\ chunks' \in Seq(Chunk) /\ DOMAIN chunks' = 1..(L + Len(rows)) /\ Len(rows) \in Nat
      /\ DOMAIN chunks = 1..L /\ DOMAIN rows = 1..Len(rows)
      /\ \A n \in 1..(L + Len(rows)) : chunks'[n] = IF n <= L THEN chunks[n] ELSE rows[n - L]
  <2>1. /\ chunks \o rows \in Seq(Chunk) /\ Len(chunks \o rows) = L + Len(rows)
        /\ \A n \in 1..(L + Len(rows)) : (chunks \o rows)[n] = IF n <= L THEN chunks[n] ELSE rows[n - L]
    BY <1>1, <1>3, ConcatProperties
  <2> QED
    BY <1>1, <1>3, <2>1
<1> HIDE DEF L
<1>7. ASSUME NEW n \in DOMAIN chunks' PROVE Cited(chunks'[n], documents')
  <2>1. CASE n <= L
    <3>1. n \in DOMAIN chunks /\ chunks'[n] = chunks[n]
      BY <1>1, <1>6, <2>1
    <3>2. Cited(chunks[n], documents')
      BY <1>5, <3>1
    <3> QED
      BY <3>1, <3>2
  <2>2. CASE ~(n <= L)
    <3>1. n - L \in DOMAIN rows /\ chunks'[n] = rows[n - L]
      BY <1>1, <1>6, <2>2
    <3>2. Cited(rows[n - L], documents')
      BY <1>4, <3>1
    <3> QED
      BY <3>1, <3>2
  <2> QED
    BY <2>1, <2>2
<1>8. ToSet(chunks) \subseteq ToSet(chunks')
  <2>1. \A n \in DOMAIN chunks : n \in DOMAIN chunks' /\ chunks'[n] = chunks[n]
    BY <1>1, <1>6
  <2> QED
    BY <2>1 DEF ToSet
<1>9. result' = NoSearch \/ result' \in [filters : SearchFilters, list : Seq(ToSet(chunks'))]
  <2>1. Seq(ToSet(chunks)) \subseteq Seq(ToSet(chunks'))
    BY <1>8, SeqMonotonic
  <2>2. CASE result = NoSearch
    BY <1>1, <2>2
  <2>3. CASE result \in [filters : SearchFilters, list : Seq(ToSet(chunks))]
    BY <1>1, <2>1, <2>3
  <2> QED
    BY <2>2, <2>3 DEF RetrievalInv, RetrievalTypeOK
<1>10. RetrievalTypeOK'
  <2>1. NoSearch' = NoSearch /\ SearchFilters' = SearchFilters
    BY DEF NoSearch, SearchFilters
  <2> QED
    BY <1>2, <1>6, <1>9, <2>1 DEF RetrievalTypeOK
<1>11. \A n \in DOMAIN result.list : Admits(result.filters, result.list[n])
  BY DEF RetrievalInv
<1>12. (\A n \in DOMAIN result.list : Admits(result.filters, result.list[n]))'
  BY <1>1, <1>11 DEF Admits
<1>13. (\A n \in DOMAIN chunks : Cited(chunks[n], documents))'
  BY <1>7
<1> QED
  BY <1>10, <1>12, <1>13 DEF RetrievalInv

\* The rows that a search may return.
Admitted(filters) == {c \in ToSet(chunks) : Admits(filters, c)}

LEMMA RowsAdmitted ==
    ASSUME chunks \in Seq(Chunk), NEW filters, NEW collection
    PROVE  LET rows == Rows(filters, collection) IN
           Ranked(rows) \subseteq Seq(Admitted(filters)) /\ Matched(rows) \subseteq Seq(Admitted(filters))
<1> DEFINE rows == Rows(filters, collection)
<1>0. chunks \in Seq(Chunk)
  OBVIOUS
<1>1. rows \subseteq Admitted(filters) /\ rows \subseteq ToSet(chunks)
  BY DEF Rows, Admitted
<1>2. IsFiniteSet(rows)
  <2>1. IsFiniteSet(1..Len(chunks))
    BY FS_Interval
  <2>2. IsFiniteSet(ToSet(chunks))
    <3>1. chunks \in Surjection(1..Len(chunks), ToSet(chunks))
      BY <1>0 DEF Surjection, ToSet
    <3> QED
      BY <2>1, <3>1, FS_Surjection DEF Surjection
  <2> HIDE DEF rows
  <2> QED
    BY <1>1, <2>2, FS_Subset
<1> HIDE DEF rows
<1>3. Ranked(rows) \subseteq Seq(rows) /\ Matched(rows) \subseteq Seq(rows)
  BY <1>2, RankingsOf, RetrievalAssumption
<1>4. Seq(rows) \subseteq Seq(Admitted(filters))
  BY <1>1, SeqMonotonic
<1> QED
  BY <1>3, <1>4 DEF rows

\* A result that is made of admitted rows.
LEMMA ResultKeeps ==
    ASSUME RetrievalInv, NEW filters \in SearchFilters,
           NEW lists \in Seq(Seq(Admitted(filters))),
           result' = [filters |-> filters, list |-> ReciprocalRankFusion(lists)],
           UNCHANGED <<documents, chunks>>
    PROVE  RetrievalInv'
<1> DEFINE list == ReciprocalRankFusion(lists)
           S == Admitted(filters)
<1>1. list \in Seq(S)
  BY RetrievalAssumption, Fused
<1>2. S \subseteq ToSet(chunks) /\ \A c \in S : Admits(filters, c)
  BY DEF Admitted
<1> HIDE DEF list, S
<1>3. \A n \in DOMAIN list : Admits(filters, list[n])
  BY <1>1, <1>2
<1>4. list \in Seq(ToSet(chunks))
  BY <1>1, <1>2, SeqMonotonic
<1>5. result'.filters = filters /\ result'.list = list
  BY DEF list
<1>6. result' \in [filters : SearchFilters, list : Seq(ToSet(chunks))]
  BY <1>4 DEF list
<1>7. RetrievalTypeOK'
  BY <1>6 DEF RetrievalInv, RetrievalTypeOK, NoSearch, SearchFilters
<1>8. (\A n \in DOMAIN chunks : Cited(chunks[n], documents))'
  BY DEF RetrievalInv, Cited
<1>9. (\A n \in DOMAIN result.list : Admits(result.filters, result.list[n]))'
  BY <1>3, <1>5 DEF Admits
<1> QED
  BY <1>7, <1>8, <1>9 DEF RetrievalInv

LEMMA RetrievalStep ==
    ASSUME RetrievalInv, [RetrievalNext]_retrievalVars
    PROVE  RetrievalInv'
<1>0. chunks \in Seq(Chunk)
  BY DEF RetrievalInv, RetrievalTypeOK
<1>1. CASE Answered
  <2>1. documents' = documents /\ chunks' = chunks /\ result' = NoSearch
    BY <1>1 DEF Answered
  <2>2. RetrievalTypeOK'
    BY <2>1 DEF RetrievalInv, RetrievalTypeOK, NoSearch
  <2>3. (\A n \in DOMAIN chunks : Cited(chunks[n], documents))'
    BY <2>1 DEF RetrievalInv, Cited
  <2>4. (\A n \in DOMAIN result.list : Admits(result.filters, result.list[n]))'
    BY <2>1 DEF NoSearch
  <2> QED
    BY <2>2, <2>3, <2>4 DEF RetrievalInv
<1>2. ASSUME NEW document \in Incoming, Ingest(document) PROVE RetrievalInv'
  BY <1>2, IngestKeeps
<1>3. ASSUME NEW filters \in SearchFilters, NEW collection \in Collections, SearchCollection(filters, collection)
      PROVE  RetrievalInv'
  <2> DEFINE rows == Rows(filters, collection)
             S == Admitted(filters)
  <2>1. PICK dense \in Ranked(rows), lexical \in Matched(rows) :
           result' = [filters |-> filters, list |-> ReciprocalRankFusion(<<dense, lexical>>)]
    BY <1>3 DEF SearchCollection
  <2>2. dense \in Seq(S) /\ lexical \in Seq(S)
    BY <1>0, <2>1, RowsAdmitted
  <2> HIDE DEF S
  <2>3. <<dense, lexical>> \in Seq(Seq(S))
    BY <2>2
  <2>4. UNCHANGED <<documents, chunks>>
    BY <1>3 DEF SearchCollection
  <2> QED
    BY <2>1, <2>3, <2>4, ResultKeeps DEF S
<1>4. ASSUME NEW filters \in SearchFilters, SearchAll(filters) PROVE RetrievalInv'
  <2> DEFINE R1 == Rows(filters, "documentation")
             R2 == Rows(filters, "code")
             R3 == Rows(filters, "conversations")
             S == Admitted(filters)
  <2>1. PICK d1 \in Ranked(R1), l1 \in Matched(R1), d2 \in Ranked(R2), l2 \in Matched(R2),
             d3 \in Ranked(R3), l3 \in Matched(R3) :
           result' = [filters |-> filters, list |-> ReciprocalRankFusion(<<d1, l1, d2, l2, d3, l3>>)]
    BY <1>4 DEF SearchAll
  <2>2. /\ d1 \in Seq(S) /\ l1 \in Seq(S) /\ d2 \in Seq(S) /\ l2 \in Seq(S)
        /\ d3 \in Seq(S) /\ l3 \in Seq(S)
    BY <1>0, <2>1, RowsAdmitted
  <2> HIDE DEF S
  <2>3. <<d1, l1, d2, l2, d3, l3>> \in Seq(Seq(S))
    BY <2>2
  <2>4. UNCHANGED <<documents, chunks>>
    BY <1>4 DEF SearchAll
  <2> QED
    BY <2>1, <2>3, <2>4, ResultKeeps DEF S
<1>5. CASE UNCHANGED retrievalVars
  BY <1>5 DEF retrievalVars, RetrievalInv, RetrievalTypeOK, NoSearch, Cited, Admits
<1> QED
  BY <1>1, <1>2, <1>3, <1>4, <1>5 DEF RetrievalNext

\* The stored chunks are text of the documents they are said to come from.
THEOREM RetrievalInvariant == RetrievalSpec => []RetrievalInv
<1>1. RetrievalInit => RetrievalInv
  BY DEF RetrievalInit, RetrievalInv, RetrievalTypeOK, NoSearch
<1>2. RetrievalInv /\ [RetrievalNext]_retrievalVars => RetrievalInv'
  BY RetrievalStep
<1> QED
  BY <1>1, <1>2, PTL DEF RetrievalSpec

LEMMA CitationsFollow ==
    ASSUME RetrievalInv
    PROVE  CitationsQuoteTheDocument
<1> SUFFICES ASSUME NEW n \in DOMAIN result.list
             PROVE  LET c == result.list[n]
                        d == documents[c.id]
                    IN /\ d.org = result.filters.org
                       /\ d.acl = Absent \/ d.acl \in result.filters.permissions
                       /\ result.filters.repository # Absent => d.repo = result.filters.repository
                       /\ c.piece.length <= MaxChars
                       /\ ~c.piece.blank => c.piece.start = c.piece.from
                       /\ c.piece.from + c.piece.length <= TextBefore(d.text, Len(d.text))
  BY DEF CitationsQuoteTheDocument
<1> DEFINE c == result.list[n]
           d == documents[c.id]
<1>1. result # NoSearch
  BY DEF NoSearch
<1>2. c \in ToSet(chunks)
  BY <1>1 DEF RetrievalInv, RetrievalTypeOK
<1>3. Cited(c, documents)
  BY <1>2 DEF RetrievalInv, ToSet
<1>4. Admits(result.filters, c)
  BY DEF RetrievalInv
<1> HIDE DEF c
<1> QED
  BY <1>3, <1>4 DEF Cited, Admits, Quote, Fit, c

\* What a search returns is text of a document of the organization that the caller
\* may read, at the offsets it is cited with (_process_one_item, search).
THEOREM CitationsAreTrue == RetrievalSpec => []CitationsQuoteTheDocument
<1>1. RetrievalSpec => []RetrievalInv
  BY RetrievalInvariant
<1>2. RetrievalInv => CitationsQuoteTheDocument
  BY CitationsFollow
<1> QED
  BY <1>1, <1>2, PTL
=============================================================================
