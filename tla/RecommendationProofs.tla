------------------------ MODULE RecommendationProofs ------------------------
(***************************************************************************)
(* Proofs about Recommendation, for any table of admission lines, request, *)
(* caps and number of imports and score refreshes.                         *)
(*                                                                         *)
(* The argument for the plan: what is picked is counted twice, in the      *)
(* loop's own sets and counters and in the list of the picks, and the two  *)
(* agree.  So a candidate that was passed over because its group or its    *)
(* school was taken can name the pick that took it; that pick came first,  *)
(* and within a tier the best candidates come first.  The windows of the   *)
(* three tiers follow one another, whence the tiers get easier.            *)
(*                                                                         *)
(* The argument for groups and lists: scores, queries, ranks and ids order *)
(* the candidates strictly, so each has its own number of candidates       *)
(* before it, and a list made by that number holds each of them once.      *)
(* What holds of every list made so holds of the roster and of the groups. *)
(*                                                                         *)
(* The argument for the pool: a score that was read is the stored one      *)
(* unless it has been written since, so two candidates of one key that     *)
(* differ saw a refresh between their queries.                             *)
(***************************************************************************)
EXTENDS Recommendation, FiniteSetTheorems, SequenceTheorems, TLAPS

-----------------------------------------------------------------------------
(* Sorting. *)

\* R orders S strictly.
Orders(R, S) ==
    /\ \A x \in S : <<x, x>> \notin R
    /\ \A x, y, z \in S : <<x, y>> \in R /\ <<y, z>> \in R => <<x, z>> \in R
    /\ \A x, y \in S : x # y => <<x, y>> \in R \/ <<y, x>> \in R

\* The members of S that come before x.
Before(x, S, R) == {y \in S : <<y, x>> \in R}

\* s lists S in the order of R.
Lists(s, S, R) ==
    /\ s \in Seq(S)
    /\ Len(s) = Cardinality(S)
    /\ \A m, n \in 1..Len(s) : m < n => <<s[m], s[n]>> \in R
    /\ \A x \in S : \E n \in 1..Len(s) : s[n] = x

\* A later member has more members before it.
LEMMA BeforeGrows ==
    ASSUME NEW S, NEW R, IsFiniteSet(S), Orders(R, S), NEW x \in S, NEW y \in S,
           <<x, y>> \in R
    PROVE  Cardinality(Before(x, S, R)) < Cardinality(Before(y, S, R))
<1>1. Before(x, S, R) \cup {x} \in SUBSET Before(y, S, R)
  BY DEF Before, Orders
<1>2. x \notin Before(x, S, R)
  BY DEF Before, Orders
<1>3. IsFiniteSet(Before(x, S, R)) /\ IsFiniteSet(Before(y, S, R))
  <2>1. Before(x, S, R) \in SUBSET S /\ Before(y, S, R) \in SUBSET S
    BY DEF Before
  <2> QED
    BY <2>1, FS_Subset
<1>4. Cardinality(Before(x, S, R) \cup {x}) = Cardinality(Before(x, S, R)) + 1
  BY <1>2, <1>3, FS_AddElement
<1>5. Cardinality(Before(x, S, R) \cup {x}) <= Cardinality(Before(y, S, R))
  BY <1>1, <1>3, FS_Subset
<1>6. Cardinality(Before(x, S, R)) \in Nat /\ Cardinality(Before(y, S, R)) \in Nat
  BY <1>3, FS_CardinalityType
<1> QED
  BY <1>4, <1>5, <1>6

\* Each number of members before, below that of all members, occurs once.
LEMMA Depths ==
    ASSUME NEW S, NEW R, IsFiniteSet(S), Orders(R, S), NEW n \in 1..Cardinality(S)
    PROVE  /\ \E x \in S : Cardinality(Before(x, S, R)) = n - 1
           /\ \A x, y \in S : Cardinality(Before(x, S, R)) = Cardinality(Before(y, S, R)) => x = y
<1> DEFINE N == Cardinality(S)
           depth == [x \in S |-> Cardinality(Before(x, S, R)) + 1]
<1>1. N \in Nat
  BY FS_CardinalityType
<1>2. ASSUME NEW x \in S  PROVE  Cardinality(Before(x, S, R)) \in Nat /\ Cardinality(Before(x, S, R)) < N
  <2>1. Before(x, S, R) \in SUBSET (S \ {x})
    BY DEF Before, Orders
  <2>2. IsFiniteSet(S \ {x}) /\ Cardinality(S \ {x}) = N - 1
    BY FS_RemoveElement
  <2>3. IsFiniteSet(Before(x, S, R)) /\ Cardinality(Before(x, S, R)) <= N - 1
    BY <2>1, <2>2, FS_Subset
  <2>4. Cardinality(Before(x, S, R)) \in Nat
    BY <2>3, FS_CardinalityType
  <2> QED
    BY <1>1, <2>3, <2>4
<1>3. ASSUME NEW x \in S, NEW y \in S, Cardinality(Before(x, S, R)) = Cardinality(Before(y, S, R))
      PROVE  x = y
  <2>1. CASE x = y
    BY <2>1
  <2>2. CASE <<x, y>> \in R
    <3>1. Cardinality(Before(x, S, R)) < Cardinality(Before(y, S, R))
      BY <2>2, BeforeGrows
    <3> QED
      BY <1>2, <1>3, <3>1
  <2>3. CASE <<y, x>> \in R
    <3>1. Cardinality(Before(y, S, R)) < Cardinality(Before(x, S, R))
      BY <2>3, BeforeGrows
    <3> QED
      BY <1>2, <1>3, <3>1
  <2> QED
    BY <2>1, <2>2, <2>3 DEF Orders
<1>4. ASSUME NEW x \in S  PROVE  Cardinality(Before(x, S, R)) + 1 \in 1..N
  BY <1>1, <1>2
<1>5. depth \in [S -> 1..N]
  BY <1>4
<1>6. ASSUME NEW x \in S, NEW y \in S, depth[x] = depth[y]  PROVE  x = y
  <2>1. Cardinality(Before(x, S, R)) + 1 = Cardinality(Before(y, S, R)) + 1
    BY <1>6
  <2>2. Cardinality(Before(x, S, R)) \in Nat /\ Cardinality(Before(y, S, R)) \in Nat
    BY <1>2
  <2>3. Cardinality(Before(x, S, R)) = Cardinality(Before(y, S, R))
    BY <2>1, <2>2
  <2> QED
    BY <1>3, <2>3
<1>7. depth \in Injection(S, 1..N)
  BY <1>5, <1>6 DEF Injection, IsInjective
<1>8. IsFiniteSet(1..N) /\ Cardinality(1..N) = N
  BY <1>1, FS_Interval
<1>9. depth \in Surjection(S, 1..N)
  BY <1>7, <1>8, FS_Injection
<1>10. PICK x \in S : depth[x] = n
  BY <1>9 DEF Surjection
<1>11. Cardinality(Before(x, S, R)) = n - 1
  BY <1>1, <1>2, <1>10
<1> QED
  BY <1>3, <1>11

\* Sorting lists each member once, in order.
LEMMA SortedLists ==
    ASSUME NEW S, NEW R, IsFiniteSet(S), Orders(R, S)
    PROVE  Lists(Sorted(S, R), S, R)
<1> DEFINE N == Cardinality(S)
           s == Sorted(S, R)
<1>1. N \in Nat
  BY FS_CardinalityType
<1>2. s = [n \in 1..N |-> CHOOSE x \in S : Cardinality(Before(x, S, R)) = n - 1]
  BY DEF Sorted, Before
<1> HIDE DEF s
<1>3. ASSUME NEW n \in 1..N  PROVE  s[n] \in S /\ Cardinality(Before(s[n], S, R)) = n - 1
  <2>1. \E x \in S : Cardinality(Before(x, S, R)) = n - 1
    BY Depths
  <2>2. s[n] = CHOOSE x \in S : Cardinality(Before(x, S, R)) = n - 1
    BY <1>2
  <2> QED
    BY <2>1, <2>2
<1>4. s \in [1..N -> S]
  BY <1>2, <1>3
<1>5. s \in Seq(S) /\ Len(s) = N
  BY <1>1, <1>4, SeqDef, LenProperties
<1>6. ASSUME NEW m \in 1..N, NEW n \in 1..N, m < n  PROVE  <<s[m], s[n]>> \in R
  <2>1. s[m] \in S /\ s[n] \in S
    BY <1>3
  <2>2. Cardinality(Before(s[m], S, R)) = m - 1 /\ Cardinality(Before(s[n], S, R)) = n - 1
    BY <1>3
  <2>3. s[m] # s[n]
    BY <2>2, <1>1, <1>6
  <2>4. ~ <<s[n], s[m]>> \in R
    <3>1. SUFFICES ASSUME <<s[n], s[m]>> \in R PROVE FALSE
      OBVIOUS
    <3>2. Cardinality(Before(s[n], S, R)) < Cardinality(Before(s[m], S, R))
      BY <2>1, <3>1, BeforeGrows
    <3> QED
      BY <1>1, <1>6, <2>2, <3>2
  <2> QED
    BY <2>1, <2>3, <2>4 DEF Orders
<1>7. ASSUME NEW x \in S  PROVE  \E n \in 1..N : s[n] = x
  <2> DEFINE d == Cardinality(Before(x, S, R))
  <2>1. Before(x, S, R) \in SUBSET (S \ {x})
    BY DEF Before, Orders
  <2>2. IsFiniteSet(S \ {x}) /\ Cardinality(S \ {x}) = N - 1
    BY FS_RemoveElement
  <2>3. IsFiniteSet(Before(x, S, R)) /\ d <= N - 1
    BY <2>1, <2>2, FS_Subset
  <2>4. d \in Nat
    BY <2>3, FS_CardinalityType
  <2> HIDE DEF d
  <2>5. d + 1 \in 1..N /\ (d + 1) - 1 = d
    BY <1>1, <2>3, <2>4
  <2>6. s[d + 1] \in S /\ Cardinality(Before(s[d + 1], S, R)) = d
    BY <1>3, <2>5
  <2>7. s[d + 1] = x
    BY <2>5, <2>6, Depths DEF d
  <2> QED
    BY <2>5, <2>7
<1> QED
  BY <1>5, <1>6, <1>7 DEF Lists, s

\* Of what is ordered, one comes before all others.
LEMMA OneLeads ==
    ASSUME NEW S, NEW R, IsFiniteSet(S), Orders(R, S), S # {}
    PROVE  \E x \in S : \A y \in S \ {x} : <<x, y>> \in R
<1> DEFINE s == Sorted(S, R)
<1>1. Lists(s, S, R)
  BY SortedLists
<1> HIDE DEF s
<1>2. PICK z \in S : TRUE
  OBVIOUS
<1>3. s \in Seq(S) /\ Len(s) \in Nat
  BY <1>1, LenProperties DEF Lists
<1>4. 1 \in 1..Len(s)
  BY <1>1, <1>2, <1>3 DEF Lists
<1>5. s[1] \in S
  BY <1>3, <1>4, ElementOfSeq
<1>6. ASSUME NEW y \in S \ {s[1]}  PROVE  <<s[1], y>> \in R
  <2>1. PICK n \in 1..Len(s) : s[n] = y
    BY <1>1 DEF Lists
  <2>2. 1 < n
    BY <1>3, <1>6, <2>1
  <2> QED
    BY <1>1, <1>4, <2>1, <2>2 DEF Lists
<1> QED
  BY <1>5, <1>6

\* The order of the positions.
Smaller(P) == {p \in P \X P : p[1] < p[2]}

\* The positions in their order.
LEMMA AscendingLists ==
    ASSUME NEW P, IsFiniteSet(P), P \subseteq Nat
    PROVE  Lists(Ascending(P), P, Smaller(P))
<1>1. Orders(Smaller(P), P)
  <2>1. \A x, y \in P : <<x, y>> \in Smaller(P) <=> x < y
    BY DEF Smaller
  <2> QED
    BY <2>1 DEF Orders
<1> QED
  BY <1>1, SortedLists DEF Ascending, Smaller

\* What At takes: the elements at these positions, in their order.
LEMMA AtTakes ==
    ASSUME NEW T, NEW s \in Seq(T), NEW P \in SUBSET (1..Len(s))
    PROVE  /\ At(s, P) \in Seq(T)
           /\ Len(At(s, P)) = Cardinality(P) /\ Cardinality(P) \in Nat
           /\ \A n \in 1..Len(At(s, P)) : \E k \in P : At(s, P)[n] = s[k]
           /\ \A k \in P : \E n \in 1..Len(At(s, P)) : At(s, P)[n] = s[k]
           /\ (\A j, k \in P : s[j] = s[k] => j = k) =>
                  \A m, n \in 1..Len(At(s, P)) : At(s, P)[m] = At(s, P)[n] => m = n
           /\ \A k \in P : (\A j \in P : k <= j) => Len(At(s, P)) # 0 /\ At(s, P)[1] = s[k]
<1> DEFINE f == Ascending(P)
           N == Cardinality(P)
           a == At(s, P)
<1>1. Len(s) \in Nat
  BY LenProperties
<1>17. ASSUME NEW k \in P  PROVE  k \in Nat
  BY <1>1
<1>2. IsFiniteSet(1..Len(s))
  BY <1>1, FS_Interval
<1>3. IsFiniteSet(P)
  BY <1>2, FS_Subset
<1>4. N \in Nat
  BY <1>3, FS_CardinalityType
<1>5. Lists(f, P, Smaller(P))
  BY <1>3, <1>17, AscendingLists
<1>6. a = [n \in 1..N |-> s[f[n]]]
  BY DEF At
<1> HIDE DEF f, N, a
<1>7. f \in Seq(P) /\ Len(f) = N
  BY <1>5 DEF Lists, N
<1>8. ASSUME NEW n \in 1..N  PROVE  f[n] \in P /\ a[n] = s[f[n]]
  BY <1>6, <1>7, ElementOfSeq
<1>9. ASSUME NEW k \in P  PROVE  s[k] \in T
  BY ElementOfSeq
<1>10. a \in [1..N -> T]
  BY <1>6, <1>8, <1>9
<1>11. a \in Seq(T) /\ Len(a) = N
  BY <1>4, <1>10, SeqDef, LenProperties
<1>12. ASSUME NEW k \in P  PROVE  \E n \in 1..N : f[n] = k
  BY <1>5, <1>7 DEF Lists
<1>13. ASSUME NEW m \in 1..N, NEW n \in 1..N, m < n  PROVE  f[m] < f[n]
  BY <1>5, <1>7, <1>13 DEF Lists, Smaller
<1>14. ASSUME NEW m \in 1..N, NEW n \in 1..N, f[m] = f[n]  PROVE  m = n
  <2>1. f[m] \in Nat /\ f[n] \in Nat
    BY <1>8, <1>17
  <2>2. ~ m < n /\ ~ n < m
    BY <1>13, <1>14, <2>1
  <2> QED
    BY <1>4, <2>2
<1>15. ASSUME \A j, k \in P : s[j] = s[k] => j = k, NEW m \in 1..N, NEW n \in 1..N, a[m] = a[n]
       PROVE  m = n
  <2>1. f[m] \in P /\ f[n] \in P /\ s[f[m]] = s[f[n]]
    BY <1>8, <1>15
  <2> QED
    BY <1>14, <1>15, <2>1
<1>16. ASSUME NEW k \in P, \A j \in P : k <= j  PROVE  N # 0 /\ a[1] = s[k]
  <2>1. PICK n \in 1..N : f[n] = k
    BY <1>12
  <2>2. 1 \in 1..N
    BY <1>4
  <2>3. f[1] \in P /\ f[1] \in Nat /\ k \in Nat
    BY <1>8, <1>17, <2>2
  <2>4. n = 1
    <3>1. k <= f[1]
      BY <1>16, <2>3
    <3>2. ~ 1 < n
      BY <1>13, <2>1, <2>2, <2>3, <3>1
    <3> QED
      BY <1>4, <3>2
  <2> QED
    BY <1>4, <1>8, <2>1, <2>4
<1>18. a \in Seq(T) /\ Len(a) = Cardinality(P) /\ Cardinality(P) \in Nat
  BY <1>4, <1>11 DEF N
<1>19. ASSUME NEW n \in 1..Len(a)  PROVE  \E k \in P : a[n] = s[k]
  BY <1>8, <1>11
<1>20. ASSUME NEW k \in P  PROVE  \E n \in 1..Len(a) : a[n] = s[k]
  BY <1>8, <1>11, <1>12
<1>21. (\A j, k \in P : s[j] = s[k] => j = k) =>
           \A m, n \in 1..Len(a) : a[m] = a[n] => m = n
  BY <1>11, <1>15
<1>22. ASSUME NEW k \in P, \A j \in P : k <= j  PROVE  Len(a) # 0 /\ a[1] = s[k]
  BY <1>11, <1>16, <1>22
<1> QED
  BY <1>18, <1>19, <1>20, <1>21, <1>22 DEF a

\* The first of them is the one at the least position.
LEMMA AtFirst ==
    ASSUME NEW T, NEW s \in Seq(T), NEW P \in SUBSET (1..Len(s)), NEW k \in P,
           \A j \in P : k <= j
    PROVE  At(s, P)[1] = s[k]
<1>1. \A i \in P : (\A j \in P : i <= j) => At(s, P)[1] = s[i]
  BY AtTakes
<1> QED
  BY <1>1

-----------------------------------------------------------------------------
(* What has been picked.  ps are the picks, P the pool, F the candidates   *)
(* that survived the filters, W the windows, t the tier being filled.      *)

\* A candidate as read.
Cand == [school : Schools, group : STRING, batch : STRING, major : STRING, rank : Nat,
         few : BOOLEAN, class : STRING, base : Nat, stored : Nat, query : 1..3]

\* A pick.
Pick(F) == [tier : 1..3, id : F]

\* The picks of a tier and those of a school.
OfTier(ps, t) == {n \in 1..Len(ps) : ps[n].tier = t}
OfSchool(ps, P, s) == {n \in 1..Len(ps) : P[ps[n].id].school = s}

\* The counters agree with the picks, which are of distinct places.
Tally(ps, P, F, seen, used, t, tk) ==
    /\ ps \in Seq(Pick(F))
    /\ \A n \in 1..Len(ps) : ps[n].tier <= t
    /\ tk = Cardinality(OfTier(ps, t))
    /\ seen = {Place(P[ps[n].id]) : n \in 1..Len(ps)}
    /\ \A m, n \in 1..Len(ps) : m # n => Place(P[ps[m].id]) # Place(P[ps[n].id])
    /\ used \in [Schools -> Nat]
    /\ \A s \in Schools : used[s] = Cardinality(OfSchool(ps, P, s))
                          /\ used[s] <= MaxGroupsPerSchool

\* Each pick is from the window of its tier.
InTheirWindows(ps, P, W) ==
    \A n \in 1..Len(ps) : Within(P[ps[n].id].rank, W[ps[n].tier])

\* What is no longer left in the tier cannot be taken any more.
Spent(P, F, seen, used, W, t, lf) ==
    \A i \in F : Within(P[i].rank, W[t]) /\ i \notin lf =>
        Place(P[i]) \in seen \/ used[P[i].school] >= MaxGroupsPerSchool

\* A candidate that R puts before the n-th pick was blocked by earlier ones.
Blocking(ps, P, c, n) ==
    \/ \E m \in 1..(n - 1) : Place(P[ps[m].id]) = Place(c)
    \/ Cardinality({m \in 1..(n - 1) : P[ps[m].id].school = c.school}) >= MaxGroupsPerSchool

\* Each candidate of a window that was passed over, for a pick that comes
\* after it, had been blocked by earlier picks.
Passed(ps, P, F, W, R) ==
    \A n \in 1..Len(ps) : \A i \in F :
        Within(P[i].rank, W[ps[n].tier]) /\ <<i, ps[n].id>> \in R => Blocking(ps, P, P[i], n)

\* Counting one position more.
LEMMA OneMore ==
    ASSUME NEW N \in Nat, NEW A \in SUBSET (1..N), NEW B \in SUBSET (1..(N + 1)),
           A = B \cap (1..N)
    PROVE  /\ Cardinality(A) \in Nat
           /\ Cardinality(B) = IF N + 1 \in B THEN Cardinality(A) + 1 ELSE Cardinality(A)
<1>1. IsFiniteSet(1..N)
  BY FS_Interval
<1>2. IsFiniteSet(A)
  BY <1>1, FS_Subset
<1>3. N + 1 \notin A
  OBVIOUS
<1>4. 1..(N + 1) = (1..N) \cup {N + 1}
  OBVIOUS
<1>5. CASE N + 1 \in B
  <2>1. B = A \cup {N + 1}
    BY <1>4, <1>5
  <2> QED
    BY <1>2, <1>3, <1>5, <2>1, FS_AddElement, FS_CardinalityType
<1>6. CASE N + 1 \notin B
  <2>1. B = A
    BY <1>4, <1>6
  <2> QED
    BY <1>2, <1>6, <2>1, FS_CardinalityType
<1> QED
  BY <1>5, <1>6

\* The last of a sequence that has grown, and the others.
LEMMA Appended ==
    ASSUME NEW T, NEW ps \in Seq(T), NEW e \in T
    PROVE  LET qs == Append(ps, e) IN
           /\ qs \in Seq(T) /\ Len(ps) \in Nat /\ Len(qs) = Len(ps) + 1
           /\ \A n \in 1..Len(ps) : n \in 1..Len(qs) /\ qs[n] = ps[n]
           /\ qs[Len(ps) + 1] = e
           /\ \A n \in 1..Len(qs) : n \in 1..Len(ps) \/ n = Len(ps) + 1
<1>1. Len(ps) \in Nat
  BY LenProperties
<1> QED
  BY <1>1, AppendProperties

\* Taking a candidate of a new place and a university below the cap.
LEMMA TallyGrows ==
    ASSUME NEW ps, NEW P, NEW F, NEW seen, NEW used, NEW t \in 1..3, NEW tk, NEW i \in F,
           F \subseteq DOMAIN P, P \in [DOMAIN P -> Cand],
           Tally(ps, P, F, seen, used, t, tk),
           Place(P[i]) \notin seen, used[P[i].school] < MaxGroupsPerSchool
    PROVE  Tally(Append(ps, [tier |-> t, id |-> i]), P, F, seen \cup {Place(P[i])},
                 [used EXCEPT ![P[i].school] = @ + 1], t, tk + 1)
<1> DEFINE e == [tier |-> t, id |-> i]
           qs == Append(ps, e)
           N == Len(ps)
           more == [used EXCEPT ![P[i].school] = @ + 1]
<1>1. e \in Pick(F) /\ ps \in Seq(Pick(F))
  BY DEF Pick, Tally
<1>2. P[i].school \in Schools
  BY DEF Cand
<1>3. /\ qs \in Seq(Pick(F)) /\ N \in Nat /\ Len(qs) = N + 1
      /\ \A n \in 1..N : n \in 1..Len(qs) /\ qs[n] = ps[n]
      /\ qs[N + 1] = e
      /\ \A n \in 1..Len(qs) : n \in 1..N \/ n = N + 1
  BY <1>1, Appended
<1> HIDE DEF qs, N
<1>4. e.tier = t /\ e.id = i
  OBVIOUS
<1> HIDE DEF e
<1>5. N = Len(ps)
  BY DEF N
<1>6. \A n \in 1..Len(qs) : qs[n].tier <= t
  BY <1>3, <1>4, <1>5 DEF Tally
<1>7. tk + 1 = Cardinality(OfTier(qs, t))
  <2>1. OfTier(ps, t) \in SUBSET (1..N) /\ OfTier(qs, t) \in SUBSET (1..(N + 1))
    BY <1>3, <1>5 DEF OfTier
  <2>2. OfTier(ps, t) = OfTier(qs, t) \cap (1..N)
    BY <1>3, <1>5 DEF OfTier
  <2>3. N + 1 \in OfTier(qs, t)
    BY <1>3, <1>4 DEF OfTier
  <2> QED
    BY <1>3, <2>1, <2>2, <2>3, OneMore DEF Tally
<1>8. seen \cup {Place(P[i])} = {Place(P[qs[n].id]) : n \in 1..Len(qs)}
  <2>1. seen = {Place(P[ps[n].id]) : n \in 1..N}
    BY <1>5 DEF Tally
  <2>2. Place(P[i]) = Place(P[qs[N + 1].id]) /\ N + 1 \in 1..Len(qs)
    BY <1>3, <1>4
  <2>3. \A n \in 1..N : Place(P[ps[n].id]) = Place(P[qs[n].id])
    BY <1>3
  <2> QED
    BY <1>3, <2>1, <2>2, <2>3
<1>9. ASSUME NEW m \in 1..Len(qs), NEW n \in 1..Len(qs), m # n
      PROVE  Place(P[qs[m].id]) # Place(P[qs[n].id])
  <2>1. \A k \in 1..N : qs[k] = ps[k] /\ Place(P[ps[k].id]) \in seen
    BY <1>3, <1>5 DEF Tally
  <2>2. CASE m = N + 1
    BY <1>3, <1>4, <1>9, <2>1, <2>2
  <2>3. CASE n = N + 1
    BY <1>3, <1>4, <1>9, <2>1, <2>3
  <2>4. CASE m # N + 1 /\ n # N + 1
    BY <1>3, <1>5, <1>9, <2>1, <2>4 DEF Tally
  <2> QED
    BY <2>2, <2>3, <2>4
<1>10. more \in [Schools -> Nat]
  BY <1>2 DEF Tally
<1>11. ASSUME NEW s \in Schools
       PROVE  more[s] = Cardinality(OfSchool(qs, P, s)) /\ more[s] <= MaxGroupsPerSchool
  <2>1. OfSchool(ps, P, s) \in SUBSET (1..N) /\ OfSchool(qs, P, s) \in SUBSET (1..(N + 1))
    BY <1>3, <1>5 DEF OfSchool
  <2>2. OfSchool(ps, P, s) = OfSchool(qs, P, s) \cap (1..N)
    BY <1>3, <1>5 DEF OfSchool
  <2>3. N + 1 \in OfSchool(qs, P, s) <=> P[i].school = s
    BY <1>3, <1>4 DEF OfSchool
  <2>4. used \in [Schools -> Nat] /\ used[s] = Cardinality(OfSchool(ps, P, s))
        /\ used[s] <= MaxGroupsPerSchool
    BY DEF Tally
  <2>5. more[s] = IF P[i].school = s THEN used[s] + 1 ELSE used[s]
    BY <1>2, <2>4
  <2>6. more[s] = Cardinality(OfSchool(qs, P, s))
    BY <1>3, <2>1, <2>2, <2>3, <2>4, <2>5, OneMore
  <2>7. MaxGroupsPerSchool \in Nat /\ used[s] \in Nat
    BY <2>4, CapsAssumption
  <2> QED
    BY <2>4, <2>5, <2>6, <2>7
<1> QED
  BY <1>3, <1>6, <1>7, <1>8, <1>9, <1>10, <1>11 DEF Tally, qs, e

\* What blocked a candidate before goes on blocking it.
LEMMA BlockingStays ==
    ASSUME NEW T, NEW ps \in Seq(T), NEW e \in T, NEW P, NEW c, NEW n \in 1..Len(ps)
    PROVE  Blocking(Append(ps, e), P, c, n) <=> Blocking(ps, P, c, n)
<1> DEFINE qs == Append(ps, e)
<1>1. Len(ps) \in Nat /\ \A m \in 1..Len(ps) : qs[m] = ps[m]
  BY Appended
<1> HIDE DEF qs
<1>2. \A m \in 1..(n - 1) : qs[m] = ps[m]
  BY <1>1
<1>3. {m \in 1..(n - 1) : P[qs[m].id].school = c.school}
      = {m \in 1..(n - 1) : P[ps[m].id].school = c.school}
  BY <1>2
<1>4. Blocking(qs, P, c, n) <=> Blocking(ps, P, c, n)
  BY <1>2, <1>3 DEF Blocking
<1> QED
  BY <1>4 DEF qs

\* A pick is passed over nothing that could have been taken instead.
LEMMA PassedGrows ==
    ASSUME NEW ps, NEW P, NEW F, NEW seen, NEW used, NEW W, NEW R, NEW t \in 1..3, NEW tk,
           NEW lf, NEW i \in F,
           P \in [DOMAIN P -> Cand], F \subseteq DOMAIN P, Orders(R, F), lf \subseteq F, i \in lf,
           \A j \in lf \ {i} : <<i, j>> \in R,
           Tally(ps, P, F, seen, used, t, tk),
           Spent(P, F, seen, used, W, t, lf),
           Passed(ps, P, F, W, R)
    PROVE  Passed(Append(ps, [tier |-> t, id |-> i]), P, F, W, R)
<1> DEFINE e == [tier |-> t, id |-> i]
           qs == Append(ps, e)
           N == Len(ps)
<1>1. e \in Pick(F) /\ ps \in Seq(Pick(F))
  BY DEF Pick, Tally
<1>2. /\ N \in Nat /\ Len(qs) = N + 1
      /\ \A n \in 1..N : n \in 1..Len(qs) /\ qs[n] = ps[n]
      /\ qs[N + 1] = e
      /\ \A n \in 1..Len(qs) : n \in 1..N \/ n = N + 1
  BY <1>1, Appended
<1>3. \A c, n : n \in 1..N => (Blocking(qs, P, c, n) <=> Blocking(ps, P, c, n))
  BY <1>1, BlockingStays
<1> HIDE DEF qs, N
<1>4. e.tier = t /\ e.id = i
  OBVIOUS
<1> HIDE DEF e
<1>5. N = Len(ps)
  BY DEF N
<1>6. ASSUME NEW n \in 1..Len(qs), NEW j \in F,
             Within(P[j].rank, W[qs[n].tier]), <<j, qs[n].id>> \in R
      PROVE  Blocking(qs, P, P[j], n)
  <2>1. CASE n \in 1..N
    <3>1. qs[n] = ps[n]
      BY <1>2, <2>1
    <3>2. Blocking(ps, P, P[j], n)
      BY <1>5, <1>6, <2>1, <3>1 DEF Passed
    <3> QED
      BY <1>3, <2>1, <3>2
  <2>2. CASE n = N + 1
    <3>1. qs[n].tier = t /\ qs[n].id = i
      BY <1>2, <1>4, <2>2
    <3>2. j \notin lf
      BY <1>6, <3>1 DEF Orders
    <3>3. Place(P[j]) \in seen \/ used[P[j].school] >= MaxGroupsPerSchool
      BY <1>6, <3>1, <3>2 DEF Spent
    <3>4. n - 1 = N /\ \A m \in 1..N : qs[m] = ps[m]
      BY <1>2, <2>2
    <3>5. CASE Place(P[j]) \in seen
      <4>1. PICK m \in 1..N : Place(P[j]) = Place(P[ps[m].id])
        BY <1>5, <3>5 DEF Tally
      <4> QED
        BY <3>4, <4>1 DEF Blocking
    <3>6. CASE used[P[j].school] >= MaxGroupsPerSchool
      <4>1. P[j].school \in Schools
        BY DEF Cand
      <4>2. used[P[j].school] = Cardinality(OfSchool(ps, P, P[j].school))
        BY <4>1 DEF Tally
      <4>3. OfSchool(ps, P, P[j].school) = {m \in 1..(n - 1) : P[qs[m].id].school = P[j].school}
        BY <1>5, <3>4 DEF OfSchool
      <4> QED
        BY <3>6, <4>2, <4>3 DEF Blocking
    <3> QED
      BY <3>3, <3>5, <3>6
  <2> QED
    BY <1>2, <2>1, <2>2
<1> QED
  BY <1>6 DEF Passed, qs, e

\* The candidate that was looked at is blocked now, if only by itself.
LEMMA SpentGrows ==
    ASSUME NEW P, NEW F, NEW seen, NEW used, NEW W, NEW t, NEW lf, NEW i \in F,
           P \in [DOMAIN P -> Cand], F \subseteq DOMAIN P, used \in [Schools -> Nat],
           Spent(P, F, seen, used, W, t, lf)
    PROVE  /\ Spent(P, F, seen \cup {Place(P[i])}, [used EXCEPT ![P[i].school] = @ + 1],
                    W, t, lf \ {i})
           /\ Place(P[i]) \in seen \/ used[P[i].school] >= MaxGroupsPerSchool =>
                  Spent(P, F, seen, used, W, t, lf \ {i})
<1> DEFINE more == [used EXCEPT ![P[i].school] = @ + 1]
<1>1. ASSUME NEW j \in F
      PROVE  more[P[j].school] >= MaxGroupsPerSchool \/ ~ used[P[j].school] >= MaxGroupsPerSchool
  <2>1. P[i].school \in Schools /\ P[j].school \in Schools
    BY DEF Cand
  <2>2. used[P[j].school] \in Nat /\ more[P[j].school] \in {used[P[j].school], used[P[j].school] + 1}
    BY <2>1
  <2>3. MaxGroupsPerSchool \in Nat
    BY CapsAssumption
  <2> QED
    BY <2>2, <2>3
<1> HIDE DEF more
<1>2. Spent(P, F, seen \cup {Place(P[i])}, more, W, t, lf \ {i})
  BY <1>1 DEF Spent
<1>3. Place(P[i]) \in seen \/ used[P[i].school] >= MaxGroupsPerSchool =>
          Spent(P, F, seen, used, W, t, lf \ {i})
  BY DEF Spent
<1> QED
  BY <1>2, <1>3 DEF more

\* The next pick is from the window of the tier, too.
LEMMA WindowsGrow ==
    ASSUME NEW T, NEW ps \in Seq(T), NEW P, NEW W, NEW t, NEW i, [tier |-> t, id |-> i] \in T,
           InTheirWindows(ps, P, W), Within(P[i].rank, W[t])
    PROVE  InTheirWindows(Append(ps, [tier |-> t, id |-> i]), P, W)
<1> DEFINE e == [tier |-> t, id |-> i]
           qs == Append(ps, e)
<1>1. /\ \A n \in 1..Len(ps) : qs[n] = ps[n]
      /\ qs[Len(ps) + 1] = e
      /\ \A n \in 1..Len(qs) : n \in 1..Len(ps) \/ n = Len(ps) + 1
  BY Appended
<1>2. e.tier = t /\ e.id = i
  OBVIOUS
<1> HIDE DEF qs, e
<1>3. InTheirWindows(qs, P, W)
  BY <1>1, <1>2 DEF InTheirWindows
<1> QED
  BY <1>3 DEF qs, e

-----------------------------------------------------------------------------
(* Invariant *)

\* The tables.
TableTyped ==
    /\ IsFiniteSet(DOMAIN catalogue) /\ DOMAIN catalogue \subseteq Nat
    /\ catalogue \in [DOMAIN catalogue -> Line]
    /\ \A i \in DOMAIN catalogue : catalogue[i].school \in Schools
                                   /\ ScoreKey(catalogue[i]) \in ScoreKeys
    /\ stored \in [ScoreKeys -> Nat]
    /\ job.todo \subseteq ScoreKeys

\* The call.
CallTyped == stage \in Stages /\ req \in Request /\ tier \in 1..3

\* What the call has read and what it still looks at.
PoolTyped ==
    /\ DOMAIN pool \subseteq DOMAIN catalogue
    /\ pool \in [DOMAIN pool -> Cand]
    /\ filtered \subseteq DOMAIN pool
    /\ left \subseteq filtered

\* The loop over the tiers has begun.
Picking == stage = "pick" \/ Planned

\* Each step of the call finds what the steps before it have not touched.
Fresh ==
    /\ stage \in {"idle", "year"} => DOMAIN pool = {}
    /\ stage \in {"idle", "year", "names", "filter"} => tier = 1
    /\ stage \notin {"pick", "done"} => filtered = {}
    /\ ~Picking => picked = << >> /\ seenGroups = {} /\ left = {} /\ took = 0
                   /\ usedSchools = [s \in Schools |-> 0]

\* The windows of a call that was accepted follow one another.
Framed ==
    stage \notin {"idle", "failed"} =>
        /\ req.rank # 0 /\ req.size # 0
        /\ windows \in [1..3 -> [min : Nat, max : Nat]]
        /\ \A m, n \in 1..3 : m < n => windows[m].max <= windows[n].min

\* Each candidate was read from the window of its query, and with the score
\* that is stored unless that has been written since.
Fetched ==
    \A i \in DOMAIN pool :
        LET key == [school |-> pool[i].school, major |-> pool[i].major] IN
        /\ Within(pool[i].rank, windows[pool[i].query])
        /\ key \in ScoreKeys
        /\ pool[i].stored = stored[key] \/ key \in touched

\* The places the later tiers begin with.
Rest(t, size) ==
    CASE t = 1 -> size - (size \div 4)
      [] t = 2 -> size \div 4
      [] t = 3 -> 0

\* Who comes before whom, with the scores of this call.
Ranking == {p \in (DOMAIN pool) \X (DOMAIN pool) : Better(p[1], p[2])}

\* The sets and counters of the loop, what was read and how it is ranked agree
\* with the picks.
Counted == Tally(picked, pool, filtered, seenGroups, usedSchools, tier, took)

Windowed == InTheirWindows(picked, pool, windows)

BestPicked == Passed(picked, pool, filtered, windows, Ranking)

\* The plan is filled as far as it can be, tier after tier.
Filling ==
    /\ Picking =>
           /\ \A i \in left : Within(pool[i].rank, windows[tier])
           /\ Spent(pool, filtered, seenGroups, usedSchools, windows, tier, left)
           /\ quota \in Nat /\ took <= quota
           /\ Len(picked) + quota + Rest(tier, req.size) = took + req.size
    /\ Planned => tier = 3 /\ (took = quota \/ left = {})

\* The inductive invariant.
Inv == /\ TableTyped /\ CallTyped /\ PoolTyped /\ Fresh /\ Framed /\ Fetched
       /\ Counted /\ Windowed /\ BestPicked /\ Filling

-----------------------------------------------------------------------------
(* The table and the call. *)

\* The schools and the keys of scores are those of the lines.
LEMMA Names == /\ Schools \subseteq STRING
               /\ \A row \in Rows : row \in Line /\ row.school \in Schools
                                    /\ ScoreKey(row) \in ScoreKeys
  BY DataAssumption DEF Schools, ScoreKeys, Line

\* A line whose rank is rewritten.
LEMMA RankRewritten ==
    ASSUME NEW row \in Line, NEW rank \in Nat
    PROVE  /\ [row EXCEPT !.rank = rank] \in Line
           /\ [row EXCEPT !.rank = rank].school = row.school
           /\ ScoreKey([row EXCEPT !.rank = rank]) = ScoreKey(row)
  BY DEF Line, ScoreKey

\* Imports and refreshes keep the tables.
LEMMA TableKept == ASSUME TableTyped, [Next]_vars  PROVE TableTyped'
<1> USE DEF table
<1>1. CASE UNCHANGED <<catalogue, stored, job>>
  BY <1>1 DEF TableTyped
<1>2. CASE Refresh
  <2>1. job'.todo \subseteq ScoreKeys
    BY <1>2 DEF Refresh, PendingForRefresh
  <2> QED
    BY <1>2, <2>1 DEF TableTyped, Refresh
<1>3. CASE RefreshIsCut
  BY <1>3 DEF TableTyped, RefreshIsCut
<1>4. ASSUME NEW k \in job.todo, EvaluateFails(k)  PROVE TableTyped'
  BY <1>4 DEF TableTyped, EvaluateFails, Evaluated
<1>5. ASSUME NEW k \in job.todo, NEW s \in Scores, Upsert(k, s)  PROVE TableTyped'
  <2>1. s \in Nat
    BY DataAssumption
  <2>2. stored' \in [ScoreKeys -> Nat]
    BY <1>5, <2>1 DEF TableTyped, Upsert
  <2> QED
    BY <1>5, <2>2 DEF TableTyped, Upsert, Evaluated
<1>6. ASSUME NEW i \in DOMAIN catalogue, NEW r \in Ranks, Import(i, r)  PROVE TableTyped'
  <2>1. r \in Nat
    BY DataAssumption
  <2> DEFINE row == [catalogue[i] EXCEPT !.rank = r]
  <2>2. catalogue' = [catalogue EXCEPT ![i] = row]
    BY <1>6 DEF Import
  <2>3. row \in Line /\ row.school = catalogue[i].school /\ ScoreKey(row) = ScoreKey(catalogue[i])
    BY <2>1, RankRewritten DEF TableTyped
  <2> HIDE DEF row
  <2>4. DOMAIN catalogue' = DOMAIN catalogue
    BY <2>2
  <2>5. catalogue' \in [DOMAIN catalogue -> Line]
    BY <2>2, <2>3 DEF TableTyped
  <2>6. \A j \in DOMAIN catalogue : catalogue'[j] = IF j = i THEN row ELSE catalogue[j]
    BY <2>2 DEF TableTyped
  <2>7. \A j \in DOMAIN catalogue : catalogue'[j].school \in Schools
                                    /\ ScoreKey(catalogue'[j]) \in ScoreKeys
    BY <2>3, <2>6 DEF TableTyped
  <2>8. UNCHANGED <<stored, job>>
    BY <1>6 DEF Import
  <2> QED
    BY <2>4, <2>5, <2>7, <2>8 DEF TableTyped
<1>7. CASE Call
  BY <1>1, <1>7 DEF Call, Ask, Refuse, ResolveAdmissionYear, FetchBucketCandidates,
     OverrideMajorNames, Filter, Preview, StartPicking, PickBucket, NextTier, Recommend, QueryFails
<1>8. CASE Answered \/ UNCHANGED vars
  BY <1>1, <1>8 DEF Answered, vars
<1> QED
  BY <1>2, <1>3, <1>4, <1>5, <1>6, <1>7, <1>8 DEF Next, Background

\* The two inner bounds are shared, and scaling keeps the order.
LEMMA WindowsFollow ==
    ASSUME NEW rank \in Nat \ {0}, NEW lower \in Scaled(rank, 85), NEW upper \in Scaled(rank, 115)
    PROVE  LET W == ComputeBucketWindows(rank, lower, upper) IN
           /\ W \in [1..3 -> [min : Nat, max : Nat]]
           /\ \A m, n \in 1..3 : m < n => W[m].max <= W[n].min
<1>1. lower \in Nat /\ upper \in Nat
  BY DEF Scaled
<1>2. rank \div 2 \in Nat /\ 2 * rank \in Nat /\ rank \div 2 <= rank
  OBVIOUS
<1>3. lower = 0 \/ rank \div 2 <= lower
  BY DEF Scaled
<1>4. lower <= rank
  BY DEF Scaled
<1>5. rank <= upper + 1 /\ lower <= upper /\ (lower = 0 => rank = 1)
  BY DEF Scaled
<1>6. upper <= 2 * rank
  BY DEF Scaled
<1>7. rank = 1 => rank \div 2 = 0
  OBVIOUS
<1> DEFINE A == ClampBucketWindow(rank \div 2, lower)
           B == ClampBucketWindow(lower, upper)
           C == ClampBucketWindow(upper, 2 * rank)
<1>8. A \in [min : Nat, max : Nat] /\ B \in [min : Nat, max : Nat] /\ C \in [min : Nat, max : Nat]
  BY <1>1, <1>2 DEF ClampBucketWindow
<1>9. A.max <= B.min
  BY <1>1, <1>2, <1>3, <1>5, <1>7 DEF ClampBucketWindow
<1>10. B.min <= B.max
  BY <1>1 DEF ClampBucketWindow
<1>11. B.max <= C.min
  BY <1>1, <1>5 DEF ClampBucketWindow
<1>12. ComputeBucketWindows(rank, lower, upper) = <<A, B, C>>
  BY DEF ComputeBucketWindows
<1> HIDE DEF A, B, C
<1>13. <<A, B, C>> \in [1..3 -> [min : Nat, max : Nat]]
  BY <1>8
<1>14. \A m, n \in 1..3 : m < n => <<A, B, C>>[m].max <= <<A, B, C>>[n].min
  BY <1>8, <1>9, <1>10, <1>11
<1> QED
  BY <1>12, <1>13, <1>14

\* Every request that is accepted asks for a plan of at least one place.
LEMMA Accepted ==
    ASSUME NEW r \in Request, Valid(r)
    PROVE  /\ [r EXCEPT !.size = PlanSize(r)] \in Request
           /\ [r EXCEPT !.size = PlanSize(r)].rank \in Nat \ {0}
           /\ [r EXCEPT !.size = PlanSize(r)].size \in Nat \ {0}
<1>1. r.size \in Nat /\ r.rank \in Nat \ {0}
  BY DEF Request, Valid
<1>2. PlanSize(r) \in Nat \ {0}
  BY <1>1, CapsAssumption DEF PlanSize
<1> DEFINE size == PlanSize(r)
<1> HIDE DEF size
<1>3. size \in Nat \ {0}
  BY <1>2 DEF size
<1>4. [r EXCEPT !.size = size] \in Request
  BY <1>3 DEF Request
<1>5. [r EXCEPT !.size = size].rank = r.rank /\ [r EXCEPT !.size = size].size = size
  BY DEF Request
<1> QED
  BY <1>1, <1>3, <1>4, <1>5 DEF size

\* What goes on beside the call leaves it alone.
LEMMA Beside ==
    ASSUME [Next]_vars
    PROVE  Call \/ UNCHANGED <<stage, req, year, windows, pool, filtered, picks, reply>>
  BY DEF Next, Background, Answered, Refresh, RefreshIsCut, EvaluateFails, Upsert, Import, vars

\* Every step keeps the call.
LEMMA CallKept == ASSUME CallTyped, [Next]_vars  PROVE CallTyped'
<1> USE DEF picks
<1>1. CASE UNCHANGED <<stage, req, year, windows, pool, filtered, picks, reply>>
  BY <1>1 DEF CallTyped
<1>2. CASE Ask(req)
  <2>1. req' \in Request
    BY <1>2, Accepted DEF Ask, CallTyped
  <2> QED
    BY <1>2, <2>1 DEF Ask, CallTyped, Stages
<1>3. CASE Refuse(req) \/ ResolveAdmissionYear \/ QueryFails \/ OverrideMajorNames
           \/ Filter \/ PickBucket \/ Recommend
  BY <1>3 DEF Refuse, ResolveAdmissionYear, QueryFails, OverrideMajorNames, Filter, Preview,
     StartPicking, PickBucket, Take, Recommend, CallTyped, Stages
<1>4. CASE FetchBucketCandidates \/ NextTier
  BY <1>4 DEF FetchBucketCandidates, NextTier, CallTyped, Stages
<1> QED
  BY <1>1, <1>2, <1>3, <1>4, Beside DEF Call

\* A line that is read becomes a candidate.
LEMMA CandidateTyped ==
    ASSUME TableTyped, NEW i \in DOMAIN catalogue, NEW n \in 1..3
    PROVE  /\ Candidate(i, n) \in Cand
           /\ Candidate(i, n).query = n
           /\ Candidate(i, n).rank = catalogue[i].rank
           /\ [school |-> Candidate(i, n).school, major |-> Candidate(i, n).major] \in ScoreKeys
           /\ Candidate(i, n).stored
              = stored[[school |-> Candidate(i, n).school, major |-> Candidate(i, n).major]]
<1>1. catalogue[i] \in Line /\ catalogue[i].school \in Schools /\ ScoreKey(catalogue[i]) \in ScoreKeys
  BY DEF TableTyped
<1>2. stored[ScoreKey(catalogue[i])] \in Nat
  BY <1>1 DEF TableTyped
<1> QED
  BY <1>1, <1>2 DEF Candidate, Cand, Line, ScoreKey

\* A candidate under another name.
LEMMA Renamed ==
    ASSUME NEW c \in Cand, NEW class \in STRING
    PROVE  /\ [c EXCEPT !.class = class] \in Cand
           /\ [c EXCEPT !.class = class].school = c.school
           /\ [c EXCEPT !.class = class].major = c.major
           /\ [c EXCEPT !.class = class].rank = c.rank
           /\ [c EXCEPT !.class = class].query = c.query
           /\ [c EXCEPT !.class = class].stored = c.stored
  BY DEF Cand

\* The pool after a query: what it was, and the lines the query found.
LEMMA PoolAfterQuery ==
    ASSUME TableTyped, CallTyped, FetchBucketCandidates
    PROVE  /\ DOMAIN pool' = (DOMAIN pool) \cup FetchCandidates(tier)
           /\ FetchCandidates(tier) \subseteq DOMAIN catalogue
           /\ \A i \in DOMAIN pool : pool'[i] = pool[i]
           /\ \A i \in FetchCandidates(tier) \ DOMAIN pool :
                  /\ pool'[i] = Candidate(i, tier)
                  /\ Within(catalogue[i].rank, windows[tier])
<1>1. pool' = [i \in (DOMAIN pool) \cup FetchCandidates(tier) |->
                   IF i \in DOMAIN pool THEN pool[i] ELSE Candidate(i, tier)]
  BY DEF FetchBucketCandidates
<1>2. \A i \in FetchCandidates(tier) : i \in DOMAIN catalogue
                                       /\ Within(catalogue[i].rank, windows[tier])
  BY DEF FetchCandidates, Matches
<1> QED
  BY <1>1, <1>2

\* The pool under the latest names: every candidate is still what it was, but
\* for its name.
LEMMA PoolAfterNames ==
    ASSUME TableTyped, PoolTyped, OverrideMajorNames
    PROVE  /\ DOMAIN pool' = DOMAIN pool
           /\ \A i \in DOMAIN pool :
                  /\ pool'[i] \in Cand
                  /\ pool'[i].school = pool[i].school /\ pool'[i].major = pool[i].major
                  /\ pool'[i].rank = pool[i].rank /\ pool'[i].query = pool[i].query
                  /\ pool'[i].stored = pool[i].stored
<1>1. CASE pool' = pool
  BY <1>1 DEF PoolTyped
<1>2. CASE pool' = [i \in DOMAIN pool |->
                 IF LatestNames(pool[i]) = {} THEN pool[i]
                 ELSE [pool[i] EXCEPT !.class = CHOOSE c \in LatestNames(pool[i]) : TRUE]]
  <2>1. ASSUME NEW i \in DOMAIN pool, LatestNames(pool[i]) # {}
        PROVE  (CHOOSE c \in LatestNames(pool[i]) : TRUE) \in STRING
    <3>1. LatestNames(pool[i]) \subseteq STRING
      BY DEF LatestNames, TableTyped, Line
    <3> QED
      BY <2>1, <3>1
  <2>2. ASSUME NEW i \in DOMAIN pool
        PROVE  pool[i] \in Cand
               /\ (pool'[i] = pool[i] \/ \E c \in STRING : pool'[i] = [pool[i] EXCEPT !.class = c])
    <3> DEFINE named == LatestNames(pool[i])
               name == CHOOSE c \in named : TRUE
               c == pool[i]
    <3>1. pool'[i] = IF named = {} THEN pool[i] ELSE [pool[i] EXCEPT !.class = name]
      BY <1>2
    <3>2. named # {} => name \in STRING
      BY <2>1
    <3>3. c \in Cand
      BY DEF PoolTyped
    <3> HIDE DEF named, name
    <3> QED
      BY <3>1, <3>2, <3>3
  <2>3. DOMAIN pool' = DOMAIN pool
    BY <1>2
  <2>4. ASSUME NEW i \in DOMAIN pool
        PROVE  /\ pool'[i] \in Cand
               /\ pool'[i].school = pool[i].school /\ pool'[i].major = pool[i].major
               /\ pool'[i].rank = pool[i].rank /\ pool'[i].query = pool[i].query
               /\ pool'[i].stored = pool[i].stored
    <3> DEFINE a == pool[i]
               b == pool'[i]
    <3>1. a \in Cand /\ (b = a \/ \E c \in STRING : b = [a EXCEPT !.class = c])
      BY <2>2
    <3> HIDE DEF a, b
    <3>2. /\ b \in Cand
          /\ b.school = a.school /\ b.major = a.major
          /\ b.rank = a.rank /\ b.query = a.query /\ b.stored = a.stored
      <4>1. CASE b = a
        BY <3>1, <4>1
      <4>2. ASSUME NEW c \in STRING, b = [a EXCEPT !.class = c]
            PROVE  /\ b \in Cand
                   /\ b.school = a.school /\ b.major = a.major
                   /\ b.rank = a.rank /\ b.query = a.query /\ b.stored = a.stored
        <5>1. /\ [a EXCEPT !.class = c] \in Cand
              /\ [a EXCEPT !.class = c].school = a.school
              /\ [a EXCEPT !.class = c].major = a.major
              /\ [a EXCEPT !.class = c].rank = a.rank
              /\ [a EXCEPT !.class = c].query = a.query
              /\ [a EXCEPT !.class = c].stored = a.stored
          BY <3>1, Renamed
        <5> QED
          BY <4>2, <5>1
      <4> QED
        BY <3>1, <4>1, <4>2
    <3> QED
      BY <3>2 DEF a, b
  <2> QED
    BY <2>3, <2>4
<1> QED
  BY <1>1, <1>2 DEF OverrideMajorNames

\* Every step keeps the pool: a query and the lookup of names write candidates
\* of lines that exist.
LEMMA PoolKept ==
    ASSUME TableTyped, TableTyped', CallTyped, PoolTyped, Fresh, [Next]_vars
    PROVE  PoolTyped'
<1> USE DEF picks, table
<1>1. CASE UNCHANGED <<catalogue, pool, filtered, left>>
  BY <1>1 DEF PoolTyped
<1>2. DOMAIN catalogue' = DOMAIN catalogue
  <2>1. CASE UNCHANGED catalogue
    BY <2>1
  <2>2. ASSUME NEW i \in DOMAIN catalogue, NEW r \in Ranks, Import(i, r)
        PROVE  DOMAIN catalogue' = DOMAIN catalogue
    BY <2>2 DEF Import
  <2>3. CASE Call
    BY <2>1, <2>3 DEF Call, Ask, Refuse, ResolveAdmissionYear, FetchBucketCandidates,
       OverrideMajorNames, Filter, Preview, StartPicking, PickBucket, NextTier, Recommend, QueryFails
  <2> QED
    BY <2>1, <2>2, <2>3 DEF Next, Background, Answered, Refresh, RefreshIsCut, EvaluateFails,
       Upsert, vars
<1>3. CASE UNCHANGED <<pool, filtered, left>>
  BY <1>2, <1>3 DEF PoolTyped
<1>4. CASE Ask(req) \/ Refuse(req) \/ ResolveAdmissionYear \/ QueryFails \/ Recommend
  BY <1>3, <1>4 DEF Ask, Refuse, ResolveAdmissionYear, QueryFails, Recommend
<1>5. CASE FetchBucketCandidates
  <2>1. pool' \in [DOMAIN pool' -> Cand]
    <3>1. pool' = [i \in DOMAIN pool' |-> pool'[i]]
      BY <1>5 DEF FetchBucketCandidates
    <3>2. \A i \in DOMAIN pool' : pool'[i] \in Cand
      <4>1. \A i \in DOMAIN pool : pool'[i] \in Cand
        BY <1>5, PoolAfterQuery DEF PoolTyped
      <4>2. \A i \in (DOMAIN pool') \ DOMAIN pool : i \in DOMAIN catalogue
                                                    /\ pool'[i] = Candidate(i, tier)
        BY <1>5, PoolAfterQuery
      <4>3. \A i \in (DOMAIN pool') \ DOMAIN pool : pool'[i] \in Cand
        <5> SUFFICES ASSUME NEW i \in (DOMAIN pool') \ DOMAIN pool  PROVE pool'[i] \in Cand
          OBVIOUS
        <5>1. i \in DOMAIN catalogue /\ pool'[i] = Candidate(i, tier)
          BY <4>2
        <5>2. tier \in 1..3
          BY DEF CallTyped
        <5>3. Candidate(i, tier) \in Cand
          BY <5>1, <5>2, CandidateTyped
        <5> QED
          BY <5>1, <5>3
      <4> QED
        BY <4>1, <4>3
    <3> QED
      BY <3>1, <3>2
  <2>2. UNCHANGED <<filtered, left>>
    BY <1>5 DEF FetchBucketCandidates
  <2> QED
    BY <1>2, <1>5, <2>1, <2>2, PoolAfterQuery DEF PoolTyped
<1>6. CASE OverrideMajorNames
  <2>1. pool' \in [DOMAIN pool' -> Cand]
    <3>1. pool' = [i \in DOMAIN pool' |-> pool'[i]]
      BY <1>6 DEF OverrideMajorNames, PoolTyped
    <3> QED
      BY <1>6, <3>1, PoolAfterNames
  <2>2. UNCHANGED <<filtered, left>>
    BY <1>6 DEF OverrideMajorNames
  <2> QED
    BY <1>2, <1>6, <2>1, <2>2, PoolAfterNames DEF PoolTyped
<1>7. CASE Filter
  <2>1. UNCHANGED pool /\ filtered' \subseteq DOMAIN pool
    BY <1>7 DEF Filter, Preview, StartPicking, FilterByPreference
  <2>2. left' \subseteq filtered'
    <3>1. CASE Preview
      BY <1>7, <3>1 DEF Filter, Preview, Fresh, PoolTyped, Picking, Planned
    <3>2. CASE StartPicking
      BY <3>2 DEF StartPicking, InWindow
    <3> QED
      BY <1>7, <3>1, <3>2 DEF Filter
  <2> QED
    BY <1>2, <2>1, <2>2 DEF PoolTyped
<1>8. CASE PickBucket
  BY <1>2, <1>8 DEF PickBucket, PoolTyped
<1>9. CASE NextTier
  BY <1>2, <1>9 DEF NextTier, PoolTyped, InWindow
<1> QED
  BY <1>3, <1>4, <1>5, <1>6, <1>7, <1>8, <1>9, Beside DEF Call

\* No step touches what a later step begins with.
LEMMA FreshKept == ASSUME CallTyped, Fresh, [Next]_vars  PROVE Fresh'
<1> USE DEF picks, Picking, Planned
<1>1. CASE UNCHANGED <<stage, req, year, windows, pool, filtered, picks, reply>>
  BY <1>1 DEF Fresh
<1>2. CASE Ask(req) \/ Refuse(req) \/ ResolveAdmissionYear \/ QueryFails
  BY <1>2 DEF Fresh, Ask, Refuse, ResolveAdmissionYear, QueryFails
<1>3. CASE FetchBucketCandidates
  BY <1>3 DEF Fresh, FetchBucketCandidates
<1>4. CASE OverrideMajorNames
  <2>1. UNCHANGED <<tier, filtered, picked, seenGroups, left, took, usedSchools>>
        /\ stage = "names" /\ stage' = "filter"
    BY <1>4 DEF OverrideMajorNames
  <2> QED
    BY <2>1 DEF Fresh
<1>5. CASE Filter
  BY <1>5 DEF Fresh, Filter, Preview, StartPicking, PreviewReply
<1>6. CASE PickBucket \/ NextTier \/ Recommend
  BY <1>6 DEF Fresh, PickBucket, NextTier, Recommend, Open
<1> QED
  BY <1>1, <1>2, <1>3, <1>4, <1>5, <1>6, Beside DEF Call

\* Once a request is accepted its windows stay.
LEMMA FramedKept == ASSUME CallTyped, Framed, [Next]_vars  PROVE Framed'
<1> USE DEF picks
<1>1. CASE UNCHANGED <<stage, req, year, windows, pool, filtered, picks, reply>>
  BY <1>1 DEF Framed
<1>2. CASE Ask(req)
  <2>1. PICK lower \in Scaled(req.rank, 85), upper \in Scaled(req.rank, 115) :
            windows' = ComputeBucketWindows(req.rank, lower, upper)
    BY <1>2 DEF Ask
  <2>2. Valid(req) /\ req' = [req EXCEPT !.size = PlanSize(req)]
    BY <1>2 DEF Ask
  <2>3. req'.rank # 0 /\ req'.size # 0
    BY <2>2, Accepted DEF CallTyped
  <2>4. req.rank \in Nat \ {0}
    BY <2>2 DEF Valid, CallTyped, Request
  <2>5. windows' \in [1..3 -> [min : Nat, max : Nat]]
        /\ \A m, n \in 1..3 : m < n => windows'[m].max <= windows'[n].min
    BY <2>1, <2>4, WindowsFollow
  <2> QED
    BY <2>3, <2>5 DEF Framed
<1>3. CASE Refuse(req) \/ QueryFails
  BY <1>3 DEF Framed, Refuse, QueryFails
<1>4. CASE stage \notin {"idle", "failed"} /\ UNCHANGED <<req, windows>>
  BY <1>4 DEF Framed
<1> QED
  BY <1>1, <1>2, <1>3, <1>4, Beside DEF Call, ResolveAdmissionYear, FetchBucketCandidates,
     OverrideMajorNames, Filter, Preview, StartPicking, PickBucket, NextTier, Recommend, Open

\* A refresh that changes a score a candidate was read with is recorded.
LEMMA FetchedKept ==
    ASSUME TableTyped, CallTyped, PoolTyped, Fresh, Fetched, [Next]_vars
    PROVE  Fetched'
<1> USE DEF picks, table
<1>1. CASE UNCHANGED <<stored, touched, windows, pool>>
  BY <1>1 DEF Fetched
<1>2. CASE DOMAIN pool' = {}
  BY <1>2 DEF Fetched
<1>3. CASE Call
  <2>1. CASE Ask(req)
    BY <1>2, <2>1 DEF Ask, Fresh
  <2>2. CASE FetchBucketCandidates
    <3>1. UNCHANGED <<stored, touched, windows>>
      BY <2>2 DEF FetchBucketCandidates
    <3>2. ASSUME NEW i \in DOMAIN pool
          PROVE  LET key == [school |-> pool'[i].school, major |-> pool'[i].major] IN
                 /\ Within(pool'[i].rank, windows[pool'[i].query])
                 /\ key \in ScoreKeys
                 /\ pool'[i].stored = stored[key] \/ key \in touched
      <4>1. pool'[i] = pool[i]
        BY <2>2, PoolAfterQuery
      <4> QED
        BY <4>1 DEF Fetched
    <3>3. ASSUME NEW i \in DOMAIN pool' \ DOMAIN pool
          PROVE  LET key == [school |-> pool'[i].school, major |-> pool'[i].major] IN
                 /\ Within(pool'[i].rank, windows[pool'[i].query])
                 /\ key \in ScoreKeys
                 /\ pool'[i].stored = stored[key] \/ key \in touched
      <4>1. i \in DOMAIN catalogue /\ pool'[i] = Candidate(i, tier)
            /\ Within(catalogue[i].rank, windows[tier])
        BY <2>2, <3>3, PoolAfterQuery
      <4> DEFINE c == Candidate(i, tier)
                 key == [school |-> c.school, major |-> c.major]
      <4>2. c.query = tier /\ c.rank = catalogue[i].rank /\ key \in ScoreKeys
            /\ c.stored = stored[key]
        BY <4>1, CandidateTyped DEF CallTyped
      <4>3. pool'[i] = c
        BY <4>1
      <4>4. Within(c.rank, windows[c.query])
        BY <4>1, <4>2
      <4> HIDE DEF c
      <4> QED
        BY <4>2, <4>3, <4>4
    <3> QED
      BY <3>1, <3>2, <3>3 DEF Fetched
  <2>3. CASE OverrideMajorNames
    <3>1. UNCHANGED <<stored, touched, windows>>
      BY <2>3 DEF OverrideMajorNames
    <3> QED
      BY <2>3, <3>1, PoolAfterNames DEF Fetched
  <2> QED
    BY <1>1, <1>3, <2>1, <2>2, <2>3 DEF Call, Refuse, ResolveAdmissionYear, QueryFails, Filter,
       Preview, StartPicking, PickBucket, NextTier, Recommend
<1>4. ASSUME NEW k \in job.todo, NEW s \in Scores, Upsert(k, s)  PROVE Fetched'
  <2>1. stored' = [stored EXCEPT ![k] = s] /\ touched' = touched \cup {k}
        /\ UNCHANGED <<windows, pool>>
    BY <1>4 DEF Upsert
  <2>2. \A key \in ScoreKeys : stored'[key] = stored[key] \/ key \in touched'
    BY <2>1 DEF TableTyped
  <2> QED
    BY <2>1, <2>2 DEF Fetched
<1> QED
  BY <1>1, <1>3, <1>4 DEF Next, Background, Answered, Refresh, RefreshIsCut, EvaluateFails,
     Import, vars

-----------------------------------------------------------------------------
(* The order of the candidates. *)

\* A composite score is a number.
LEMMA Scored == ASSUME NEW c \in Cand  PROVE Composite(c) \in Int
<1>1. \A x \in Int : ClampPersonalization(x) \in Int
  BY DEF ClampPersonalization
<1>2. Base(c) \in Int
  BY DEF Base, Cand
<1>3. CityPersonalization(c) \in Int /\ AbilityFitScore(c) \in Int
  BY DEF CityPersonalization, AbilityFitScore
<1>4. MajorPersonalization(c) \in Int
  <2>1. FamilyResourceWeight(c) \in Int /\ HollandWeight(c) \in Int
    BY DEF FamilyResourceWeight, HollandWeight
  <2> DEFINE liked   == IF MatchesPreferredMajors(c) THEN 125 ELSE 100
             planned == IF MatchesCareerPlan(c) THEN 115 ELSE 100
  <2>2. liked \in Int /\ planned \in Int
    OBVIOUS
  <2>3. MajorPersonalization(c)
        = (((liked * planned) \div 100) * FamilyResourceWeight(c) * HollandWeight(c)) \div 10000
    BY DEF MajorPersonalization
  <2> HIDE DEF liked, planned
  <2>4. (liked * planned) \div 100 \in Int
    BY <2>2
  <2>5. ((liked * planned) \div 100) * FamilyResourceWeight(c) * HollandWeight(c) \in Int
    BY <2>1, <2>4
  <2> QED
    BY <2>3, <2>5
<1> DEFINE x == ClampPersonalization(CityPersonalization(c))
           y == ClampPersonalization(MajorPersonalization(c))
           z == ClampPersonalization(AbilityFitScore(c))
<1>5. x \in Int /\ y \in Int /\ z \in Int
  BY <1>1, <1>3, <1>4
<1>6. Composite(c) = Base(c) * x * y * z
  BY DEF Composite
<1> HIDE DEF x, y, z
<1> QED
  BY <1>2, <1>5, <1>6

\* Scores, queries, ranks and ids order the candidates strictly.
LEMMA RankingOrders ==
    ASSUME PoolTyped, TableTyped
    PROVE  Orders(Ranking, DOMAIN pool)
<1> DEFINE D == DOMAIN pool
           comp == [i \in D |-> Composite(pool[i])]
           query == [i \in D |-> pool[i].query]
           rank == [i \in D |-> pool[i].rank]
<1>1. comp \in [D -> Int] /\ query \in [D -> Int] /\ rank \in [D -> Int]
  <2>1. \A i \in D : pool[i] \in Cand
    BY DEF PoolTyped
  <2>2. \A i \in D : Composite(pool[i]) \in Int
    BY <2>1, Scored
  <2>3. \A i \in D : pool[i].query \in Int /\ pool[i].rank \in Int
    BY <2>1 DEF Cand
  <2> QED
    BY <2>2, <2>3
<1>2. D \subseteq Int
  BY DEF PoolTyped, TableTyped
<1>3. ASSUME NEW i \in D, NEW j \in D
      PROVE  <<i, j>> \in Ranking <=>
                 \/ comp[i] > comp[j]
                 \/ /\ comp[i] = comp[j]
                    /\ \/ query[i] < query[j]
                       \/ query[i] = query[j] /\ rank[i] < rank[j]
                       \/ query[i] = query[j] /\ rank[i] = rank[j] /\ i < j
  <2>1. <<i, j>> \in Ranking <=> Better(i, j)
    BY DEF Ranking
  <2> QED
    BY <2>1 DEF Better
<1> HIDE DEF comp, query, rank, D
<1>4. ASSUME NEW x \in D  PROVE <<x, x>> \notin Ranking
  BY <1>1, <1>2, <1>3
<1>5. ASSUME NEW x \in D, NEW y \in D, NEW z \in D, <<x, y>> \in Ranking, <<y, z>> \in Ranking
      PROVE <<x, z>> \in Ranking
  BY <1>1, <1>2, <1>3, <1>5
<1>6. ASSUME NEW x \in D, NEW y \in D, x # y  PROVE <<x, y>> \in Ranking \/ <<y, x>> \in Ranking
  BY <1>1, <1>2, <1>3, <1>6
<1> QED
  BY <1>4, <1>5, <1>6 DEF Orders, D

\* An order of a set orders its subsets.
LEMMA OrdersPart ==
    ASSUME NEW R, NEW S, NEW T \in SUBSET S, Orders(R, S)
    PROVE  Orders(R, T)
  BY DEF Orders

\* The ranking is of the pool and the request.
LEMMA RankingKept == ASSUME UNCHANGED <<pool, req>>  PROVE Ranking' = Ranking
  BY DEF Ranking, Better, Composite, Base, ClampPersonalization, CityPersonalization,
     MajorPersonalization, MatchesPreferredMajors, MatchesCareerPlan, FamilyResourceWeight,
     HollandWeight, AbilityFitScore

\* What is picked next comes before all that is left.
LEMMA BestLeads ==
    ASSUME TableTyped, PoolTyped, NEW S \in SUBSET DOMAIN pool, S # {}
    PROVE  /\ Best(S) \in S
           /\ \A j \in S \ {Best(S)} : <<Best(S), j>> \in Ranking
<1>1. IsFiniteSet(S)
  BY FS_Subset DEF TableTyped, PoolTyped
<1>2. Orders(Ranking, S)
  BY RankingOrders, OrdersPart
<1>3. PICK i \in S : \A j \in S \ {i} : <<i, j>> \in Ranking
  BY <1>1, <1>2, OneLeads
<1>4. \A i0, j \in S : <<i0, j>> \in Ranking <=> Better(i0, j)
  BY DEF Ranking
<1>5. \E i0 \in S : \A j \in S \ {i0} : Better(i0, j)
  BY <1>3, <1>4
<1>6. Best(S) \in S /\ \A j \in S \ {Best(S)} : Better(Best(S), j)
  BY <1>5 DEF Best
<1> QED
  BY <1>4, <1>6

-----------------------------------------------------------------------------
(* The picks. *)

\* Before the first pick all counts are zero.
LEMMA NoPicks ==
    ASSUME NEW P, NEW F, NEW W, NEW R, NEW t
    PROVE  /\ Tally(<< >>, P, F, {}, [s \in Schools |-> 0], t, 0)
           /\ InTheirWindows(<< >>, P, W)
           /\ Passed(<< >>, P, F, W, R)
<1>1. << >> \in Seq(Pick(F)) /\ Len(<< >>) = 0 /\ 1..0 = {}
  OBVIOUS
<1>2. OfTier(<< >>, t) = {} /\ \A s : OfSchool(<< >>, P, s) = {}
  BY <1>1 DEF OfTier, OfSchool
<1>3. Cardinality({}) = 0
  BY FS_EmptySet
<1>4. MaxGroupsPerSchool \in Nat
  BY CapsAssumption
<1> DEFINE none == [s \in Schools |-> 0]
<1>6. none \in [Schools -> Nat] /\ \A s \in Schools : none[s] = 0
  OBVIOUS
<1>7. {} = {Place(P[<< >>[n].id]) : n \in 1..Len(<< >>)}
  BY <1>1
<1> HIDE DEF none
<1>8. 0 <= MaxGroupsPerSchool
  BY <1>4
<1>5. Tally(<< >>, P, F, {}, none, t, 0)
  BY <1>1, <1>2, <1>3, <1>6, <1>7, <1>8 DEF Tally
<1> QED
  BY <1>1, <1>5 DEF InTheirWindows, Passed, none

\* A call that picks nothing has none of what there is to keep.
LEMMA NothingPicked ==
    ASSUME picked' = << >>, seenGroups' = {}, took' = 0, usedSchools' = [s \in Schools |-> 0]
    PROVE  Counted' /\ Windowed' /\ BestPicked'
  BY NoPicks DEF Counted, Windowed, BestPicked

\* The picks of a tier are of that tier or of one before it.
LEMMA NextTierTally ==
    ASSUME NEW ps, NEW P, NEW F, NEW seen, NEW used, NEW t \in Nat, NEW tk,
           Tally(ps, P, F, seen, used, t, tk)
    PROVE  Tally(ps, P, F, seen, used, t + 1, 0)
<1>1. ASSUME NEW n \in 1..Len(ps)  PROVE ps[n].tier <= t + 1 /\ ps[n].tier # t + 1
  <2>1. ps[n] \in Pick(F)
    BY ElementOfSeq DEF Tally
  <2>2. ps[n].tier \in Nat /\ ps[n].tier <= t
    BY <2>1 DEF Pick, Tally
  <2> QED
    BY <2>2
<1>2. OfTier(ps, t + 1) = {}
  BY <1>1 DEF OfTier
<1>3. Cardinality({}) = 0
  BY FS_EmptySet
<1> QED
  BY <1>1, <1>2, <1>3 DEF Tally

\* A pick keeps the counts and the order: the best of those left is appended.
LEMMA PickingKept ==
    ASSUME Inv, PoolTyped', PickBucket
    PROVE  Counted' /\ Windowed' /\ BestPicked' /\ Filling'
<1> DEFINE i == Best(left)
<1>1. /\ left # {} /\ stage = "pick" /\ took < quota
      /\ left' = left \ {i}
      /\ UNCHANGED <<stage, req, windows, pool, filtered, tier, quota, reply>>
  BY DEF PickBucket, Open
<1>2. i \in left /\ \A j \in left \ {i} : <<i, j>> \in Ranking
  <2>1. TableTyped /\ PoolTyped /\ left \in SUBSET DOMAIN pool
    BY DEF Inv, PoolTyped
  <2> QED
    BY <1>1, <2>1, BestLeads
<1>3. \/ Blocked(pool[i]) /\ UNCHANGED <<picked, seenGroups, usedSchools, took>>
      \/ ~Blocked(pool[i]) /\ Take(i)
  BY DEF PickBucket
<1>4. Ranking' = Ranking
  BY <1>1, RankingKept
<1> HIDE DEF i
<1>5. /\ filtered \subseteq DOMAIN pool /\ pool \in [DOMAIN pool -> Cand]
      /\ i \in filtered /\ left \subseteq filtered /\ tier \in 1..3
  BY <1>2 DEF Inv, PoolTyped, CallTyped
<1>6. /\ Tally(picked, pool, filtered, seenGroups, usedSchools, tier, took)
      /\ InTheirWindows(picked, pool, windows)
      /\ Passed(picked, pool, filtered, windows, Ranking)
      /\ Spent(pool, filtered, seenGroups, usedSchools, windows, tier, left)
      /\ Within(pool[i].rank, windows[tier])
      /\ quota \in Nat /\ took <= quota /\ took \in Nat
      /\ Len(picked) + quota + Rest(tier, req.size) = took + req.size
  <2>1. IsFiniteSet(1..Len(picked))
    BY FS_Interval, LenProperties DEF Inv, Counted, Tally
  <2>2. took \in Nat
    BY <2>1, FS_Subset, FS_CardinalityType DEF Inv, Counted, Tally, OfTier
  <2> QED
    BY <1>1, <1>2, <2>2 DEF Inv, Counted, Windowed, BestPicked, Filling, Picking
<1>7. picked \in Seq(Pick(filtered)) /\ usedSchools \in [Schools -> Nat]
  BY <1>6 DEF Tally
<1>8. CASE Blocked(pool[i]) /\ UNCHANGED <<picked, seenGroups, usedSchools, took>>
  <2>1. Place(pool[i]) \in seenGroups \/ usedSchools[pool[i].school] >= MaxGroupsPerSchool
    BY <1>8 DEF Blocked
  <2>2. Spent(pool, filtered, seenGroups, usedSchools, windows, tier, left \ {i})
    BY <1>5, <1>6, <1>7, <2>1, SpentGrows
  <2>3. Counted' /\ Windowed' /\ BestPicked'
    BY <1>1, <1>4, <1>6, <1>8 DEF Counted, Windowed, BestPicked
  <2>4. Filling'
    BY <1>1, <1>6, <1>8, <2>2 DEF Filling, Inv, Picking, Planned
  <2> QED
    BY <2>3, <2>4
<1>9. CASE ~Blocked(pool[i]) /\ Take(i)
  <2> DEFINE e == [tier |-> tier, id |-> i]
             more == [usedSchools EXCEPT ![pool[i].school] = @ + 1]
  <2>1. /\ picked' = Append(picked, e)
        /\ seenGroups' = seenGroups \cup {Place(pool[i])}
        /\ usedSchools' = more
        /\ took' = took + 1
    BY <1>9 DEF Take
  <2>2. pool[i].school \in Schools
    BY <1>5 DEF Cand
  <2>3. Place(pool[i]) \notin seenGroups /\ usedSchools[pool[i].school] < MaxGroupsPerSchool
    BY <1>7, <1>9, <2>2, CapsAssumption DEF Blocked
  <2>4. e \in Pick(filtered)
    BY <1>5 DEF Pick
  <2>5. Tally(Append(picked, e), pool, filtered, seenGroups \cup {Place(pool[i])}, more, tier, took + 1)
    BY <1>5, <1>6, <2>3, TallyGrows
  <2>6. InTheirWindows(Append(picked, e), pool, windows)
    BY <1>6, <1>7, <2>4, WindowsGrow
  <2>7. Orders(Ranking, filtered)
    BY <1>5, RankingOrders, OrdersPart DEF Inv
  <2>8. Passed(Append(picked, e), pool, filtered, windows, Ranking)
    BY <1>2, <1>5, <1>6, <2>7, PassedGrows
  <2>9. Spent(pool, filtered, seenGroups \cup {Place(pool[i])}, more, windows, tier, left \ {i})
    BY <1>5, <1>6, <1>7, SpentGrows
  <2>10. Len(Append(picked, e)) = Len(picked) + 1 /\ Len(picked) \in Nat
    BY <1>7, <2>4, Appended
  <2> HIDE DEF e, more
  <2>11. Counted' /\ Windowed' /\ BestPicked'
    BY <1>1, <1>4, <2>1, <2>5, <2>6, <2>8 DEF Counted, Windowed, BestPicked
  <2>12. took' <= quota' /\ Len(picked') + quota' + Rest(tier', req'.size) = took' + req'.size
    <3>1. Rest(tier, req.size) \in Int /\ req.size \in Int
      BY <1>5 DEF Rest, Inv, CallTyped, Request
    <3> DEFINE rest == Rest(tier, req.size)
               size == req.size
               len == Len(picked)
    <3>2. rest \in Int /\ size \in Int /\ len \in Nat /\ len + quota + rest = took + size
      BY <1>6, <2>10, <3>1
    <3>3. Len(picked') = len + 1 /\ took' = took + 1 /\ quota' = quota /\ tier' = tier /\ req' = req
      BY <1>1, <2>1, <2>10
    <3> HIDE DEF rest, size, len
    <3>4. took + 1 <= quota /\ (len + 1) + quota + rest = (took + 1) + size
      BY <1>1, <1>6, <3>2
    <3> QED
      BY <3>3, <3>4 DEF rest, size
  <2>13. \A j \in left' : Within(pool'[j].rank, windows'[tier'])
    BY <1>1, <1>2 DEF Inv, Filling, Picking
  <2>14. Spent(pool', filtered', seenGroups', usedSchools', windows', tier', left')
    BY <1>1, <2>1, <2>9
  <2> QED
    BY <1>1, <1>6, <2>11, <2>12, <2>13, <2>14 DEF Filling, Planned
<1> QED
  BY <1>3, <1>8, <1>9

\* What a tier could not place, the next one may.
LEMMA TierKept ==
    ASSUME Inv, NextTier
    PROVE  Counted' /\ Windowed' /\ BestPicked' /\ Filling'
<1>1. /\ stage = "pick" /\ ~(took < quota /\ left # {}) /\ tier < 3
      /\ tier' = tier + 1 /\ took' = 0
      /\ quota' = SplitTierQuota(req.size)[tier + 1] + (quota - took)
      /\ left' = InWindow(filtered, tier + 1)
      /\ UNCHANGED <<stage, req, windows, pool, filtered, picked, seenGroups, usedSchools, reply>>
  BY DEF NextTier, Open
<1>2. tier \in {1, 2} /\ tier \in Nat /\ req.size \in Nat
  BY <1>1 DEF Inv, CallTyped, Request
<1>3. Tally(picked, pool, filtered, seenGroups, usedSchools, tier + 1, 0)
  BY <1>2, NextTierTally DEF Inv, Counted
<1>4. Ranking' = Ranking
  BY <1>1, RankingKept
<1>5. Counted' /\ Windowed' /\ BestPicked'
  BY <1>1, <1>3, <1>4 DEF Inv, Counted, Windowed, BestPicked
<1>6. \A i \in left' : Within(pool'[i].rank, windows'[tier'])
  BY <1>1 DEF InWindow
<1>7. Spent(pool', filtered', seenGroups', usedSchools', windows', tier', left')
  BY <1>1 DEF InWindow, Spent
<1>8. quota' \in Nat /\ took' <= quota' /\ Len(picked') + quota' + Rest(tier', req'.size) = took' + req'.size
  <2> DEFINE size == req.size
             len == Len(picked)
             q == SplitTierQuota(size)[tier + 1]
             rest == Rest(tier, size)
             next == Rest(tier + 1, size)
  <2>1. quota \in Nat /\ took <= quota /\ len + quota + rest = took + size
    BY <1>1 DEF Inv, Filling, Picking
  <2>2. took \in Nat /\ len \in Nat
    <3>1. IsFiniteSet(1..Len(picked)) /\ len \in Nat
      BY FS_Interval, LenProperties DEF Inv, Counted, Tally
    <3> QED
      BY <3>1, FS_Subset, FS_CardinalityType DEF Inv, Counted, Tally, OfTier
  <2>3. q \in Nat /\ rest \in Nat /\ next \in Nat /\ rest = q + next
    <3>1. CASE tier = 1
      BY <1>2, <3>1 DEF SplitTierQuota, Rest
    <3>2. CASE tier = 2
      BY <1>2, <3>2 DEF SplitTierQuota, Rest
    <3> QED
      BY <1>2, <3>1, <3>2
  <2>4. quota' = q + (quota - took) /\ took' = 0 /\ Len(picked') = len
        /\ Rest(tier', req'.size) = next /\ req'.size = size
    BY <1>1
  <2> HIDE DEF q, rest, next, size, len
  <2>5. quota - took \in Nat
    BY <2>1, <2>2
  <2>6. q + (quota - took) \in Nat /\ 0 <= q + (quota - took)
    BY <2>3, <2>5
  <2>7. size \in Nat
    BY <1>2 DEF size
  <2>8. len + (q + (quota - took)) + next = 0 + size
    BY <2>1, <2>2, <2>3, <2>7
  <2> QED
    BY <2>4, <2>6, <2>8
<1>9. ~Planned'
  BY <1>1 DEF Planned
<1> QED
  BY <1>5, <1>6, <1>7, <1>8, <1>9 DEF Filling

\* The picks begin with the first tier, all of whose candidates are left.
LEMMA PickingStarts ==
    ASSUME Inv, Filter
    PROVE  Counted' /\ Windowed' /\ BestPicked' /\ Filling'
<1>1. picked = << >> /\ seenGroups = {} /\ took = 0 /\ usedSchools = [s \in Schools |-> 0] /\ tier = 1
  BY DEF Filter, Inv, Fresh, Picking, Planned
<1>2. CASE Preview
  <2>1. UNCHANGED <<picked, seenGroups, took, usedSchools>> /\ ~Picking' /\ ~Planned'
    BY <1>2 DEF Preview, picks, Picking, Planned, PreviewReply
  <2>2. Counted' /\ Windowed' /\ BestPicked'
    BY <1>1, <2>1, NothingPicked
  <2> QED
    BY <2>1, <2>2 DEF Filling
<1>3. CASE StartPicking
  <2>1. /\ stage' = "pick" /\ quota' = SplitTierQuota(req.size)[1]
        /\ filtered' = FilterByPreference /\ left' = InWindow(FilterByPreference, 1)
        /\ UNCHANGED <<req, windows, pool, tier, took, picked, seenGroups, usedSchools>>
    BY <1>3 DEF StartPicking
  <2>2. Counted' /\ Windowed' /\ BestPicked'
    BY <1>1, <2>1, NothingPicked
  <2>3. \A i \in left' : Within(pool'[i].rank, windows'[tier'])
    BY <1>1, <2>1 DEF InWindow
  <2>4. Spent(pool', filtered', seenGroups', usedSchools', windows', tier', left')
    BY <1>1, <2>1 DEF InWindow, Spent
  <2>5. req.size \in Nat /\ Len(picked') = 0
    BY <1>1, <2>1 DEF Inv, CallTyped, Request
  <2>6. quota' \in Nat /\ took' <= quota'
        /\ Len(picked') + quota' + Rest(tier', req'.size) = took' + req'.size
    BY <1>1, <2>1, <2>5 DEF SplitTierQuota, Rest
  <2>7. ~Planned'
    BY <2>1 DEF Planned
  <2> QED
    BY <2>2, <2>3, <2>4, <2>6, <2>7 DEF Filling
<1> QED
  BY <1>2, <1>3 DEF Filter

\* The plan is returned when the last tier is full or has run out.
LEMMA PlanKept ==
    ASSUME Inv, Recommend
    PROVE  Counted' /\ Windowed' /\ BestPicked' /\ Filling'
<1> USE DEF picks
<1>1. /\ stage = "pick" /\ tier = 3 /\ (~(took < quota) \/ left = {})
      /\ UNCHANGED <<req, windows, pool, filtered, tier, quota, took, left, picked, seenGroups,
                     usedSchools>>
  BY DEF Recommend, Open
<1>2. Ranking' = Ranking
  BY <1>1, RankingKept
<1>3. Counted' /\ Windowed' /\ BestPicked'
  BY <1>1, <1>2 DEF Inv, Counted, Windowed, BestPicked
<1>4. took \in Nat
  <2>1. IsFiniteSet(1..Len(picked))
    BY FS_Interval, LenProperties DEF Inv, Counted, Tally
  <2> QED
    BY <2>1, FS_Subset, FS_CardinalityType DEF Inv, Counted, Tally, OfTier
<1>5. tier' = 3 /\ (took' = quota' \/ left' = {})
  BY <1>1, <1>4 DEF Inv, Filling, Picking
<1> QED
  BY <1>1, <1>3, <1>5 DEF Inv, Filling, Picking

\* Every step keeps what is known of the picks.
LEMMA PicksKept ==
    ASSUME Inv, PoolTyped', Fresh', [Next]_vars
    PROVE  Counted' /\ Windowed' /\ BestPicked' /\ Filling'
<1> USE DEF picks
<1>1. CASE UNCHANGED <<stage, req, year, windows, pool, filtered, picks, reply>>
  <2>1. Ranking' = Ranking
    BY <1>1, RankingKept
  <2>2. Counted' /\ Windowed' /\ BestPicked'
    BY <1>1, <2>1 DEF Inv, Counted, Windowed, BestPicked
  <2>3. Filling'
    BY <1>1 DEF Inv, Filling, Picking, Planned
  <2> QED
    BY <2>2, <2>3
<1>2. CASE Ask(req) \/ Refuse(req) \/ ResolveAdmissionYear \/ QueryFails \/ FetchBucketCandidates
           \/ OverrideMajorNames
  <2>1. stage' \notin {"pick", "done"}
    BY <1>2 DEF Ask, Refuse, ResolveAdmissionYear, QueryFails, FetchBucketCandidates,
       OverrideMajorNames
  <2>2. ~Picking' /\ ~Planned'
    BY <2>1 DEF Picking, Planned
  <2>3. picked' = << >> /\ seenGroups' = {} /\ took' = 0 /\ usedSchools' = [s \in Schools |-> 0]
    BY <2>2 DEF Fresh
  <2> QED
    BY <2>2, <2>3, NothingPicked DEF Filling
<1> QED
  BY <1>1, <1>2, PickingStarts, PickingKept, TierKept, PlanKept, Beside DEF Call

-----------------------------------------------------------------------------
(* The invariant holds. *)

\* A table holds lines of the given ones, each under its own id.
LEMMA Loaded ==
    ASSUME catalogue \in Catalogues
    PROVE  /\ IsFiniteSet(DOMAIN catalogue) /\ DOMAIN catalogue \subseteq Nat
           /\ catalogue \in [DOMAIN catalogue -> Line]
           /\ \A i \in DOMAIN catalogue : catalogue[i] \in Rows
<1>1. PICK S \in SUBSET Rows :
          catalogue = [i \in {row.id : row \in S} |-> CHOOSE row \in S : row.id = i]
  BY DEF Catalogues
<1> DEFINE ids == {row.id : row \in S}
           idOf == [row \in S |-> row.id]
<1>2. IsFiniteSet(S) /\ S \subseteq Line
  BY DataAssumption, FS_Subset
<1>3. idOf \in Surjection(S, ids)
  BY DEF Surjection
<1>4. IsFiniteSet(ids)
  BY <1>2, <1>3, FS_Surjection
<1>5. ids \subseteq Nat
  BY <1>2 DEF Line
<1>6. \A i \in ids : catalogue[i] \in S
  BY <1>1
<1>7. DOMAIN catalogue = ids /\ catalogue = [i \in ids |-> catalogue[i]]
  BY <1>1
<1> HIDE DEF ids
<1> QED
  BY <1>2, <1>4, <1>5, <1>6, <1>7

\* It holds at first.
LEMMA InitInv == Init => Inv
<1> SUFFICES ASSUME Init PROVE Inv
  OBVIOUS
<1>1. TableTyped
  <2>1. PICK s \in Scores \cup {0} : stored = [k \in ScoreKeys |-> s]
    BY DEF Init
  <2>2. s \in Nat
    BY DataAssumption
  <2>3. stored \in [ScoreKeys -> Nat] /\ job.todo \subseteq ScoreKeys
    BY <2>1, <2>2 DEF Init
  <2>4. \A i \in DOMAIN catalogue : catalogue[i].school \in Schools
                                    /\ ScoreKey(catalogue[i]) \in ScoreKeys
    BY Loaded, Names DEF Init
  <2> QED
    BY <2>3, <2>4, Loaded DEF Init, TableTyped
<1>2. CallTyped
  BY DataAssumption DEF Init, CallTyped, Stages
<1>3. DOMAIN pool = {} /\ pool \in [{} -> Cand]
  BY DEF Init, NoRow
<1>4. PoolTyped /\ Fetched
  BY <1>3 DEF Init, PoolTyped, Fetched
<1>5. Fresh /\ Framed /\ Filling
  BY <1>3 DEF Init, Fresh, Framed, Filling, Picking, Planned
<1>6. Counted /\ Windowed /\ BestPicked
  BY NoPicks DEF Init, Counted, Windowed, BestPicked
<1> QED
  BY <1>1, <1>2, <1>4, <1>5, <1>6 DEF Inv

\* Every step keeps it.
LEMMA InvKept == Inv /\ [Next]_vars => Inv'
<1> SUFFICES ASSUME Inv, [Next]_vars PROVE Inv'
  OBVIOUS
<1>1. TableTyped'
  BY TableKept DEF Inv
<1>2. CallTyped'
  BY CallKept DEF Inv
<1>3. PoolTyped'
  BY <1>1, PoolKept DEF Inv
<1>4. Fresh'
  BY FreshKept DEF Inv
<1>5. Framed'
  BY FramedKept DEF Inv
<1>6. Fetched'
  BY FetchedKept DEF Inv
<1>7. Counted' /\ Windowed' /\ BestPicked' /\ Filling'
  BY <1>3, <1>4, PicksKept
<1> QED
  BY <1>1, <1>2, <1>3, <1>4, <1>5, <1>6, <1>7 DEF Inv

\* Every state of every run: the types, what each step of the call finds, and
\* what its picks and counters have to do with each other.
THEOREM PlanInvariant == Spec => []Inv
  BY InitInv, InvKept, PTL DEF Spec

-----------------------------------------------------------------------------
(* The places of a plan. *)

\* A rank further back is not estimated to be harder.
LEMMA EasierFurtherBack ==
    ASSUME req.rank \in Nat \ {0}, NEW a \in Nat, NEW b \in Nat, a <= b
    PROVE  EstimateProbability(a) <= EstimateProbability(b)
  BY DEF EstimateProbability

\* Places are sound: two picks of one tier were counted apart, and those of two
\* tiers lie in windows that follow one another.
LEMMA InvPlaces == Inv => PlacesAreSound
<1> SUFFICES ASSUME Inv PROVE PlacesAreSound
  OBVIOUS
<1>1. Tally(picked, pool, filtered, seenGroups, usedSchools, tier, took)
  BY DEF Inv, Counted
<1>2. \A n \in 1..Len(picked) : picked[n] \in Pick(filtered)
  BY <1>1, ElementOfSeq DEF Tally
<1>3. TypeOK
  BY <1>1, <1>2 DEF Inv, CallTyped, PoolTyped, Tally, OfTier, Pick, TypeOK
<1>4. PlacesAreDistinct
  <2>1. \A s \in Schools :
            Cardinality({n \in 1..Len(picked) : pool[picked[n].id].school = s}) <= MaxGroupsPerSchool
    BY <1>1 DEF Tally, OfSchool
  <2> QED
    BY <1>1, <2>1 DEF Tally, PlacesAreDistinct
<1>5. TiersGetEasier
  <2> SUFFICES ASSUME NEW m \in 1..Len(picked), NEW n \in 1..Len(picked),
                      picked[m].tier < picked[n].tier
               PROVE  LET a == pool[picked[m].id].rank
                          b == pool[picked[n].id].rank
                      IN  a <= b /\ EstimateProbability(a) <= EstimateProbability(b)
    BY DEF TiersGetEasier
  <2> DEFINE a == pool[picked[m].id].rank
             b == pool[picked[n].id].rank
             s == picked[m].tier
             t == picked[n].tier
  <2>1. Picking
    BY EmptySeq DEF Inv, Fresh
  <2>2. stage \notin {"idle", "failed"}
    BY <2>1 DEF Picking, Planned
  <2>3. s \in 1..3 /\ t \in 1..3 /\ picked[m].id \in filtered /\ picked[n].id \in filtered
    BY <1>2 DEF Pick
  <2>4. pool[picked[m].id] \in Cand /\ pool[picked[n].id] \in Cand
    BY <2>3 DEF Inv, PoolTyped
  <2>5. a \in Nat /\ b \in Nat
    BY <2>4 DEF Cand
  <2>6. /\ req.rank # 0 /\ windows \in [1..3 -> [min : Nat, max : Nat]]
        /\ windows[s].max <= windows[t].min
    BY <2>2, <2>3 DEF Inv, Framed
  <2>7. a <= windows[s].max /\ windows[t].min <= b
    BY DEF Inv, Windowed, InTheirWindows, Within
  <2>8. windows[s].max \in Nat /\ windows[t].min \in Nat
    BY <2>3, <2>6
  <2>9. req.rank \in Nat \ {0}
    BY <2>6 DEF Inv, CallTyped, Request
  <2> DEFINE last == windows[s].max
             first == windows[t].min
  <2>12. last \in Nat /\ first \in Nat /\ a <= last /\ last <= first /\ first <= b
    BY <2>6, <2>7, <2>8
  <2> HIDE DEF a, b, last, first
  <2>10. a <= b
    BY <2>5, <2>12
  <2>11. EstimateProbability(a) <= EstimateProbability(b)
    BY <2>5, <2>9, <2>10, EasierFurtherBack
  <2> QED
    BY <2>10, <2>11 DEF a, b
<1> QED
  BY <1>3, <1>4, <1>5 DEF PlacesAreSound

\* The counters agree with what has been picked; no group comes twice and no
\* university too often, whatever is imported or refreshed meanwhile; and a
\* later tier is never harder (pickBucket, computeBucketWindows).
THEOREM SoundPlaces == Spec => []PlacesAreSound
  BY PlanInvariant, InvPlaces, PTL

\* The picks fill the plan: one is missing only where no tier had a candidate left.
PicksFill ==
    Planned =>
        /\ Len(picked) <= req.size
        /\ Len(picked) < req.size =>
               \A i \in InWindow(filtered, 3) :
                   (\A n \in 1..Len(picked) : picked[n].id # i) => Blocked(pool[i])

LEMMA InvPicks == Inv => PicksFill /\ PassedOverForBetter
<1> SUFFICES ASSUME Inv PROVE PicksFill /\ PassedOverForBetter
  OBVIOUS
<1>1. Tally(picked, pool, filtered, seenGroups, usedSchools, tier, took)
  BY DEF Inv, Counted
<1>2. \A n \in 1..Len(picked) : picked[n] \in Pick(filtered) /\ picked[n].id \in filtered
  <2>1. \A n \in 1..Len(picked) : picked[n] \in Pick(filtered)
    BY <1>1, ElementOfSeq DEF Tally
  <2> QED
    BY <2>1 DEF Pick
<1>3. req.size \in Nat /\ tier \in 1..3 /\ Len(picked) \in Nat
  BY <1>1, LenProperties DEF Tally, Inv, CallTyped, Request
<1>4. took \in Nat
  <2>1. IsFiniteSet(1..Len(picked))
    BY <1>3, FS_Interval
  <2> QED
    BY <1>1, <2>1, FS_Subset, FS_CardinalityType DEF Tally, OfTier
<1>5. ASSUME Picking
      PROVE  Len(picked) <= req.size /\ (tier = 3 /\ took = quota => Len(picked) = req.size)
  <2>1. quota \in Nat /\ took <= quota /\ Len(picked) + quota + Rest(tier, req.size) = took + req.size
    BY <1>5 DEF Inv, Filling
  <2>2. Rest(tier, req.size) \in Nat /\ (tier = 3 => Rest(tier, req.size) = 0)
    BY <1>3 DEF Rest
  <2> DEFINE rest == Rest(tier, req.size)
             size == req.size
             len == Len(picked)
  <2>3. /\ rest \in Nat /\ size \in Nat /\ len \in Nat /\ quota \in Nat /\ took \in Nat
        /\ took <= quota /\ len + quota + rest = took + size /\ (tier = 3 => rest = 0)
    BY <1>3, <1>4, <2>1, <2>2
  <2> HIDE DEF rest, size, len
  <2>4. len <= size /\ (tier = 3 /\ took = quota => len = size)
    BY <2>3
  <2> QED
    BY <2>4 DEF size, len
<1>6. PicksFill
  <2>1. Planned => Len(picked) <= req.size
    BY <1>5 DEF Picking
  <2>2. ASSUME Planned, Len(picked) < req.size, NEW i \in InWindow(filtered, 3)
        PROVE  Blocked(pool[i])
    <3>1. Picking /\ tier = 3 /\ (took = quota \/ left = {})
      BY <2>2 DEF Inv, Filling, Picking
    <3>2. left = {}
      BY <1>3, <1>5, <2>2, <3>1
    <3>3. i \in filtered /\ Within(pool[i].rank, windows[tier]) /\ i \notin left
      BY <2>2, <3>1, <3>2 DEF InWindow
    <3>4. Spent(pool, filtered, seenGroups, usedSchools, windows, tier, left)
      BY <3>1 DEF Inv, Filling
    <3> QED
      BY <3>3, <3>4 DEF Spent, Blocked
  <2> QED
    BY <2>1, <2>2 DEF PicksFill
<1>7. PassedOverForBetter
  <2> SUFFICES ASSUME NEW n \in 1..Len(picked), NEW i \in InWindow(filtered, picked[n].tier),
                      Better(i, picked[n].id)
               PROVE  Blocking(picked, pool, pool[i], n)
    BY DEF PassedOverForBetter, Blocking
  <2>1. i \in filtered /\ Within(pool[i].rank, windows[picked[n].tier])
    BY DEF InWindow
  <2>2. i \in DOMAIN pool /\ picked[n].id \in DOMAIN pool
    BY <1>2, <2>1 DEF Inv, PoolTyped
  <2>3. <<i, picked[n].id>> \in Ranking
    BY <2>2 DEF Ranking
  <2> QED
    BY <2>1, <2>3 DEF Inv, BestPicked, Passed
<1> QED
  BY <1>6, <1>7

-----------------------------------------------------------------------------
(* The preview. *)

\* Scoring lists every candidate once, in the order of the ranking.
LEMMA ScoringLists ==
    ASSUME TableTyped, PoolTyped, NEW S \in SUBSET DOMAIN pool
    PROVE  Lists(ScoreCandidates(S), S, Ranking)
<1> DEFINE R == {p \in S \X S : Better(p[1], p[2])}
<1>1. IsFiniteSet(S)
  BY FS_Subset DEF TableTyped, PoolTyped
<1>2. \A i, j \in S : <<i, j>> \in R <=> <<i, j>> \in Ranking
  BY DEF Ranking
<1>3. ScoreCandidates(S) = Sorted(S, R)
  BY DEF ScoreCandidates
<1> HIDE DEF R
<1>4. Orders(Ranking, S)
  BY RankingOrders, OrdersPart
<1>5. Orders(R, S)
  BY <1>2, <1>4 DEF Orders
<1> DEFINE s == Sorted(S, R)
<1>6. Lists(s, S, R)
  BY <1>1, <1>5, SortedLists
<1> HIDE DEF s
<1>7. s \in Seq(S)
  BY <1>6 DEF Lists
<1>8. \A m, n \in 1..Len(s) : m < n => <<s[m], s[n]>> \in Ranking
  <2>1. \A n \in 1..Len(s) : s[n] \in S
    BY <1>7, ElementOfSeq
  <2> QED
    BY <1>2, <1>6, <2>1 DEF Lists
<1>9. Lists(s, S, Ranking)
  BY <1>6, <1>8 DEF Lists
<1> QED
  BY <1>3, <1>9 DEF s

\* Counting what is in two parts.
LEMMA Disjoint ==
    ASSUME NEW A, NEW B, IsFiniteSet(A), IsFiniteSet(B), A \cap B = {}
    PROVE  IsFiniteSet(A \cup B) /\ Cardinality(A \cup B) = Cardinality(A) + Cardinality(B)
<1>1. /\ IsFiniteSet(A \cup B)
      /\ Cardinality(A \cup B) = Cardinality(A) + Cardinality(B) - Cardinality(A \cap B)
  BY FS_Union
<1>2. Cardinality(A \cap B) = 0
  BY FS_EmptySet
<1>3. Cardinality(A) \in Nat /\ Cardinality(B) \in Nat
  BY FS_CardinalityType
<1> QED
  BY <1>1, <1>2, <1>3

\* Counting what is in three parts.
LEMMA ThreeParts ==
    ASSUME NEW S, IsFiniteSet(S), NEW A, NEW B, NEW C, S = A \cup B \cup C,
           A \cap B = {}, A \cap C = {}, B \cap C = {}
    PROVE  Cardinality(S) = Cardinality(A) + Cardinality(B) + Cardinality(C)
<1>1. IsFiniteSet(A) /\ IsFiniteSet(B) /\ IsFiniteSet(C)
  BY FS_Subset
<1>2. /\ Cardinality(A) \in Nat /\ Cardinality(B) \in Nat /\ Cardinality(C) \in Nat
      /\ Cardinality({}) = 0
  BY <1>1, FS_CardinalityType, FS_EmptySet
<1>3. IsFiniteSet(A \cup B) /\ Cardinality(A \cup B) = Cardinality(A) + Cardinality(B)
  BY <1>1, <1>2, Disjoint
<1>4. (A \cup B) \cap C = {}
  OBVIOUS
<1>5. Cardinality((A \cup B) \cup C) = Cardinality(A \cup B) + Cardinality(C)
  BY <1>1, <1>3, <1>4, Disjoint
<1> QED
  BY <1>2, <1>3, <1>5

\* A candidate is in the tier of some window.
LEMMA InSomeTier ==
    ASSUME PoolTyped, Fetched, NEW i \in DOMAIN pool
    PROVE  TierOf(pool[i].rank) \in 1..3
<1>1. pool[i].query \in 1..3
  BY DEF PoolTyped, Cand
<1>2. Within(pool[i].rank, windows[pool[i].query])
  BY DEF Fetched
<1>3. \/ Within(pool[i].rank, windows[1]) \/ Within(pool[i].rank, windows[2])
      \/ Within(pool[i].rank, windows[3])
  BY <1>1, <1>2
<1> QED
  BY <1>3 DEF TierOf

\* A preview that is computed from the pool counts the pool.
LEMMA PreviewCounts ==
    ASSUME Inv, Filter, Preview
    PROVE  PreviewCountsThePool'
<1> DEFINE S == FilterByPreference
           T(n) == {i \in S : TierOf(pool[i].rank) = n}
           placed == {i \in S : TierOf(pool[i].rank) # 0}
           scored == ScoreCandidates(placed)
           size == req.size
           shown == IF size > Len(scored) THEN Len(scored) ELSE size
           sample == SubSeq(scored, 1, shown)
<1>1. S \in SUBSET DOMAIN pool
  BY DEF FilterByPreference
<1>2. \A i \in S : TierOf(pool[i].rank) \in 1..3
  BY <1>1, InSomeTier DEF Inv
<1>3. placed = S
  BY <1>2
<1>4. IsFiniteSet(S)
  BY <1>1, FS_Subset DEF Inv, TableTyped, PoolTyped
<1>5. Cardinality(S) = Cardinality(T(1)) + Cardinality(T(2)) + Cardinality(T(3))
  <2>1. S = T(1) \cup T(2) \cup T(3)
    BY <1>2
  <2>2. T(1) \cap T(2) = {} /\ T(1) \cap T(3) = {} /\ T(2) \cap T(3) = {}
    OBVIOUS
  <2> QED
    BY <1>4, <2>1, <2>2, ThreeParts
<1>6. scored \in Seq(S) /\ Len(scored) = Cardinality(S) /\ Len(scored) \in Nat
  BY <1>1, <1>3, ScoringLists, LenProperties DEF Inv, Lists
<1>7. size \in Nat
  BY DEF Inv, CallTyped, Request
<1>8. /\ filtered' = S /\ UNCHANGED req
      /\ reply' = [kind |-> "preview", size |-> Cardinality(S),
                   counts |-> [n \in 1..3 |-> Cardinality(T(n))], sample |-> sample]
  BY DEF Preview, PreviewReply
<1> HIDE DEF S, scored, size
<1>9. shown \in Nat /\ shown <= Len(scored) /\ shown = IF size < Len(scored) THEN size ELSE Len(scored)
  BY <1>6, <1>7
<1>10. \A n \in 1..shown : scored[n] \in S
  BY <1>6, <1>9, ElementOfSeq
<1> HIDE DEF shown
<1>11. sample \in Seq(S) /\ Len(sample) = shown
  BY <1>9, <1>10, SubSeqProperties
<1>12. \A n \in 1..Len(sample) : sample[n] \in S
  BY <1>11, ElementOfSeq
<1>13. reply'.size = reply'.counts[1] + reply'.counts[2] + reply'.counts[3]
  BY <1>5, <1>8
<1> HIDE DEF sample
<1>14. reply'.sample = sample /\ reply'.size = Cardinality(S) /\ filtered' = S /\ req'.size = size
  BY <1>8 DEF size
<1> QED
  BY <1>6, <1>9, <1>11, <1>12, <1>13, <1>14 DEF PreviewCountsThePool

\* Every step keeps the preview.
LEMMA PreviewKept ==
    ASSUME Inv, PreviewCountsThePool, [Next]_vars
    PROVE  PreviewCountsThePool'
<1>1. CASE UNCHANGED <<stage, req, year, windows, pool, filtered, picks, reply>>
  BY <1>1 DEF PreviewCountsThePool
<1>2. CASE Filter /\ Preview
  BY <1>2, PreviewCounts
<1>3. CASE Recommend
  BY <1>3 DEF Recommend, PreviewCountsThePool
<1>4. CASE stage' # "done"
  BY <1>4 DEF PreviewCountsThePool
<1> QED
  BY <1>1, <1>2, <1>3, <1>4, Beside DEF Call, Ask, Refuse, ResolveAdmissionYear, QueryFails,
     FetchBucketCandidates, OverrideMajorNames, Filter, StartPicking, PickBucket, NextTier, Open

\* Scores that differ under one key were written meanwhile.
LEMMA InvScores == Inv => MixedScoresNeedRefresh
<1> SUFFICES ASSUME Inv, NEW i \in DOMAIN pool, NEW j \in DOMAIN pool,
                    pool[i].school = pool[j].school, pool[i].major = pool[j].major,
                    pool[i].stored # pool[j].stored
             PROVE  [school |-> pool[i].school, major |-> pool[i].major] \in touched
  BY DEF MixedScoresNeedRefresh
<1> DEFINE key == [school |-> pool[i].school, major |-> pool[i].major]
<1>1. pool[i].stored = stored[key] \/ key \in touched
  BY DEF Inv, Fetched
<1>2. pool[j].stored = stored[key] \/ key \in touched
  BY DEF Inv, Fetched
<1> QED
  BY <1>1, <1>2

\* A preview counts each candidate in one tier and shows the best of them, and
\* two candidates of one major are scored alike unless a refresh wrote its
\* score during the call (FetchBucketCandidates, previewRecommend).
THEOREM ConsistentPool == Spec => []PoolIsConsistent
<1>1. Init => Inv /\ PreviewCountsThePool
  BY InitInv DEF Init, PreviewCountsThePool
<1>2. Inv /\ PreviewCountsThePool /\ [Next]_vars => (Inv /\ PreviewCountsThePool)'
  BY InvKept, PreviewKept
<1>3. Inv /\ PreviewCountsThePool => PoolIsConsistent
  BY InvScores DEF PoolIsConsistent
<1> QED
  BY <1>1, <1>2, <1>3, PTL DEF Spec

-----------------------------------------------------------------------------
(* The groups of a plan. *)

\* No element comes twice.
Distinct(s) == \A m, n \in 1..Len(s) : s[m] = s[n] => m = n

\* The elements of a list.
Elements(s) == {s[n] : n \in 1..Len(s)}

\* A list without repetition is as long as its set is large.
LEMMA DistinctCount ==
    ASSUME NEW T, NEW s \in Seq(T), Distinct(s)
    PROVE  Cardinality(Elements(s)) = Len(s)
<1> DEFINE D == 1..Len(s)
<1>1. Len(s) \in Nat /\ s \in [D -> T]
  BY LenProperties
<1>2. s \in [D -> Elements(s)]
  BY <1>1 DEF Elements
<1>3. s \in Bijection(D, Elements(s))
  BY <1>2 DEF Distinct, Elements, Bijection, Injection, IsInjective, Surjection
<1>4. IsFiniteSet(D) /\ Cardinality(D) = Len(s)
  BY <1>1, FS_Interval
<1>5. ExistsBijection(D, Elements(s))
  BY <1>3 DEF ExistsBijection
<1> QED
  BY <1>4, <1>5, FS_Bijection

\* The positions whose element is not of a given sequence.
Unlisted(chosen, roster) ==
    {k \in 1..Len(roster) : \A m \in 1..Len(chosen) : chosen[m] # roster[k]}

\* The chosen come first, nothing comes twice or beyond the room, and what
\* there is of the roster is missing only when there is no room.
LEMMA FillUpFills ==
    ASSUME NEW T, NEW chosen \in Seq(T), NEW roster \in Seq(T),
           Distinct(chosen), Distinct(roster), Len(chosen) <= MaxMajorsPerGroup
    PROVE  LET all == FillUp(chosen, roster) IN
           /\ all \in Seq(T) /\ Distinct(all) /\ Len(all) <= MaxMajorsPerGroup
           /\ Len(chosen) <= Len(all)
           /\ \A n \in 1..Len(chosen) : all[n] = chosen[n]
           /\ Elements(all) \subseteq Elements(chosen) \cup Elements(roster)
           /\ Elements(chosen) \cup Elements(roster) \subseteq Elements(all)
              \/ Len(all) = MaxMajorsPerGroup
<1> DEFINE P == Unlisted(chosen, roster)
           rest == At(roster, P)
           room == IF Len(chosen) >= MaxMajorsPerGroup THEN 0
                   ELSE MaxMajorsPerGroup - Len(chosen)
           shown == IF Len(rest) < room THEN Len(rest) ELSE room
           more == SubSeq(rest, 1, shown)
           all == chosen \o more
<1>1. Len(chosen) \in Nat /\ Len(roster) \in Nat /\ MaxMajorsPerGroup \in Nat
  BY LenProperties, CapsAssumption
<1>2. P \in SUBSET (1..Len(roster))
  BY DEF Unlisted
<1>3. \A j, k \in P : roster[j] = roster[k] => j = k
  BY <1>2 DEF Distinct
<1>4. /\ rest \in Seq(T)
      /\ \A n \in 1..Len(rest) : \E k \in P : rest[n] = roster[k]
      /\ \A k \in P : \E n \in 1..Len(rest) : rest[n] = roster[k]
      /\ \A m, n \in 1..Len(rest) : rest[m] = rest[n] => m = n
  BY <1>2, <1>3, AtTakes
<1>5. FillUp(chosen, roster) = all
  BY DEF FillUp, Unlisted
<1> HIDE DEF rest, P
<1>6. Len(rest) \in Nat
  BY <1>4, LenProperties
<1>7. room \in Nat /\ Len(chosen) + room = MaxMajorsPerGroup
  BY <1>1
<1>8. shown \in Nat /\ shown <= Len(rest) /\ shown <= room /\ (shown = Len(rest) \/ shown = room)
  BY <1>6, <1>7
<1> HIDE DEF room, shown
<1>9. \A n \in 1..shown : n \in 1..Len(rest) /\ rest[n] \in T
  BY <1>4, <1>6, <1>8, ElementOfSeq
<1>10. more \in Seq(T) /\ Len(more) = shown /\ \A n \in 1..shown : more[n] = rest[n]
  <2>1. more \in Seq(T) /\ Len(more) = shown
    BY <1>8, <1>9, SubSeqProperties
  <2>2. \A n \in 1..(shown - 1 + 1) : more[n] = rest[1 + n - 1]
    BY <1>8, <1>9, SubSeqProperties
  <2>3. \A n \in 1..shown : n \in 1..(shown - 1 + 1) /\ 1 + n - 1 = n
    BY <1>8
  <2> QED
    BY <2>1, <2>2, <2>3
<1> HIDE DEF more
<1>11. all \in Seq(T) /\ Len(all) = Len(chosen) + shown
  BY <1>10, ConcatProperties
<1>12. ASSUME NEW n \in 1..Len(chosen)  PROVE n \in 1..Len(all) /\ all[n] = chosen[n]
  BY <1>1, <1>8, <1>10, <1>11, ConcatProperties
<1>13. ASSUME NEW n \in 1..shown
       PROVE  Len(chosen) + n \in 1..Len(all) /\ all[Len(chosen) + n] = rest[n]
  <2>1. Len(chosen) + n \in 1..(Len(chosen) + Len(more)) /\ ~ (Len(chosen) + n <= Len(chosen))
        /\ (Len(chosen) + n) - Len(chosen) = n
    BY <1>1, <1>8, <1>10
  <2>2. all[Len(chosen) + n] = more[(Len(chosen) + n) - Len(chosen)]
    BY <1>10, <2>1, ConcatProperties
  <2> QED
    BY <1>10, <1>11, <2>1, <2>2
<1>14. ASSUME NEW n \in 1..Len(all)
       PROVE  n \in 1..Len(chosen) \/ \E k \in 1..shown : n = Len(chosen) + k
  <2>1. CASE n <= Len(chosen)
    BY <1>1, <1>8, <1>11, <2>1
  <2>2. CASE ~ n <= Len(chosen)
    <3>1. n - Len(chosen) \in 1..shown /\ n = Len(chosen) + (n - Len(chosen))
      BY <1>1, <1>8, <1>11, <2>2
    <3> QED
      BY <3>1
  <2> QED
    BY <2>1, <2>2
<1> HIDE DEF all
<1>15. \A m \in 1..Len(chosen), n \in 1..Len(rest) : chosen[m] # rest[n]
  BY <1>4 DEF P, Unlisted
<1>16. Distinct(all)
  <2> SUFFICES ASSUME NEW m \in 1..Len(all), NEW n \in 1..Len(all), all[m] = all[n]
               PROVE  m = n
    BY DEF Distinct
  <2>1. CASE m \in 1..Len(chosen) /\ n \in 1..Len(chosen)
    BY <1>12, <2>1 DEF Distinct
  <2>2. ASSUME NEW k \in 1..shown, n = Len(chosen) + k, m \in 1..Len(chosen)  PROVE m = n
    BY <1>9, <1>12, <1>13, <1>15, <2>2
  <2>3. ASSUME NEW k \in 1..shown, m = Len(chosen) + k, n \in 1..Len(chosen)  PROVE m = n
    BY <1>9, <1>12, <1>13, <1>15, <2>3
  <2>4. ASSUME NEW j \in 1..shown, NEW k \in 1..shown, m = Len(chosen) + j, n = Len(chosen) + k
        PROVE m = n
    <3>1. rest[j] = rest[k]
      BY <1>13, <2>4
    <3> QED
      BY <1>4, <1>9, <2>4, <3>1
  <2> QED
    BY <1>14, <2>1, <2>2, <2>3, <2>4
<1>17. Elements(all) \subseteq Elements(chosen) \cup Elements(roster)
  <2>1. ASSUME NEW n \in 1..Len(all)  PROVE all[n] \in Elements(chosen) \cup Elements(roster)
    <3>1. CASE n \in 1..Len(chosen)
      BY <1>12, <3>1 DEF Elements
    <3>2. ASSUME NEW k \in 1..shown, n = Len(chosen) + k
          PROVE  all[n] \in Elements(roster)
      <4>1. all[n] = rest[k] /\ k \in 1..Len(rest)
        BY <1>9, <1>13, <3>2
      <4>2. PICK j \in P : rest[k] = roster[j]
        BY <1>4, <4>1
      <4> QED
        BY <1>2, <4>1, <4>2 DEF Elements
    <3> QED
      BY <1>14, <3>1, <3>2
  <2> QED
    BY <2>1 DEF Elements
<1>18. Elements(chosen) \subseteq Elements(all)
  BY <1>12 DEF Elements
<1>19. shown = Len(rest) => Elements(roster) \subseteq Elements(all)
  <2> SUFFICES ASSUME shown = Len(rest), NEW k \in 1..Len(roster)  PROVE roster[k] \in Elements(all)
    BY DEF Elements
  <2>1. CASE k \in P
    <3>1. PICK n \in 1..Len(rest) : rest[n] = roster[k]
      BY <1>4, <2>1
    <3> QED
      BY <1>13, <3>1 DEF Elements
  <2>2. CASE k \notin P
    <3>1. PICK m \in 1..Len(chosen) : chosen[m] = roster[k]
      BY <2>2 DEF P, Unlisted
    <3> QED
      BY <1>12, <3>1 DEF Elements
  <2> QED
    BY <2>1, <2>2
<1>20. Len(all) <= MaxMajorsPerGroup /\ Len(chosen) <= Len(all)
       /\ (shown = room => Len(all) = MaxMajorsPerGroup)
  BY <1>1, <1>7, <1>8, <1>11
<1> QED
  BY <1>5, <1>8, <1>11, <1>12, <1>16, <1>17, <1>18, <1>19, <1>20

\* The items of a plan: candidates that survived, of distinct places.
Item == [order : Nat, tier : 1..3, id : Nat, school : STRING, group : STRING, major : STRING]

\* The items are picks, in their order, each with the columns of its candidate.
Itemised(items, P, F) ==
    /\ items \in Seq(Item)
    /\ \A n \in 1..Len(items) :
           /\ items[n].id \in F
           /\ items[n].school = P[items[n].id].school
           /\ items[n].group = P[items[n].id].group
           /\ items[n].major = P[items[n].id].major
    /\ \A m, n \in 1..Len(items) : m # n => Place(items[m]) # Place(items[n])

\* What is left of the picks without the safe majors of a small quota.
LEMMA ItemsAre ==
    ASSUME Inv
    PROVE  Itemised(Ordered(EnsureSafeQuality(picked)), pool, filtered)
<1> DEFINE P == {n \in 1..Len(picked) : picked[n].tier # 3 \/ ~pool[picked[n].id].few}
           kept == At(picked, P)
           items == Ordered(kept)
<1>1. Tally(picked, pool, filtered, seenGroups, usedSchools, tier, took)
  BY DEF Inv, Counted
<1>2. picked \in Seq(Pick(filtered)) /\ P \in SUBSET (1..Len(picked))
  BY <1>1 DEF Tally
<1>3. \A j, k \in P : picked[j] = picked[k] => j = k
  BY <1>1, <1>2 DEF Tally
<1>4. EnsureSafeQuality(picked) = kept
  BY DEF EnsureSafeQuality
<1> HIDE DEF P
<1>5. /\ kept \in Seq(Pick(filtered)) /\ Len(kept) \in Nat
      /\ \A n \in 1..Len(kept) : \E k \in P : kept[n] = picked[k]
      /\ \A m, n \in 1..Len(kept) : kept[m] = kept[n] => m = n
  BY <1>2, <1>3, AtTakes, LenProperties
<1> HIDE DEF kept
<1>6. ASSUME NEW n \in 1..Len(kept)
      PROVE  kept[n].tier \in 1..3 /\ kept[n].id \in filtered /\ kept[n].id \in Nat
             /\ pool[kept[n].id] \in Cand
  <2>1. kept[n] \in Pick(filtered)
    BY <1>5, ElementOfSeq
  <2>2. kept[n].tier \in 1..3 /\ kept[n].id \in filtered
    BY <2>1 DEF Pick
  <2> QED
    BY <2>2 DEF Inv, PoolTyped, TableTyped
<1>7. ASSUME NEW m \in 1..Len(kept), NEW n \in 1..Len(kept), m # n
      PROVE  Place(pool[kept[m].id]) # Place(pool[kept[n].id])
  <2>1. PICK j \in P : kept[m] = picked[j]
    BY <1>5
  <2>2. PICK k \in P : kept[n] = picked[k]
    BY <1>5
  <2>3. j # k
    BY <1>5, <1>7, <2>1, <2>2
  <2> QED
    BY <1>1, <1>2, <2>1, <2>2, <2>3 DEF Tally
<1> DEFINE Row(n) == [order |-> n, tier |-> kept[n].tier, id |-> kept[n].id,
                      school |-> pool[kept[n].id].school, group |-> pool[kept[n].id].group,
                      major |-> pool[kept[n].id].major]
<1>8. items = [n \in 1..Len(kept) |-> Row(n)]
  BY DEF Ordered
<1>9. ASSUME NEW n \in 1..Len(kept)  PROVE Row(n) \in Item
  <2> DEFINE c == pool[kept[n].id]
             e == kept[n]
  <2>1. c.school \in STRING /\ c.group \in STRING /\ c.major \in STRING
    BY <1>6, Names DEF Cand
  <2>2. n \in Nat /\ e.tier \in 1..3 /\ e.id \in Nat
    BY <1>5, <1>6
  <2>3. Row(n) = [order |-> n, tier |-> e.tier, id |-> e.id,
                  school |-> c.school, group |-> c.group, major |-> c.major]
    OBVIOUS
  <2> HIDE DEF c, e, Row
  <2> QED
    BY <2>1, <2>2, <2>3 DEF Item
<1> HIDE DEF items
<1>10. items \in [1..Len(kept) -> Item]
  BY <1>8, <1>9
<1>11. items \in Seq(Item) /\ Len(items) = Len(kept)
  BY <1>5, <1>10, SeqDef, LenProperties
<1>12. ASSUME NEW n \in 1..Len(items)
       PROVE  /\ items[n].id = kept[n].id /\ items[n].id \in filtered
              /\ items[n].school = pool[items[n].id].school
              /\ items[n].group = pool[items[n].id].group
              /\ items[n].major = pool[items[n].id].major
  <2>1. items[n] = Row(n) /\ n \in 1..Len(kept)
    BY <1>8, <1>11
  <2> QED
    BY <1>6, <2>1
<1>13. \A m, n \in 1..Len(items) : m # n => Place(items[m]) # Place(items[n])
  <2>1. \A n \in 1..Len(items) : Place(items[n]) = Place(pool[kept[n].id])
    BY <1>12 DEF Place
  <2> QED
    BY <1>7, <1>11, <2>1
<1>14. Itemised(items, pool, filtered)
  BY <1>11, <1>12, <1>13 DEF Itemised
<1> QED
  BY <1>4, <1>14 DEF items

\* A group of the plan is that of one item.
LEMMA HeadsAre ==
    ASSUME NEW items \in Seq(Item)
    PROVE  /\ Len(Heads(items)) \in Nat
           /\ \A g \in 1..Len(Heads(items)) : Heads(items)[g] \in 1..Len(items)
<1> DEFINE P == {n \in 1..Len(items) : FirstOfPlace(items, n)}
<1>1. IsFiniteSet(1..Len(items)) /\ P \in SUBSET (1..Len(items)) /\ P \subseteq Nat
  BY FS_Interval, LenProperties
<1>2. Heads(items) = Ascending(P)
  BY DEF Heads
<1> HIDE DEF P
<1>3. IsFiniteSet(P)
  BY <1>1, FS_Subset
<1>4. Heads(items) \in Seq(P)
  BY <1>1, <1>2, <1>3, AscendingLists DEF Lists
<1> QED
  BY <1>1, <1>4, ElementOfSeq, LenProperties

\* The only major that was chosen in it.
LEMMA ChosenIs ==
    ASSUME NEW items, NEW P, NEW F, Itemised(items, P, F), NEW n \in 1..Len(items)
    PROVE  ChosenMajors(items, n) = <<items[n].major>> /\ items[n].major \in STRING
<1> DEFINE K == {k \in 1..Len(items) : Place(items[k]) = Place(items[n])}
           own == At(items, K)
<1>1. items \in Seq(Item)
  BY DEF Itemised
<1>2. K = {n}
  BY DEF Itemised
<1>3. own \in Seq(Item) /\ Len(own) = Cardinality(K) /\ own[1] = items[n]
  <2>1. K \in SUBSET (1..Len(items))
    OBVIOUS
  <2>2. n \in Nat
    BY <1>1, LenProperties
  <2> HIDE DEF K
  <2>3. n \in K /\ \A j \in K : n <= j
    BY <1>2, <2>2
  <2>4. own \in Seq(Item) /\ Len(own) = Cardinality(K)
    BY <1>1, <2>1, AtTakes
  <2>5. own[1] = items[n]
    BY <1>1, <2>1, <2>3, AtFirst
  <2> QED
    BY <2>4, <2>5
<1>4. Cardinality(K) = 1
  BY <1>2, FS_Singleton
<1>5. ChosenMajors(items, n) = [k \in 1..Len(own) |-> own[k].major]
  BY DEF ChosenMajors
<1> HIDE DEF K, own
<1>6. Len(own) = 1 /\ own[1] = items[n]
  BY <1>3, <1>4
<1>7. ChosenMajors(items, n) = <<items[n].major>>
  BY <1>5, <1>6
<1>8. items[n] \in Item
  BY <1>1, ElementOfSeq
<1> QED
  BY <1>7, <1>8 DEF Item

\* The candidates of a group.
Members(place) == {i \in filtered : Place(pool[i]) = place}

\* A roster has each major of the group once.
LEMMA RosterLists ==
    ASSUME TableTyped, PoolTyped, NEW place
    PROVE  /\ BuildGroupMajorRoster(place) \in Seq(STRING)
           /\ Distinct(BuildGroupMajorRoster(place))
           /\ Elements(BuildGroupMajorRoster(place)) = {pool[i].major : i \in Members(place)}
<1> DEFINE S == Members(place)
           firsts == {i \in S : ~\E j \in S : Better(j, i) /\ pool[j].major = pool[i].major}
           ranked == ScoreCandidates(firsts)
           roster == [n \in 1..Len(ranked) |-> pool[ranked[n]].major]
<1>1. S \in SUBSET DOMAIN pool /\ firsts \in SUBSET DOMAIN pool /\ firsts \subseteq S
  BY DEF Members, PoolTyped
<1>2. IsFiniteSet(S)
  BY <1>1, FS_Subset DEF TableTyped, PoolTyped
<1>3. Orders(Ranking, S)
  BY <1>1, RankingOrders, OrdersPart
<1>4. \A i, j \in S : <<i, j>> \in Ranking <=> Better(i, j)
  BY <1>1 DEF Ranking
<1>5. Lists(ranked, firsts, Ranking)
  BY <1>1, ScoringLists
<1>6. BuildGroupMajorRoster(place) = roster
  BY DEF BuildGroupMajorRoster, Members
<1>7. \A i \in S : pool[i].major \in STRING
  BY <1>1 DEF PoolTyped, Cand
<1>8. ASSUME NEW i \in firsts, NEW j \in firsts, pool[i].major = pool[j].major  PROVE i = j
  <2>1. ~ <<i, j>> \in Ranking /\ ~ <<j, i>> \in Ranking
    BY <1>1, <1>4, <1>8
  <2> QED
    BY <1>1, <1>3, <2>1 DEF Orders
<1>9. ASSUME NEW i \in S  PROVE \E x \in firsts : pool[x].major = pool[i].major
  <2> DEFINE A == {j \in S : pool[j].major = pool[i].major}
  <2>1. A \in SUBSET S /\ A # {}
    OBVIOUS
  <2>2. IsFiniteSet(A) /\ Orders(Ranking, A)
    BY <1>2, <1>3, <2>1, FS_Subset, OrdersPart
  <2>3. PICK x \in A : \A y \in A \ {x} : <<x, y>> \in Ranking
    BY <2>1, <2>2, OneLeads
  <2>4. \A j \in A : ~ <<j, x>> \in Ranking
    BY <2>2, <2>3 DEF Orders
  <2>5. x \in firsts
    BY <1>4, <2>4
  <2> QED
    BY <2>5
<1> HIDE DEF S, firsts, ranked, roster
<1>10. ranked \in Seq(firsts) /\ Len(ranked) \in Nat
  BY <1>5, LenProperties DEF Lists
<1>11. \A n \in 1..Len(ranked) : ranked[n] \in firsts /\ roster[n] = pool[ranked[n]].major
  BY <1>10, ElementOfSeq DEF roster
<1>12. ASSUME NEW m \in 1..Len(ranked), NEW n \in 1..Len(ranked), ranked[m] = ranked[n]  PROVE m = n
  <2>1. ~ <<ranked[m], ranked[n]>> \in Ranking /\ ~ <<ranked[n], ranked[m]>> \in Ranking
    BY <1>1, <1>3, <1>11, <1>12 DEF Orders
  <2>2. ~ m < n /\ ~ n < m
    BY <1>5, <2>1 DEF Lists
  <2> QED
    BY <1>10, <2>2
<1>13. roster \in [1..Len(ranked) -> STRING]
  BY <1>1, <1>7, <1>11 DEF roster
<1>14. roster \in Seq(STRING) /\ Len(roster) = Len(ranked)
  BY <1>10, <1>13, SeqDef, LenProperties
<1>15. Distinct(roster)
  BY <1>8, <1>11, <1>12, <1>14 DEF Distinct
<1>16. Elements(roster) = {pool[i].major : i \in S}
  <2>1. \A n \in 1..Len(roster) : roster[n] \in {pool[i].major : i \in S}
    BY <1>1, <1>11, <1>14
  <2>2. ASSUME NEW i \in S  PROVE pool[i].major \in Elements(roster)
    <3>1. PICK x \in firsts : pool[x].major = pool[i].major
      BY <1>9
    <3>2. PICK n \in 1..Len(ranked) : ranked[n] = x
      BY <1>5 DEF Lists
    <3> QED
      BY <1>11, <1>14, <3>1, <3>2 DEF Elements
  <2> QED
    BY <2>1, <2>2 DEF Elements
<1> QED
  BY <1>6, <1>14, <1>15, <1>16 DEF S

\* As many values as arguments, at most.
LEMMA LengthOf ==
    ASSUME NEW k \in Nat, NEW f, f = [g \in 1..k |-> f[g]]
    PROVE  Len(f) = k
<1> DEFINE S == {f[g] : g \in 1..k}
<1>1. f \in [1..k -> S]
  OBVIOUS
<1> HIDE DEF S
<1>2. f \in Seq(S)
  BY <1>1, SeqDef
<1> QED
  BY <1>1, <1>2, LenProperties

\* A group of the plan: that of its item, whose major comes first.
LEMMA GroupIs ==
    ASSUME TableTyped, PoolTyped, NEW items, Itemised(items, pool, filtered)
    PROVE  LET plan == BuildVolunteerPlanFromItems(items) IN
           /\ Len(plan) = Len(Heads(items))
           /\ \A g \in 1..Len(Heads(items)) :
                  LET n == Heads(items)[g] IN
                  /\ n \in 1..Len(items)
                  /\ Place(plan[g]) = Place(items[n])
                  /\ plan[g].order = items[n].order
                  /\ plan[g].tier = items[n].tier
                  /\ plan[g].school = items[n].school
                  /\ plan[g].group = items[n].group
                  /\ plan[g] = [order |-> items[n].order, tier |-> items[n].tier,
                                school |-> items[n].school, group |-> items[n].group,
                                majors |-> plan[g].majors]
                  /\ plan[g].majors
                     = FillUp(<<items[n].major>>, BuildGroupMajorRoster(Place(items[n])))
<1> DEFINE plan == BuildVolunteerPlanFromItems(items)
           heads == Heads(items)
           Majors(n) == FillUp(ChosenMajors(items, n), BuildGroupMajorRoster(Place(items[n])))
           Group(n) == [order |-> items[n].order, tier |-> items[n].tier,
                        school |-> items[n].school, group |-> items[n].group,
                        majors |-> Majors(n)]
<1>1. Len(heads) \in Nat /\ \A g \in 1..Len(heads) : heads[g] \in 1..Len(items)
  BY HeadsAre DEF Itemised
<1>2. plan = [g \in 1..Len(heads) |-> Group(heads[g])]
  BY DEF BuildVolunteerPlanFromItems
<1>3. \A n \in 1..Len(items) : Majors(n)
          = FillUp(<<items[n].major>>, BuildGroupMajorRoster(Place(items[n])))
  BY ChosenIs
<1>4. \A n : Place(Group(n)) = Place(items[n])
  BY DEF Place
<1>5. \A n : /\ Group(n).order = items[n].order /\ Group(n).tier = items[n].tier
             /\ Group(n).school = items[n].school /\ Group(n).group = items[n].group
             /\ Group(n).majors = Majors(n)
             /\ Group(n) = [order |-> items[n].order, tier |-> items[n].tier,
                            school |-> items[n].school, group |-> items[n].group,
                            majors |-> Group(n).majors]
  OBVIOUS
<1> HIDE DEF plan, heads, Group, Majors
<1>6. Len(plan) = Len(heads)
  BY <1>1, <1>2, LengthOf
<1>7. \A g \in 1..Len(heads) : plan[g] = Group(heads[g])
  BY <1>2
<1> QED
  BY <1>1, <1>3, <1>4, <1>5, <1>6, <1>7 DEF plan, heads

\* What a group of the plan promises.
LEMMA GroupLists ==
    ASSUME TableTyped, PoolTyped, NEW items, Itemised(items, pool, filtered),
           NEW n \in 1..Len(items)
    PROVE  LET majors == FillUp(<<items[n].major>>, BuildGroupMajorRoster(Place(items[n])))
               own == {pool[i].major : i \in Members(Place(items[n]))}
           IN  /\ majors \in Seq(STRING)
               /\ Len(majors) # 0 /\ majors[1] = items[n].major
               /\ Cardinality(Elements(majors)) = Len(majors)
               /\ Len(majors) <= MaxMajorsPerGroup
               /\ Elements(majors) \subseteq own
               /\ own \subseteq Elements(majors) \/ Len(majors) = MaxMajorsPerGroup
<1> DEFINE chosen == <<items[n].major>>
           roster == BuildGroupMajorRoster(Place(items[n]))
           majors == FillUp(chosen, roster)
           own == {pool[i].major : i \in Members(Place(items[n]))}
<1>1. items[n].major \in STRING
  BY ChosenIs
<1>2. chosen \in Seq(STRING) /\ Len(chosen) = 1 /\ chosen[1] = items[n].major
  BY <1>1
<1>3. Distinct(chosen) /\ Elements(chosen) = {items[n].major}
  BY <1>2 DEF Distinct, Elements
<1>4. roster \in Seq(STRING) /\ Distinct(roster) /\ Elements(roster) = own
  BY RosterLists
<1>5. items[n].major \in own
  <2>1. /\ items[n].id \in filtered
        /\ items[n].school = pool[items[n].id].school
        /\ items[n].group = pool[items[n].id].group
        /\ items[n].major = pool[items[n].id].major
    BY DEF Itemised
  <2>2. Place(pool[items[n].id]) = Place(items[n])
    BY <2>1 DEF Place
  <2> QED
    BY <2>1, <2>2 DEF Members
<1>6. Len(chosen) <= MaxMajorsPerGroup
  BY <1>2, CapsAssumption
<1> HIDE DEF chosen, roster, own
<1>7. /\ majors \in Seq(STRING) /\ Distinct(majors) /\ Len(majors) <= MaxMajorsPerGroup
      /\ Len(chosen) <= Len(majors)
      /\ \A k \in 1..Len(chosen) : majors[k] = chosen[k]
      /\ Elements(majors) \subseteq Elements(chosen) \cup Elements(roster)
      /\ Elements(chosen) \cup Elements(roster) \subseteq Elements(majors)
         \/ Len(majors) = MaxMajorsPerGroup
  BY <1>2, <1>3, <1>4, <1>6, FillUpFills
<1> HIDE DEF majors
<1>8. Len(majors) # 0 /\ majors[1] = items[n].major
  BY <1>2, <1>7
<1>9. Cardinality(Elements(majors)) = Len(majors)
  BY <1>7, DistinctCount
<1> QED
  BY <1>3, <1>4, <1>5, <1>7, <1>8, <1>9 DEF majors, chosen, roster, own

\* The groups of a plan against its items.
Grouped(items, plan, P, F) ==
    \A g \in 1..Len(plan) :
        LET group == plan[g]
            majors == group.majors
            own == {P[i].major : i \in {k \in F : Place(P[k]) = Place(group)}}
            listed == {majors[n] : n \in 1..Len(majors)}
        IN  /\ \E n \in 1..Len(items) :
                   /\ Place(items[n]) = Place(group)
                   /\ items[n].order = group.order
                   /\ items[n].major = majors[1]
            /\ Cardinality(listed) = Len(majors)
            /\ Len(majors) <= MaxMajorsPerGroup
            /\ listed \subseteq own
            /\ own \subseteq listed \/ Len(majors) = MaxMajorsPerGroup

\* Every group of a plan that is built lists its majors.
LEMMA PlanListsMajors ==
    ASSUME Inv, Recommend
    PROVE  GroupsListTheirMajors'
<1> DEFINE items == Ordered(EnsureSafeQuality(picked))
           plan == BuildVolunteerPlanFromItems(items)
<1>1. Itemised(items, pool, filtered) /\ TableTyped /\ PoolTyped
  BY ItemsAre DEF Inv
<1>2. /\ reply' = [kind |-> "recommend", items |-> items, groups |-> plan]
      /\ UNCHANGED <<pool, filtered>>
  BY DEF Recommend
<1> HIDE DEF items
<1>3. reply'.items = items /\ reply'.groups = plan
  BY <1>2
<1>4. Len(plan) = Len(Heads(items))
  BY <1>1, GroupIs
<1>5. ASSUME NEW g \in 1..Len(plan)
      PROVE  LET group == plan[g]
                 majors == group.majors
                 own == {pool[i].major : i \in {k \in filtered : Place(pool[k]) = Place(group)}}
                 listed == {majors[n] : n \in 1..Len(majors)}
             IN  /\ \E n \in 1..Len(items) :
                        /\ Place(items[n]) = Place(group)
                        /\ items[n].order = group.order
                        /\ items[n].major = majors[1]
                 /\ Cardinality(listed) = Len(majors)
                 /\ Len(majors) <= MaxMajorsPerGroup
                 /\ listed \subseteq own
                 /\ own \subseteq listed \/ Len(majors) = MaxMajorsPerGroup
  <2> DEFINE n == Heads(items)[g]
             majors == FillUp(<<items[n].major>>, BuildGroupMajorRoster(Place(items[n])))
  <2>1. /\ n \in 1..Len(items) /\ Place(plan[g]) = Place(items[n])
        /\ plan[g].order = items[n].order /\ plan[g].majors = majors
    <3>1. g \in 1..Len(Heads(items))
      BY <1>4
    <3>2. /\ n \in 1..Len(items) /\ Place(plan[g]) = Place(items[n])
          /\ plan[g].order = items[n].order
      BY <1>1, <3>1, GroupIs
    <3>3. plan[g].majors = majors
      BY <1>1, <3>1, GroupIs
    <3> QED
      BY <3>2, <3>3
  <2>2. /\ majors[1] = items[n].major
        /\ Cardinality(Elements(majors)) = Len(majors)
        /\ Len(majors) <= MaxMajorsPerGroup
        /\ Elements(majors) \subseteq {pool[i].major : i \in Members(Place(items[n]))}
        /\ {pool[i].major : i \in Members(Place(items[n]))} \subseteq Elements(majors)
           \/ Len(majors) = MaxMajorsPerGroup
    BY <1>1, <2>1, GroupLists
  <2> HIDE DEF n, majors, plan
  <2> QED
    BY <2>1, <2>2 DEF Members, Elements
<1>6. Grouped(items, plan, pool, filtered)
  BY <1>5 DEF Grouped
<1> HIDE DEF plan
<1>7. Grouped(reply'.items, reply'.groups, pool', filtered')
  BY <1>2, <1>3, <1>6
<1> QED
  BY <1>7 DEF GroupsListTheirMajors, Grouped

\* The plan and the legacy list built from the same items agree.
LEMMA PlanReadsAlike ==
    ASSUME Inv, Recommend
    PROVE  LegacyPlansReadAlike'
<1> DEFINE items == Ordered(EnsureSafeQuality(picked))
           plan == BuildVolunteerPlanFromItems(items)
           legacy == NormalizeLegacyPlan(items)
           heads == Heads(items)
           Group(n) == [order |-> items[n].order, tier |-> items[n].tier,
                        school |-> items[n].school, group |-> items[n].group,
                        majors |-> ChosenMajors(items, n)]
<1>1. Itemised(items, pool, filtered) /\ TableTyped /\ PoolTyped
  BY ItemsAre DEF Inv
<1>2. reply' = [kind |-> "recommend", items |-> items, groups |-> plan]
  BY DEF Recommend
<1> HIDE DEF items
<1>3. reply'.items = items /\ reply'.groups = plan
  BY <1>2
<1>4. legacy = [g \in 1..Len(heads) |-> Group(heads[g])]
  BY DEF NormalizeLegacyPlan
<1>5. Len(heads) \in Nat /\ \A g \in 1..Len(heads) : heads[g] \in 1..Len(items)
  BY <1>1, HeadsAre DEF Itemised
<1> HIDE DEF plan, legacy, heads, Group
<1>6. Len(legacy) = Len(heads)
  BY <1>4, <1>5, LengthOf
<1>7. Len(plan) = Len(heads)
  BY <1>1, GroupIs DEF plan, heads
<1>8. ASSUME NEW g \in 1..Len(legacy)
      PROVE  /\ [legacy[g] EXCEPT !.majors = << >>] = [plan[g] EXCEPT !.majors = << >>]
             /\ legacy[g].majors[1] = plan[g].majors[1]
  <2> DEFINE n == heads[g]
             all == plan[g].majors
             only == ChosenMajors(items, n)
             a == items[n].order
             b == items[n].tier
             c == items[n].school
             d == items[n].group
  <2>1. n \in 1..Len(items) /\ legacy[g] = Group(n)
    BY <1>4, <1>5, <1>6
  <2>2. legacy[g] = [order |-> a, tier |-> b, school |-> c, group |-> d, majors |-> only]
    BY <2>1 DEF Group
  <2>3. plan[g] = [order |-> a, tier |-> b, school |-> c, group |-> d, majors |-> all]
        /\ all = FillUp(<<items[n].major>>, BuildGroupMajorRoster(Place(items[n])))
    BY <1>1, <1>6, GroupIs DEF plan, heads
  <2>4. all[1] = items[n].major
    BY <1>1, <2>1, <2>3, GroupLists
  <2>5. only = <<items[n].major>>
    BY <1>1, <2>1, ChosenIs
  <2>6. only[1] = all[1]
    BY <2>4, <2>5
  <2> HIDE DEF n, all, only, a, b, c, d
  <2> QED
    BY <2>2, <2>3, <2>6
<1> QED
  BY <1>3, <1>6, <1>7, <1>8 DEF LegacyPlansReadAlike, legacy

\* Every step keeps the plan that was answered.
LEMMA GroupsKept ==
    ASSUME Inv, GroupsAreComplete, [Next]_vars
    PROVE  GroupsAreComplete'
<1>1. CASE UNCHANGED <<stage, req, year, windows, pool, filtered, picks, reply>>
  <2>1. GroupsListTheirMajors'
    <3>1. Planned => Grouped(reply.items, reply.groups, pool, filtered)
      BY DEF GroupsAreComplete, GroupsListTheirMajors, Grouped
    <3>2. Planned' => Grouped(reply'.items, reply'.groups, pool', filtered')
      BY <1>1, <3>1 DEF Planned
    <3> QED
      BY <3>2 DEF GroupsListTheirMajors, Grouped
  <2>2. LegacyPlansReadAlike'
    BY <1>1 DEF GroupsAreComplete, LegacyPlansReadAlike, Planned
  <2> QED
    BY <2>1, <2>2 DEF GroupsAreComplete
<1>2. CASE Recommend
  BY <1>2, PlanListsMajors, PlanReadsAlike DEF GroupsAreComplete
<1>3. CASE ~Planned'
  BY <1>3 DEF GroupsAreComplete, GroupsListTheirMajors, LegacyPlansReadAlike
<1>4. CASE Filter
  BY <1>3, <1>4 DEF Filter, StartPicking, Preview, PreviewReply, Planned
<1> QED
  BY <1>1, <1>2, <1>3, <1>4, Beside DEF Call, Ask, Refuse, ResolveAdmissionYear, QueryFails,
     FetchBucketCandidates, OverrideMajorNames, PickBucket, NextTier, Open, Planned

\* Each group of a plan leads with the major it was picked for, lists each
\* major of the group that survived once, as far as there is room, and is read
\* back alike from the old format (buildVolunteerPlanFromItems,
\* normalizeLegacyPlanJSON).
THEOREM CompleteGroups == Spec => []GroupsAreComplete
<1>1. Init => Inv /\ GroupsAreComplete
  BY InitInv DEF Init, GroupsAreComplete, GroupsListTheirMajors, LegacyPlansReadAlike, Planned
<1>2. Inv /\ GroupsAreComplete /\ [Next]_vars => (Inv /\ GroupsAreComplete)'
  BY InvKept, GroupsKept
<1> QED
  BY <1>1, <1>2, PTL DEF Spec

-----------------------------------------------------------------------------
(* What of the picks is returned. *)

\* The items of a plan are the picks without the safe ones of a small quota.
Returned(chosen, P) ==
    LET kept == At(chosen, {n \in 1..Len(chosen) : chosen[n].tier # 3 \/ ~P[chosen[n].id].few})
    IN  [n \in 1..Len(kept) |->
            [order |-> n, tier |-> kept[n].tier, id |-> kept[n].id,
             school |-> P[kept[n].id].school, group |-> P[kept[n].id].group,
             major |-> P[kept[n].id].major]]

ItemsArePicks == Planned => reply.items = Returned(picked, pool)

LEMMA ItemsKept ==
    ASSUME Inv, ItemsArePicks, [Next]_vars
    PROVE  ItemsArePicks'
<1>1. CASE UNCHANGED <<stage, req, year, windows, pool, filtered, picks, reply>>
  <2>1. Planned' => Planned /\ reply' = reply /\ picked' = picked /\ pool' = pool
    BY <1>1 DEF Planned, picks
  <2> QED
    BY <2>1 DEF ItemsArePicks
<1>2. CASE Recommend
  <2> DEFINE items == Ordered(EnsureSafeQuality(picked))
             plan == BuildVolunteerPlanFromItems(items)
  <2>1. reply' = [kind |-> "recommend", items |-> items, groups |-> plan]
        /\ picked' = picked /\ pool' = pool
    BY <1>2 DEF Recommend, picks
  <2>2. items = Returned(picked, pool)
    BY DEF Ordered, EnsureSafeQuality, Returned
  <2> HIDE DEF items, plan
  <2>3. reply'.items = Returned(picked', pool')
    BY <2>1, <2>2
  <2> QED
    BY <2>3 DEF ItemsArePicks
<1>3. CASE ~Planned'
  BY <1>3 DEF ItemsArePicks
<1>4. CASE Filter
  BY <1>3, <1>4 DEF Filter, StartPicking, Preview, PreviewReply, Planned
<1> QED
  BY <1>1, <1>2, <1>3, <1>4, Beside DEF Call, Ask, Refuse, ResolveAdmissionYear, QueryFails,
     FetchBucketCandidates, OverrideMajorNames, PickBucket, NextTier, Open, Planned

\* Every pick is returned or dropped.
LEMMA ReturnedOrDropped ==
    ASSUME Inv, NEW items, items = Returned(picked, pool)
    PROVE  /\ Len(items) + Cardinality(Dropped) = Len(picked)
           /\ \A n \in 1..Len(items) : items[n].tier = 3 => ~pool[items[n].id].few
<1> DEFINE P == {n \in 1..Len(picked) : picked[n].tier # 3 \/ ~pool[picked[n].id].few}
           kept == At(picked, P)
<1>1. picked \in Seq(Pick(filtered)) /\ P \in SUBSET (1..Len(picked)) /\ Len(picked) \in Nat
  BY LenProperties DEF Inv, Counted, Tally
<1>2. /\ P \cup Dropped = 1..Len(picked) /\ P \cap Dropped = {}
      /\ IsFiniteSet(P) /\ IsFiniteSet(Dropped)
      /\ Cardinality(1..Len(picked)) = Len(picked)
  <2>1. IsFiniteSet(1..Len(picked)) /\ Cardinality(1..Len(picked)) = Len(picked)
    <3> DEFINE len == Len(picked)
    <3>1. len \in Nat /\ 1 \in Int /\ len \in Int
      BY <1>1
    <3> HIDE DEF len
    <3>2. IsFiniteSet(1..len) /\ Cardinality(1..len) = IF 1 > len THEN 0 ELSE len - 1 + 1
      BY <3>1, FS_Interval
    <3> QED
      BY <3>1, <3>2 DEF len
  <2>2. P \cup Dropped = 1..Len(picked) /\ P \cap Dropped = {}
    BY DEF Dropped
  <2> HIDE DEF P
  <2> QED
    BY <2>1, <2>2, FS_Subset
<1>4. \A k \in P : picked[k].tier # 3 \/ ~pool[picked[k].id].few
  OBVIOUS
<1> HIDE DEF P
<1>5. Cardinality(P) + Cardinality(Dropped) = Len(picked)
  BY <1>2, Disjoint
<1>6. /\ kept \in Seq(Pick(filtered)) /\ Len(kept) = Cardinality(P)
      /\ \A n \in 1..Len(kept) : \E k \in P : kept[n] = picked[k]
  BY <1>1, AtTakes
<1> HIDE DEF kept
<1> DEFINE Row(n) == [order |-> n, tier |-> kept[n].tier, id |-> kept[n].id,
                      school |-> pool[kept[n].id].school, group |-> pool[kept[n].id].group,
                      major |-> pool[kept[n].id].major]
<1>7. items = [n \in 1..Len(kept) |-> Row(n)] /\ Len(kept) \in Nat
  BY <1>6, LenProperties DEF Returned, kept, P
<1>8. \A n \in 1..Len(kept) : Row(n).tier = kept[n].tier /\ Row(n).id = kept[n].id
  OBVIOUS
<1> HIDE DEF Row
<1>9. Len(items) = Len(kept)
  BY <1>7, LengthOf
<1>10. ASSUME NEW n \in 1..Len(items), items[n].tier = 3
       PROVE  ~pool[items[n].id].few
  <2>1. items[n].tier = kept[n].tier /\ items[n].id = kept[n].id /\ n \in 1..Len(kept)
    BY <1>7, <1>8, <1>9
  <2>2. PICK k \in P : kept[n] = picked[k]
    BY <1>6, <2>1
  <2> QED
    BY <1>4, <1>10, <2>1, <2>2
<1> QED
  BY <1>5, <1>6, <1>9, <1>10

\* The returned plan is never larger than asked, and smaller only by the safe places
\* dropped for their small quota or when all that is left over is blocked; and what is
\* passed over was blocked by an earlier pick, however the quotas of the tiers come out
\* (pickBucket over scoreCandidates, ensureSafeQuality).
THEOREM BestFill == Spec => []BestFillThePlan
<1>1. Init => Inv /\ ItemsArePicks
  BY InitInv DEF Init, ItemsArePicks, Planned
<1>2. Inv /\ ItemsArePicks /\ [Next]_vars => (Inv /\ ItemsArePicks)'
  BY InvKept, ItemsKept
<1>3. Inv /\ ItemsArePicks => BestFillThePlan
  <2> SUFFICES ASSUME Inv, ItemsArePicks PROVE BestFillThePlan
    OBVIOUS
  <2>1. PicksFill /\ PassedOverForBetter
    BY InvPicks
  <2>2. Planned => /\ Len(reply.items) + Cardinality(Dropped) = Len(picked)
                   /\ \A n \in 1..Len(reply.items) :
                          reply.items[n].tier = 3 => ~pool[reply.items[n].id].few
    BY ReturnedOrDropped DEF ItemsArePicks
  <2>3. QuotaIsCarried
    BY <2>1, <2>2 DEF QuotaIsCarried, PicksFill
  <2> QED
    BY <2>1, <2>3 DEF BestFillThePlan
<1> QED
  BY <1>1, <1>2, <1>3, PTL DEF Spec

-----------------------------------------------------------------------------
(* What was ruled out. *)

\* The candidates that survived are of names the student lets pass.
Screened == \A i \in filtered : pool[i].class \in req.keep

\* What survives the filters is of the classes that were kept.
LEMMA ScreenedKept == ASSUME Fresh, Screened, [Next]_vars  PROVE Screened'
<1>1. CASE UNCHANGED <<req, pool, filtered>>
  BY <1>1 DEF Screened
<1>2. CASE Filter
  BY <1>2 DEF Filter, Preview, StartPicking, FilterByPreference, Kept, Screened
<1>3. CASE stage \notin {"pick", "done"} /\ UNCHANGED filtered
  BY <1>3 DEF Fresh, Screened
<1> QED
  BY <1>1, <1>2, <1>3, Beside DEF Call, Ask, Refuse, ResolveAdmissionYear, QueryFails,
     FetchBucketCandidates, OverrideMajorNames, PickBucket, NextTier, Recommend, Open, picks

\* A group lists only majors of candidates, so none that were ruled out.
LEMMA ScreenedIsShown ==
    ASSUME Inv, PreviewCountsThePool, GroupsAreComplete, Screened
    PROVE  ExcludedIsNotShown
<1>1. \A i \in filtered : i \in DOMAIN pool /\ pool[i].class \in req.keep
  BY DEF Inv, PoolTyped, Screened
<1>2. ASSUME Planned, NEW g \in 1..Len(reply.groups), NEW n \in 1..Len(reply.groups[g].majors)
      PROVE  \E i \in DOMAIN pool :
                 /\ Place(pool[i]) = Place(reply.groups[g])
                 /\ pool[i].major = reply.groups[g].majors[n]
                 /\ pool[i].class \in req.keep
  <2> DEFINE group == reply.groups[g]
             own == {pool[i].major : i \in {k \in filtered : Place(pool[k]) = Place(group)}}
             listed == {group.majors[k] : k \in 1..Len(group.majors)}
  <2>1. listed \subseteq own
    BY <1>2 DEF GroupsAreComplete, GroupsListTheirMajors
  <2>2. group.majors[n] \in own
    BY <2>1
  <2> QED
    BY <1>1, <2>2
<1>3. ASSUME stage = "done", reply.kind = "preview", NEW n \in 1..Len(reply.sample)
      PROVE  pool[reply.sample[n]].class \in req.keep
  BY <1>1, <1>3 DEF PreviewCountsThePool
<1> QED
  BY <1>2, <1>3 DEF ExcludedIsNotShown

\* Nothing is listed under a group or sampled by a preview whose latest name
\* the student ruled out (overrideMajorNamesWithLatestPlan, filterByPreference).
THEOREM NothingExcluded == Spec => []ExcludedIsNotShown
<1> DEFINE I == Inv /\ PreviewCountsThePool /\ GroupsAreComplete /\ Screened
<1>1. Init => I
  BY InitInv DEF Init, PreviewCountsThePool, GroupsAreComplete, GroupsListTheirMajors,
     LegacyPlansReadAlike, Planned, Screened
<1>2. I /\ [Next]_vars => I'
  BY InvKept, PreviewKept, GroupsKept, ScreenedKept DEF Inv
<1>3. I => ExcludedIsNotShown
  BY ScreenedIsShown
<1> QED
  BY <1>1, <1>2, <1>3, PTL DEF Spec

=============================================================================
