--------------------------- MODULE Recommendation ---------------------------
(***************************************************************************)
(* One call of the recommendation service, Recommend or Preview            *)
(* (src/internal/admission/recommendation_service.go), while the admission *)
(* lines it reads are being re-imported and the administrator's refresher  *)
(* rewrites the precomputed scores.                                        *)
(*                                                                         *)
(* The call reads the year, the candidates of the three rank windows and   *)
(* the latest names of their majors in separate queries, not in one        *)
(* transaction; everything after that is a computation over what it read.  *)
(* An admission line is a record: its university (school), the code of its *)
(* group, batch and major, its year, the lowest admitted rank (0: no rank  *)
(* yet), whether its quota is small, what its name says of the major       *)
(* (class), the subjects it requires and the base score computed from the  *)
(* line itself.  The budget and the wanted places are one set of schools,  *)
(* as the query only compares them with the line.                          *)
(***************************************************************************)
EXTENDS Naturals, FiniteSets, Sequences

CONSTANTS Rows,                \* the admission lines there may be
          MaxRows,             \* how many of them the table holds
          Requests,            \* the requests that are asked
          Scores,              \* the values an evaluator may give
          Ranks,               \* the ranks an import may give a line
          Limits,              \* rush/match/safeBucketLimit
          MaxGroupsPerSchool,
          MaxMajorsPerGroup,
          MinRanked,           \* minRankedMajorsForValidYear
          DefaultPlanSize,
          PlanSizeCap,
          RefreshLimit,        \* refresherMaxLimit
          MaxChanges           \* bound of the model: imports and refreshes under the call

\* An admission line; rank 0 is NULL.
Line == [id : Nat, school : STRING, group : STRING, batch : STRING, major : STRING,
         year : Nat, rank : Nat, few : BOOLEAN, class : STRING, needs : SUBSET STRING,
         base : Nat]

\* What is asked; size and year may be left out, as 0.
Request == [kind : {"recommend", "preview"}, year : Nat, rank : Nat, size : Nat,
            electives : SUBSET STRING, first : STRING, reach : SUBSET STRING,
            keep : SUBSET STRING, cities : SUBSET STRING, likes : SUBSET STRING,
            careers : SUBSET STRING, family : SUBSET STRING, holland : SUBSET STRING,
            strong : SUBSET STRING, weak : SUBSET STRING]

ASSUME CapsAssumption ==
    /\ MaxGroupsPerSchool \in Nat \ {0}
    /\ MaxMajorsPerGroup \in Nat \ {0}
    /\ DefaultPlanSize \in Nat \ {0}
    /\ PlanSizeCap \in Nat \ {0}

ASSUME DataAssumption ==
    /\ Rows \subseteq Line /\ IsFiniteSet(Rows)
    /\ Requests \subseteq Request
    /\ Scores \subseteq Nat /\ Ranks \subseteq Nat

VARIABLES catalogue,    \* university_major_admissions joined with their groups
          stored,       \* recommendation_precomputed_scores, 0: no row
          job,          \* the rows a running refresh has still to evaluate
          stage, req, year, windows,
          pool,         \* the candidates fetched so far
          filtered,     \* those filterByPreference keeps
          tier, quota, took, left,      \* pickBucket
          picked, seenGroups, usedSchools,
          reply,
          changes, touched              \* history: what changed under the call

table == <<catalogue, stored, job, changes, touched>>
picks == <<tier, quota, took, left, picked, seenGroups, usedSchools>>
vars == <<table, stage, req, year, windows, pool, filtered, picks, reply>>

TierNames == <<"rush", "match", "safe">>

\* The members of S in the order of a set of pairs.
Sorted(S, before) ==
    [n \in 1..Cardinality(S) |->
        CHOOSE i \in S : Cardinality({j \in S : <<j, i>> \in before}) = n - 1]

Ascending(S) == Sorted(S, {p \in S \X S : p[1] < p[2]})

\* The elements of s at some positions.
At(s, positions) ==
    LET sorted == Ascending(positions)
    IN  [n \in 1..Cardinality(positions) |-> s[sorted[n]]]

ScoreKey(row) == [school |-> row.school, major |-> row.major]
Place(c) == [school |-> c.school, group |-> c.group]
MajorKey(c) == [school |-> c.school, batch |-> c.batch, group |-> c.group, major |-> c.major]

NoReply == [kind |-> "none"]

-----------------------------------------------------------------------------
(* The request and its windows. *)

\* A rank scaled by a percentage in floating point and truncated: an exact
\* product may come out one below.
Scaled(rank, percent) ==
    LET exact == (rank * percent) \div 100
    IN  {exact} \cup (IF (rank * percent) % 100 = 0 /\ exact > 0 THEN {exact - 1} ELSE {})

ClampBucketWindow(low, high) ==
    LET min == IF low < 1 THEN 1 ELSE low
    IN  [min |-> min, max |-> IF high < min THEN min ELSE high]

\* Halving and doubling are exact; the two inner bounds are shared.
ComputeBucketWindows(rank, lower, upper) ==
    << ClampBucketWindow(rank \div 2, lower),
       ClampBucketWindow(lower, upper),
       ClampBucketWindow(upper, 2 * rank) >>

Within(rank, window) == rank >= window.min /\ rank <= window.max

Valid(r) == r.rank > 0 /\ Cardinality(r.electives) \in {0, 2}

PlanSize(r) ==
    LET size == IF r.size = 0 THEN DefaultPlanSize ELSE r.size
    IN  IF size > PlanSizeCap THEN PlanSizeCap ELSE size

SplitTierQuota(size) == << size \div 4, size - 2 * (size \div 4), size \div 4 >>

Ask(r) ==
    /\ stage = "idle"
    /\ Valid(r)
    /\ \E lower \in Scaled(r.rank, 85), upper \in Scaled(r.rank, 115) :
           windows' = ComputeBucketWindows(r.rank, lower, upper)
    /\ req' = [r EXCEPT !.size = PlanSize(r)]
    /\ stage' = "year"
    /\ touched' = {}
    /\ UNCHANGED <<catalogue, stored, job, changes, year, pool, filtered, picks, reply>>

\* validateRequest refuses the request before anything is read.
Refuse(r) ==
    /\ stage = "idle"
    /\ ~Valid(r)
    /\ stage' = "failed"
    /\ UNCHANGED <<table, req, year, windows, pool, filtered, picks, reply>>

LatestAdmissionYear ==
    LET ranked(y) == {i \in DOMAIN catalogue : catalogue[i].year = y /\ catalogue[i].rank # 0}
        valid == {y \in {catalogue[i].year : i \in DOMAIN catalogue} :
                      Cardinality(ranked(y)) >= MinRanked}
    IN  IF valid = {} THEN 0 ELSE CHOOSE y \in valid : \A z \in valid : z <= y

\* No year with enough ranks is an error the caller is told of.
ResolveAdmissionYear ==
    LET y == IF req.year # 0 THEN req.year ELSE LatestAdmissionYear IN
    /\ stage = "year"
    /\ year' = y
    /\ stage' = IF y = 0 THEN "failed" ELSE "fetch"
    /\ UNCHANGED <<table, req, windows, pool, filtered, picks, reply>>

\* A query of the call, or the loading of its metadata, fails.
QueryFails ==
    /\ stage \in {"year", "fetch"}
    /\ stage' = "failed"
    /\ UNCHANGED <<table, req, year, windows, pool, filtered, picks, reply>>

-----------------------------------------------------------------------------
(* The candidates. *)

\* Without electives the query does not look at the required subjects.
SubjectsMatch(row) == req.electives = {} \/ row.needs \subseteq req.electives \cup {req.first}

Matches(row, window) ==
    /\ row.year = year
    /\ row.rank # 0
    /\ Within(row.rank, window)
    /\ row.school \in req.reach
    /\ SubjectsMatch(row)

\* ORDER BY min_rank, name: lines of one rank come in the order of their ids.
Sooner(i, j) ==
    \/ catalogue[i].rank < catalogue[j].rank
    \/ catalogue[i].rank = catalogue[j].rank /\ i < j

FetchCandidates(n) ==
    LET hits == {i \in DOMAIN catalogue : Matches(catalogue[i], windows[n])}
    IN  {i \in hits : Cardinality({j \in hits : Sooner(j, i)}) < Limits[n]}

Candidate(i, n) ==
    LET row == catalogue[i] IN
    [school |-> row.school, group |-> row.group, batch |-> row.batch, major |-> row.major,
     rank |-> row.rank, few |-> row.few, class |-> row.class, base |-> row.base,
     stored |-> stored[ScoreKey(row)], query |-> n]

\* A line two queries return is kept as the first of them read it.
FetchBucketCandidates ==
    LET rows == FetchCandidates(tier) IN
    /\ stage = "fetch"
    /\ pool' = [i \in DOMAIN pool \cup rows |->
                    IF i \in DOMAIN pool THEN pool[i] ELSE Candidate(i, tier)]
    /\ IF tier < 3
       THEN tier' = tier + 1 /\ stage' = stage
       ELSE tier' = 1 /\ stage' = "names"
    /\ UNCHANGED <<table, req, year, windows, filtered, quota, took, left, picked,
                   seenGroups, usedSchools, reply>>

LatestPlanYear ==
    LET years == {catalogue[i].year : i \in DOMAIN catalogue}
    IN  IF years = {} THEN 0 ELSE CHOOSE y \in years : \A z \in years : z <= y

LatestNames(c) ==
    {catalogue[i].class : i \in {k \in DOMAIN catalogue :
                                     /\ catalogue[k].year = LatestPlanYear
                                     /\ MajorKey(catalogue[k]) = MajorKey(c)}}

\* Either lookup may fail: the call goes on with the names it has.
OverrideMajorNames ==
    /\ stage = "names"
    /\ \/ LatestPlanYear > year
          /\ pool' = [i \in DOMAIN pool |->
                 IF LatestNames(pool[i]) = {} THEN pool[i]
                 ELSE [pool[i] EXCEPT !.class = CHOOSE c \in LatestNames(pool[i]) : TRUE]]
       \/ pool' = pool
    /\ stage' = "filter"
    /\ UNCHANGED <<table, req, year, windows, filtered, picks, reply>>

-----------------------------------------------------------------------------
(* Scores. *)

ClampPersonalization(percent) ==
    IF percent < 70 THEN 70 ELSE IF percent > 130 THEN 130 ELSE percent

CityPersonalization(c) == IF c.school \in req.cities THEN 140 ELSE 100

\* What the student says of majors, as the classes it names.
MatchesPreferredMajors(c) == c.class \in req.likes
MatchesCareerPlan(c) == c.class \in req.careers
FamilyResourceWeight(c) == IF c.class \in req.family THEN 120 ELSE 100
HollandWeight(c) == IF c.class \in req.holland THEN 110 ELSE 100

\* The bonuses of one dimension multiply, before the clamp.
MajorPersonalization(c) ==
    LET liked   == IF MatchesPreferredMajors(c) THEN 125 ELSE 100
        planned == IF MatchesCareerPlan(c) THEN 115 ELSE 100
    IN  (((liked * planned) \div 100) * FamilyResourceWeight(c) * HollandWeight(c)) \div 10000

\* The student's marks against the rule of the major's category.
AbilityFitScore(c) ==
    IF c.class \in req.strong THEN 120 ELSE IF c.class \in req.weak THEN 80 ELSE 100

\* The stored base, or the one computed from the line when there is none.
Base(c) == IF c.stored = 0 THEN c.base ELSE c.stored

Composite(c) ==
    Base(c) * ClampPersonalization(CityPersonalization(c))
            * ClampPersonalization(MajorPersonalization(c))
            * ClampPersonalization(AbilityFitScore(c))

\* sort.SliceStable over candidates in the order they were fetched.
Better(i, j) ==
    LET a == pool[i]
        b == pool[j]
    IN  \/ Composite(a) > Composite(b)
        \/ /\ Composite(a) = Composite(b)
           /\ \/ a.query < b.query
              \/ a.query = b.query /\ a.rank < b.rank
              \/ a.query = b.query /\ a.rank = b.rank /\ i < j

ScoreCandidates(S) == Sorted(S, {p \in S \X S : Better(p[1], p[2])})

\* estimateProbability, in percent: the gap to the student's rank as a ratio.
EstimateProbability(rank) ==
    LET r == req.rank IN
    CASE 2 * rank >= 5 * r -> 95
      [] 2 * rank >= 3 * r /\ 2 * rank < 5 * r -> 85
      [] 10 * rank >= 12 * r /\ 2 * rank < 3 * r -> 70
      [] rank >= r /\ 10 * rank < 12 * r -> 55
      [] 10 * rank >= 9 * r /\ rank < r -> 40
      [] 10 * rank >= 7 * r /\ 10 * rank < 9 * r -> 25
      [] OTHER -> 10

-----------------------------------------------------------------------------
(* Filtering, and the preview that stops there. *)

\* Mutant of FilterByPreference: it reads the names before they are replaced.
FilterByPreferenceOldNames == {i \in DOMAIN pool : catalogue[i].class \in req.keep}

\* None of the excluded words, one of the required ones, no mark too low.
Kept(c) == c.class \in req.keep

FilterByPreference == {i \in DOMAIN pool : Kept(pool[i])}

\* Mutant of TierOf: the upper bounds are exclusive.
TierOfHalfOpen(rank) ==
    LET in(n) == rank >= windows[n].min /\ rank < windows[n].max IN
    CASE in(1) -> 1
      [] ~in(1) /\ in(2) -> 2
      [] ~in(1) /\ ~in(2) /\ in(3) -> 3
      [] OTHER -> 0

\* The first window that holds the rank.
TierOf(rank) ==
    CASE Within(rank, windows[1]) -> 1
      [] ~Within(rank, windows[1]) /\ Within(rank, windows[2]) -> 2
      [] ~Within(rank, windows[1]) /\ ~Within(rank, windows[2]) /\ Within(rank, windows[3]) -> 3
      [] OTHER -> 0

PreviewReply(S) ==
    LET inTier(n) == {i \in S : TierOf(pool[i].rank) = n}
        scored == ScoreCandidates({i \in S : TierOf(pool[i].rank) # 0})
    IN  [kind |-> "preview",
         size |-> Cardinality(S),
         counts |-> [n \in 1..3 |-> Cardinality(inTier(n))],
         sample |-> SubSeq(scored, 1, IF req.size > Len(scored) THEN Len(scored) ELSE req.size)]

InWindow(S, n) == {i \in S : Within(pool[i].rank, windows[n])}

StartPicking ==
    /\ filtered' = FilterByPreference
    /\ quota' = SplitTierQuota(req.size)[1]
    /\ left' = InWindow(FilterByPreference, 1)
    /\ stage' = "pick"
    /\ UNCHANGED <<table, req, year, windows, pool, tier, took, picked, seenGroups,
                   usedSchools, reply>>

Preview ==
    /\ filtered' = FilterByPreference
    /\ reply' = PreviewReply(FilterByPreference)
    /\ stage' = "done"
    /\ UNCHANGED <<table, req, year, windows, pool, picks>>

Filter ==
    /\ stage = "filter"
    /\ IF req.kind = "preview" THEN Preview ELSE StartPicking

-----------------------------------------------------------------------------
(* pickBucket, one candidate at a time. *)

\* Mutant of Best: the first candidate as the queries returned them.
BestAsFetched(S) == CHOOSE i \in S : \A j \in S : pool[i].rank <= pool[j].rank

Best(S) == CHOOSE i \in S : \A j \in S \ {i} : Better(i, j)

Open == stage = "pick" /\ took < quota /\ left # {}

\* Mutant of Blocked: the cap on a university's groups is forgotten.
BlockedByGroup(c) == Place(c) \in seenGroups

Blocked(c) ==
    \/ Place(c) \in seenGroups
    \/ usedSchools[c.school] >= MaxGroupsPerSchool

Take(i) ==
    /\ picked' = Append(picked, [tier |-> tier, id |-> i])
    /\ seenGroups' = seenGroups \cup {Place(pool[i])}
    /\ usedSchools' = [usedSchools EXCEPT ![pool[i].school] = @ + 1]
    /\ took' = took + 1

PickBucket ==
    LET i == Best(left) IN
    /\ Open
    /\ left' = left \ {i}
    /\ IF Blocked(pool[i])
       THEN UNCHANGED <<picked, seenGroups, usedSchools, took>>
       ELSE Take(i)
    /\ UNCHANGED <<table, stage, req, year, windows, pool, filtered, tier, quota, reply>>

\* Mutant of NextTier: the rest of the quota is not carried over.
NextTierDropsRest ==
    /\ stage = "pick"
    /\ ~Open
    /\ tier < 3
    /\ tier' = tier + 1
    /\ quota' = SplitTierQuota(req.size)[tier + 1]
    /\ took' = 0
    /\ left' = InWindow(filtered, tier + 1)
    /\ UNCHANGED <<table, stage, req, year, windows, pool, filtered, picked, seenGroups,
                   usedSchools, reply>>

\* Places the tier could not fill go to the next one.
NextTier ==
    /\ stage = "pick"
    /\ ~Open
    /\ tier < 3
    /\ tier' = tier + 1
    /\ quota' = SplitTierQuota(req.size)[tier + 1] + (quota - took)
    /\ took' = 0
    /\ left' = InWindow(filtered, tier + 1)
    /\ UNCHANGED <<table, stage, req, year, windows, pool, filtered, picked, seenGroups,
                   usedSchools, reply>>

-----------------------------------------------------------------------------
(* The plan. *)

\* Majors with a small quota are dropped from the safe tier.
EnsureSafeQuality(items) ==
    At(items, {n \in 1..Len(items) : items[n].tier # 3 \/ ~pool[items[n].id].few})

Ordered(items) == [n \in 1..Len(items) |->
    [order |-> n, tier |-> items[n].tier, id |-> items[n].id,
     school |-> pool[items[n].id].school, group |-> pool[items[n].id].group,
     major |-> pool[items[n].id].major]]

\* Mutant of BuildGroupMajorRoster: the majors of the whole university.
BuildGroupMajorRosterOfSchool(place) ==
    LET ranked == ScoreCandidates({i \in filtered : pool[i].school = place.school})
    IN  [n \in 1..Len(ranked) |-> pool[ranked[n]].major]

\* The majors of every candidate of the group, best first, each code once.
BuildGroupMajorRoster(place) ==
    LET S == {i \in filtered : Place(pool[i]) = place}
        firsts == {i \in S : ~\E j \in S : Better(j, i) /\ pool[j].major = pool[i].major}
        ranked == ScoreCandidates(firsts)
    IN  [n \in 1..Len(ranked) |-> pool[ranked[n]].major]

FirstOfPlace(items, n) ==
    \A k \in 1..(n - 1) : Place(items[k]) # Place(items[n])

\* The groups, in the order of their first items, and the majors chosen in one.
Heads(items) == Ascending({n \in 1..Len(items) : FirstOfPlace(items, n)})

ChosenMajors(items, n) ==
    LET own == At(items, {k \in 1..Len(items) : Place(items[k]) = Place(items[n])})
    IN  [k \in 1..Len(own) |-> own[k].major]

\* The rest of a roster, as far as there is room.
FillUp(chosen, roster) ==
    LET rest == At(roster, {k \in 1..Len(roster) :
                               \A m \in 1..Len(chosen) : chosen[m] # roster[k]})
        room == IF Len(chosen) >= MaxMajorsPerGroup THEN 0
                ELSE MaxMajorsPerGroup - Len(chosen)
    IN  chosen \o SubSeq(rest, 1, IF Len(rest) < room THEN Len(rest) ELSE room)

\* Items folded into groups, the chosen majors first, then the rest of the roster.
BuildVolunteerPlanFromItems(items) ==
    [g \in 1..Len(Heads(items)) |->
        LET n == Heads(items)[g] IN
        [order |-> items[n].order, tier |-> items[n].tier,
         school |-> items[n].school, group |-> items[n].group,
         majors |-> FillUp(ChosenMajors(items, n), BuildGroupMajorRoster(Place(items[n])))]]

\* What reading a plan saved as bare items makes of it (volunteerplan/service.go).
NormalizeLegacyPlan(items) ==
    [g \in 1..Len(Heads(items)) |->
        LET n == Heads(items)[g] IN
        [order |-> items[n].order, tier |-> items[n].tier,
         school |-> items[n].school, group |-> items[n].group,
         majors |-> ChosenMajors(items, n)]]

\* The tuner only adds a summary and warnings to the items.
Recommend ==
    LET items == Ordered(EnsureSafeQuality(picked)) IN
    /\ stage = "pick"
    /\ ~Open
    /\ tier = 3
    /\ reply' = [kind |-> "recommend", items |-> items,
                 groups |-> BuildVolunteerPlanFromItems(items)]
    /\ stage' = "done"
    /\ UNCHANGED <<table, req, year, windows, pool, filtered, picks>>

-----------------------------------------------------------------------------
(* The administrator's refresh of the precomputed scores. *)

\* Bound of the model: changes begin where the call may see them.
Changing == changes < MaxChanges /\ stage \in {"idle", "fetch"}

ScoreKeys == {ScoreKey(row) : row \in Rows}

\* A batch of rows that are missing or past their age.  Which rows are past
\* it, and the order in which the query returns them, is left open.
PendingForRefresh ==
    {batch \in SUBSET ScoreKeys :
        \/ Cardinality(batch) = RefreshLimit
        \/ Cardinality(batch) < RefreshLimit /\ {k \in ScoreKeys : stored[k] = 0} \subseteq batch}

Refresh ==
    /\ Changing
    /\ job.state = "idle"
    /\ \E batch \in PendingForRefresh : job' = [state |-> "running", todo |-> batch]
    /\ changes' = changes + 1
    /\ UNCHANGED <<catalogue, stored, touched, stage, req, year, windows, pool,
                   filtered, picks, reply>>

Evaluated(k) == job' = [state |-> IF job.todo = {k} THEN "done" ELSE "running",
                        todo |-> job.todo \ {k}]

Upsert(k, score) ==
    /\ k \in job.todo
    /\ stored' = [stored EXCEPT ![k] = score]
    /\ touched' = touched \cup {k}
    /\ Evaluated(k)
    /\ UNCHANGED <<catalogue, changes, stage, req, year, windows, pool, filtered, picks, reply>>

\* The evaluator or the write fails: the row is counted and left for later.
EvaluateFails(k) ==
    /\ k \in job.todo
    /\ Evaluated(k)
    /\ UNCHANGED <<catalogue, stored, changes, touched, stage, req, year, windows, pool,
                   filtered, picks, reply>>

\* The request's budget is spent, or the administrator has gone.
RefreshIsCut ==
    /\ job.todo # {}
    /\ job' = [state |-> "done", todo |-> {}]
    /\ UNCHANGED <<catalogue, stored, changes, touched, stage, req, year, windows, pool,
                   filtered, picks, reply>>

\* The data loader rewrites the rank of a line while the call runs.
Import(i, rank) ==
    /\ Changing
    /\ catalogue[i].rank # rank
    /\ catalogue' = [catalogue EXCEPT ![i].rank = rank]
    /\ changes' = changes + 1
    /\ UNCHANGED <<stored, job, touched, stage, req, year, windows, pool, filtered, picks, reply>>

-----------------------------------------------------------------------------
NoRow == [i \in {} |-> 0]

\* UNIQUE (admission_group_id, local_major_code) over UNIQUE groups.
OneLine(S) == \A a, b \in S : a.year = b.year /\ MajorKey(a) = MajorKey(b) => a = b

Catalogues ==
    { [i \in {row.id : row \in S} |-> CHOOSE row \in S : row.id = i] :
        S \in {T \in SUBSET Rows : Cardinality(T) <= MaxRows /\ OneLine(T)} }

Schools == {row.school : row \in Rows}

Init ==
    /\ catalogue \in Catalogues
    /\ \E s \in Scores \cup {0} : stored = [k \in ScoreKeys |-> s]
    /\ job = [state |-> "idle", todo |-> {}]
    /\ stage = "idle" /\ req \in Requests
    /\ year = 0 /\ windows = << >>
    /\ pool = NoRow /\ filtered = {}
    /\ tier = 1 /\ quota = 0 /\ took = 0 /\ left = {}
    /\ picked = << >> /\ seenGroups = {} /\ usedSchools = [s \in Schools |-> 0]
    /\ reply = NoReply
    /\ changes = 0 /\ touched = {}

Call ==
    \/ Ask(req) \/ Refuse(req)
    \/ ResolveAdmissionYear
    \/ FetchBucketCandidates
    \/ OverrideMajorNames
    \/ Filter
    \/ PickBucket
    \/ NextTier
    \/ Recommend
    \/ QueryFails

Background ==
    \/ Refresh
    \/ RefreshIsCut
    \/ \E k \in job.todo : EvaluateFails(k)
    \/ \E k \in job.todo, s \in Scores : Upsert(k, s)
    \/ \E i \in DOMAIN catalogue, r \in Ranks : Import(i, r)

\* The answered call has no more steps.
Answered == stage \in {"done", "failed"} /\ UNCHANGED vars

Next == Call \/ Background \/ Answered

Spec == Init /\ [][Next]_vars

-----------------------------------------------------------------------------
(* Properties. *)

Stages == {"idle", "year", "fetch", "names", "filter", "pick", "done", "failed"}

\* The call's counters agree with what it has picked, and it only picks from
\* the candidates that are left after filtering (pickBucket).
TypeOK ==
    /\ stage \in Stages
    /\ tier \in 1..3
    /\ DOMAIN pool \subseteq DOMAIN catalogue
    /\ filtered \subseteq DOMAIN pool
    /\ left \subseteq filtered
    /\ \A n \in 1..Len(picked) : picked[n].id \in filtered /\ picked[n].tier <= tier
    /\ took = Cardinality({n \in 1..Len(picked) : picked[n].tier = tier})
    /\ seenGroups = {Place(pool[picked[n].id]) : n \in 1..Len(picked)}

\* A plan has one place per group of a university and no more groups of a
\* university than the cap, over its three tiers together
\* (recommendation_service.go, seenGroups and usedSchools).
PlacesAreDistinct ==
    /\ \A m, n \in 1..Len(picked) :
           m # n => Place(pool[picked[m].id]) # Place(pool[picked[n].id])
    /\ \A s \in Schools :
           Cardinality({n \in 1..Len(picked) : pool[picked[n].id].school = s})
               <= MaxGroupsPerSchool

Planned == stage = "done" /\ reply.kind = "recommend"

\* The safe picks that ensureSafeQuality takes out again, for their small quota.
Dropped == {n \in 1..Len(picked) : picked[n].tier = 3 /\ pool[picked[n].id].few}

\* The plan that is returned is never larger than asked, and it is smaller for two
\* reasons only.  A safe place with a small quota was dropped: it is not filled again.
\* Or the last tier ran out: every safe candidate left over is of a group that was
\* picked, or of a university at the cap, by the picks that were dropped as well.
\* Places an earlier tier cannot fill are not lost, and no safe place in the plan has
\* a small quota (recommendation_service.go, the quotas carried over and
\* ensureSafeQuality).
QuotaIsCarried ==
    Planned =>
        LET places == Len(reply.items) + Cardinality(Dropped) IN
        /\ places <= req.size
        /\ places < req.size =>
               \A i \in InWindow(filtered, 3) :
                   (\A n \in 1..Len(picked) : picked[n].id # i) => Blocked(pool[i])
        /\ \A n \in 1..Len(reply.items) :
               reply.items[n].tier = 3 => ~pool[reply.items[n].id].few

\* From one tier to the next the lines only get easier: neither the rank of a
\* later tier's line nor its estimated probability is lower
\* (computeBucketWindows, estimateProbability).
TiersGetEasier ==
    \A m, n \in 1..Len(picked) : picked[m].tier < picked[n].tier =>
        LET a == pool[picked[m].id].rank
            b == pool[picked[n].id].rank
        IN  a <= b /\ EstimateProbability(a) <= EstimateProbability(b)

\* A better candidate of the same window is passed over only for picks made
\* before it: its group is among them, or its university reached the cap
\* with them (pickBucket over scoreCandidates).  A safe pick that is dropped from
\* the plan afterwards has stood in the way all the same.
PassedOverForBetter ==
    \A n \in 1..Len(picked) :
        \A i \in InWindow(filtered, picked[n].tier) :
            LET earlier == 1..(n - 1) IN
            Better(i, picked[n].id) =>
                \/ \E m \in earlier : Place(pool[picked[m].id]) = Place(pool[i])
                \/ Cardinality({m \in earlier : pool[picked[m].id].school = pool[i].school})
                       >= MaxGroupsPerSchool

\* Under each group of the plan the chosen major comes first, no major comes
\* twice, there are no more than the form has room for, and a major of the
\* group that survived the filters is missing only when there is no room
\* (buildGroupMajorRoster, buildVolunteerPlanFromItems).
GroupsListTheirMajors ==
    Planned => \A g \in 1..Len(reply.groups) :
        LET group == reply.groups[g]
            majors == group.majors
            own == {pool[i].major : i \in {k \in filtered : Place(pool[k]) = Place(group)}}
            listed == {majors[n] : n \in 1..Len(majors)}
        IN  /\ \E n \in 1..Len(reply.items) :
                   /\ Place(reply.items[n]) = Place(group)
                   /\ reply.items[n].order = group.order
                   /\ reply.items[n].major = majors[1]
            /\ Cardinality(listed) = Len(majors)
            /\ Len(majors) <= MaxMajorsPerGroup
            /\ listed \subseteq own
            /\ own \subseteq listed \/ Len(majors) = MaxMajorsPerGroup

\* A plan saved as bare items is read back with the groups the plan itself
\* has, each led by the same major (volunteerplan/service.go,
\* normalizeLegacyPlanJSON "与 admission.buildVolunteerPlanFromItems 保持一致").
LegacyPlansReadAlike ==
    Planned =>
        LET legacy == NormalizeLegacyPlan(reply.items) IN
        /\ Len(legacy) = Len(reply.groups)
        /\ \A g \in 1..Len(legacy) :
               [legacy[g] EXCEPT !.majors = << >>] = [reply.groups[g] EXCEPT !.majors = << >>]
               /\ legacy[g].majors[1] = reply.groups[g].majors[1]

\* What the student ruled out is not shown, judged by the names that are
\* shown: a major listed under a group, or sampled by a preview, is that of a
\* line whose latest known name passed (overrideMajorNamesWithLatestPlan runs
\* before filterByPreference, and the rosters come from what it left).
ExcludedIsNotShown ==
    LET passes(i) == pool[i].class \in req.keep IN
    /\ Planned => \A g \in 1..Len(reply.groups) :
           \A n \in 1..Len(reply.groups[g].majors) :
               \E i \in DOMAIN pool :
                   /\ Place(pool[i]) = Place(reply.groups[g])
                   /\ pool[i].major = reply.groups[g].majors[n]
                   /\ passes(i)
    /\ stage = "done" /\ reply.kind = "preview" =>
           \A n \in 1..Len(reply.sample) : passes(reply.sample[n])

\* A preview counts every candidate that survived, each in one tier, also
\* when a line moved from one window to another between the queries.
PreviewCountsThePool ==
    stage = "done" /\ reply.kind = "preview" =>
        /\ reply.size = reply.counts[1] + reply.counts[2] + reply.counts[3]
        /\ \A n \in 1..Len(reply.sample) : reply.sample[n] \in filtered
        /\ Len(reply.sample) = IF req.size < reply.size THEN req.size ELSE reply.size

\* Two lines of one major at one university are scored from different stored
\* bases only if a refresh wrote that row while the call was fetching.
MixedScoresNeedRefresh ==
    \A i, j \in DOMAIN pool :
        /\ pool[i].school = pool[j].school
        /\ pool[i].major = pool[j].major
        /\ pool[i].stored # pool[j].stored
        => [school |-> pool[i].school, major |-> pool[i].major] \in touched

\* The plan's places: the counters agree with them, no group comes twice, no
\* university too often, and a later tier is never harder.
PlacesAreSound == TypeOK /\ PlacesAreDistinct /\ TiersGetEasier

\* The best that may be taken is taken, until as many places as asked are picked,
\* and all but the safe places with a small quota are returned.
BestFillThePlan == QuotaIsCarried /\ PassedOverForBetter

\* The plan's groups, as saved and as read back from the old format.
GroupsAreComplete == GroupsListTheirMajors /\ LegacyPlansReadAlike

\* Queries that run one after the other, beside imports and refreshes, make
\* one pool: counted whole, and scored alike unless a refresh wrote between.
PoolIsConsistent == PreviewCountsThePool /\ MixedScoresNeedRefresh

=============================================================================
