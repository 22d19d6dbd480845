---------------------------- MODULE SearchProofs ----------------------------
(***************************************************************************)
(* Proofs about Search, for any patches, series, patterns and changes:     *)
(* types, what a search returns of the subjects nobody touches, and that   *)
(* one change in the middle of it does no harm.                            *)
(***************************************************************************)
EXTENDS Search, FiniteSetTheorems, TLAPS

USE DEF Patches, Series, Patterns

\* Is a subject to be on the list?
Live(t) == IsLive(LatestSeries(t))

LEMMA LiveIsFlag == ASSUME NEW some PROVE IsLive(some) \in BOOLEAN
BY DEF IsLive

-----------------------------------------------------------------------------
(* Types. *)

LEMMA InitTyped == ASSUME SearchAssumption, Init PROVE TypeOK
<1>1. shifted \in BOOLEAN
  BY Zenon DEF Init
<1>2. page \in Nat /\ found \subseteq Subjects
  BY DEF Init
<1>3. QED
  BY <1>1, <1>2 DEF SearchAssumption, Init, TypeOK, States

LEMMA LatestTyped == ASSUME NEW t PROVE LatestSeries(t) \in SUBSET Series
BY DEF LatestSeries, RelevantSeries

LEMMA ChangeTyped ==
    ASSUME SearchAssumption, TypeOK, NEW p \in Patches, Change(p) PROVE TypeOK'
<1>0. UNCHANGED <<pc, pattern, page, found, subjects, waiting, judging, latest,
                  liveThen, cache, listed>>
  BY Zenon DEF Change, listing, answers
<1> USE DEF SearchAssumption, TypeOK
<1>1. changes' \in [Subjects -> 0..events']
  BY DEF Change
<1>2. wasLive' \in [Subjects -> SUBSET BOOLEAN]
  <2>1. ASSUME NEW t \in Subjects
        PROVE  wasLive[t] \cup {IsLive(LatestSeries(t))'} \in SUBSET BOOLEAN
    BY Zenon DEF IsLive
  <2>2. QED
    BY <2>1 DEF Change
<1>3. finders' \in [Subjects -> SUBSET Patterns]
  BY DEF Change
<1>4. state' \in [Patches -> States]
  <2>1. CASE UNCHANGED state
    BY <2>1
  <2>2. CASE \E s \in States : state' = [state EXCEPT ![p] = s]
    BY <2>2
  <2>3. QED
    BY <2>1, <2>2, Zenon DEF Change
<1>5. matches' \in [Patches -> SUBSET Patterns]
  <2>1. CASE UNCHANGED matches
    BY <2>1
  <2>2. CASE \E m \in SUBSET Patterns : matches' = [matches EXCEPT ![p] = m]
    BY <2>2
  <2>3. QED
    BY <2>1, <2>2, Zenon DEF Change
<1>6. shifted' \in BOOLEAN
  BY Zenon DEF Change
<1>7. events' \in 0..MaxEvents
  BY DEF Change
<1>8. hidden' \subseteq Patches
  BY Zenon DEF Change
<1>9. QED
  BY <1>0, <1>1, <1>2, <1>3, <1>4, <1>5, <1>6, <1>7, <1>8

LEMMA DaemonTyped ==
    ASSUME SearchAssumption, TypeOK, Daemon PROVE TypeOK'
<1> USE DEF SearchAssumption, TypeOK, pwVars, listing, answers, history
<1>1. CASE StartSearch
  <2>1. wasLive' \in [Subjects -> SUBSET BOOLEAN]
    BY <1>1, LiveIsFlag DEF StartSearch
  <2>2. /\ listed' \in [Subjects -> SUBSET Patterns]
        /\ changes' \in [Subjects -> 0..events']
        /\ finders' \in [Subjects -> SUBSET Patterns]
    BY <1>1 DEF StartSearch
  <2>3. shifted' \in BOOLEAN
    BY <1>1, Zenon DEF StartSearch
  <2>4. pattern' \in 1..(NumPatterns + 1) /\ page' \in Nat
    BY <1>1 DEF StartSearch
  <2>5. QED
    BY <1>1, <2>1, <2>2, <2>3, <2>4 DEF StartSearch
<1>2. ASSUME NEW n PROVE SubjectsOf(Page(pattern, n)) \subseteq Subjects
  BY DEF SubjectsOf, Page, Results, Subject
<1>3. CASE ReadPage
  BY <1>2, <1>3 DEF ReadPage
<1>4. CASE SearchPattern
  BY <1>2, <1>4 DEF SearchPattern, Known, HasNextPattern
<1>5. CASE SearchRaises
  BY <1>5 DEF SearchRaises
<1>6. ASSUME NEW t \in Subjects, FetchLatestSeries(t) PROVE TypeOK'
  <2>1. liveThen' \in [Subjects -> BOOLEAN]
    BY <1>6, LiveIsFlag DEF FetchLatestSeries
  <2>2. latest' \in [Subjects -> SUBSET Series]
    <3>1. CASE UNCHANGED latest
      BY <3>1
    <3>2. CASE latest' = [latest EXCEPT ![t] = LatestSeries(t)]
      BY <3>2, LatestTyped
    <3>3. QED
      BY <1>6, <3>1, <3>2 DEF FetchLatestSeries
  <2>3. cache' \in Subjects \cup {NoSubject} /\ waiting' \subseteq subjects'
    BY <1>6 DEF FetchLatestSeries
  <2>4. QED
    BY <1>6, <2>1, <2>2, <2>3 DEF FetchLatestSeries
<1>7. CASE AllFetched
  BY <1>7 DEF AllFetched
<1>8. ASSUME NEW t \in Subjects, JudgeSubject(t) PROVE TypeOK'
  <2>1. pattern \in Patterns
    BY <1>8 DEF JudgeSubject
  <2>2. listed' \in [Subjects -> SUBSET Patterns]
    <3>1. CASE UNCHANGED listed
      BY <3>1
    <3>2. CASE listed' = [listed EXCEPT ![t] = @ \cup {pattern}]
      BY <2>1, <3>2
    <3>3. QED
      BY <1>8, <3>1, <3>2 DEF JudgeSubject
  <2>3. QED
    BY <1>8, <2>2 DEF JudgeSubject
<1>9. CASE NextPattern
  BY <1>9 DEF NextPattern
<1>10. CASE SearchDone
  BY <1>10 DEF SearchDone
<1>11. QED
  BY <1>1, <1>3, <1>4, <1>5, <1>6, <1>7, <1>8, <1>9, <1>10 DEF Daemon

LEMMA StepTyped ==
    ASSUME SearchAssumption, TypeOK, [Next]_vars PROVE TypeOK'
<1>1. CASE Next
  BY <1>1, ChangeTyped, DaemonTyped DEF Next
<1>2. CASE UNCHANGED vars
  BY <1>2 DEF vars, pwVars, listing, answers, history, TypeOK
<1>3. QED
  BY <1>1, <1>2

\* Type correctness; no round searches for a pattern there is not.
THEOREM TypeCorrect ==
    ASSUME SearchAssumption
    PROVE  Spec => []TypeOK
<1>1. Init => TypeOK
  BY InitTyped
<1>2. TypeOK /\ [Next]_vars => TypeOK'
  BY StepTyped
<1>3. QED
  BY <1>1, <1>2, PTL DEF Spec

-----------------------------------------------------------------------------
(* The list. *)

\* Did one of the first k patterns find it?
FoundUpTo(k, t) == \E r \in 1..k : FoundBy(r, t)

\* The first k rounds that should put it on the list.
ListedUpTo(k, t) == IF Live(t) THEN {q \in 1..k : FoundUpTo(q, t)} ELSE {}

\* The patterns that have been searched for.
Searched == IF pc \in {"fetch", "judge"} THEN pattern ELSE pattern - 1

FoundOK(t) == t \in subjects <=> FoundUpTo(Searched, t)

\* The latest series of t is known: asked for in this round, or in the cache.
IsKnown(t) ==
    \/ pc = "fetch" /\ t \in subjects \ waiting
    \/ pc = "judge" /\ t \in subjects
    \/ cache = t

LatestOK(t) ==
    IsKnown(t) => latest[t] = LatestSeries(t) /\ (liveThen[t] <=> Live(t))

IsJudged(t) == pc = "judge" /\ t \in subjects \ judging

ListedOK(t) ==
    /\ IsJudged(t) => listed[t] = ListedUpTo(pattern, t)
    /\ ~IsJudged(t) => listed[t] = ListedUpTo(pattern - 1, t)

\* The pages read so far are the first of the results: what is found is on them,
\* and what is on them is found.
ListingOK(t) ==
    /\ pc = "search" =>
          /\ t \in found => FoundBy(pattern, t)
          /\ \A p \in Results(pattern) :
                Subject(p) = t /\ Place(pattern, p) <= page * PageSize => t \in found
    /\ pc \in {"fetch", "judge"} => page = 0 /\ found = {}

IsRight(t) == FoundOK(t) /\ LatestOK(t) /\ ListedOK(t) /\ ListingOK(t)

\* The invariant: all is right about the subjects nobody has touched, unless the
\* pages have shifted.
SearchInv == ~shifted => \A t \in Subjects : changes[t] = 0 => IsRight(t)

LEMMA ResultsFinite ==
    ASSUME SearchAssumption, NEW q
    PROVE  IsFiniteSet(Results(q)) /\ Cardinality(Results(q)) \in Nat
<1>1. IsFiniteSet(1..NumPatches)
  BY FS_Interval DEF SearchAssumption
<1>2. Results(q) \subseteq 1..NumPatches
  BY DEF Results
<1>3. QED
  BY <1>1, <1>2, FS_Subset, FS_CardinalityType

LEMMA RankRange ==
    ASSUME SearchAssumption, NEW R \in SUBSET Patches, NEW p \in R
    PROVE  LET rank == Cardinality({r \in R : r <= p})
           IN  rank \in Nat /\ 1 <= rank /\ rank <= Cardinality(R)
<1> DEFINE U == {r \in R : r <= p}
<1>1. p \in U /\ U \subseteq R
  OBVIOUS
<1>2. IsFiniteSet(1..NumPatches)
  BY FS_Interval DEF SearchAssumption
<1>3. IsFiniteSet(R)
  BY <1>2, FS_Subset
<1>4. IsFiniteSet(U) /\ Cardinality(U) <= Cardinality(R)
  BY <1>1, <1>3, FS_Subset
<1>5. Cardinality(U) \in Nat /\ Cardinality(U) # 0
  BY <1>1, <1>4, FS_CardinalityType, FS_EmptySet
<1> HIDE DEF U
<1>6. Cardinality(U) \in Nat /\ 1 <= Cardinality(U) /\ Cardinality(U) <= Cardinality(R)
  BY <1>4, <1>5
<1>7. QED
  BY <1>6 DEF U

\* Places are counted from 1 to the number of results.
LEMMA PlaceRange ==
    ASSUME SearchAssumption, NEW q, NEW p \in Results(q)
    PROVE  /\ Place(q, p) \in Nat /\ 1 <= Place(q, p)
           /\ Place(q, p) <= Cardinality(Results(q))
<1>1. Results(q) \in SUBSET Patches
  BY DEF Results
<1>2. QED
  BY <1>1, RankRange DEF Place

\* When nothing leaves the results, nothing moves to an earlier place.
LEMMA PlaceGrows ==
    ASSUME SearchAssumption, NEW q, Results(q) \subseteq Results(q)',
           NEW p \in Results(q)
    PROVE  Place(q, p) <= Place(q, p)'
<1> DEFINE U == {r \in Results(q) : r <= p}
           V == {r \in Results(q)' : r <= p}
<1>1. IsFiniteSet(1..NumPatches)
  BY FS_Interval DEF SearchAssumption
<1>2. V \subseteq 1..NumPatches /\ U \subseteq V
  BY DEF Results
<1>3. IsFiniteSet(V)
  BY <1>1, <1>2, FS_Subset
<1>4. Cardinality(U) <= Cardinality(V)
  BY <1>2, <1>3, FS_Subset
<1>5. Place(q, p) = Cardinality(U) /\ Place(q, p)' = Cardinality(V)
  BY DEF Place
<1>6. QED
  BY <1>4, <1>5

\* Page n + 1 takes up where page n ends.
LEMMA NextPage ==
    ASSUME SearchAssumption, NEW q, NEW n \in Nat, NEW p \in Results(q),
           Place(q, p) <= (n + 1) * PageSize
    PROVE  Place(q, p) <= n * PageSize \/ p \in Page(q, n + 1)
<1>1. (n + 1) - 1 = n
  OBVIOUS
<1>2. Place(q, p) \in Nat /\ n * PageSize \in Nat
  BY PlaceRange DEF SearchAssumption
<1>3. QED
  BY <1>1, <1>2 DEF Page

LEMMA FoundMore ==
    ASSUME NEW t, NEW k \in Nat, k >= 1
    PROVE  FoundUpTo(k, t) <=> FoundUpTo(k - 1, t) \/ FoundBy(k, t)
<1>1. 1..k = 1..(k - 1) \cup {k}
  OBVIOUS
<1>2. QED
  BY <1>1 DEF FoundUpTo

LEMMA FoundNone == ASSUME NEW t PROVE ~FoundUpTo(0, t)
BY DEF FoundUpTo

LEMMA ListedMore ==
    ASSUME NEW t, NEW k \in Nat, k >= 1
    PROVE  ListedUpTo(k, t) = ListedUpTo(k - 1, t)
                                  \cup (IF Live(t) /\ FoundUpTo(k, t) THEN {k} ELSE {})
<1>1. 1..k = 1..(k - 1) \cup {k}
  OBVIOUS
<1>2. QED
  BY <1>1 DEF ListedUpTo

LEMMA ListedNone == ASSUME NEW t PROVE ListedUpTo(0, t) = {}
BY DEF ListedUpTo

\* What a step leaves as it is about a subject.
Same(t) ==
    /\ \A k : FoundUpTo(k, t)' <=> FoundUpTo(k, t)
    /\ \A k : ListedUpTo(k, t)' = ListedUpTo(k, t)
    /\ LatestSeries(t)' = LatestSeries(t)
    /\ Live(t)' <=> Live(t)

\* The daemon changes nothing in Patchwork.
LEMMA SameResults ==
    ASSUME UNCHANGED pwVars
    PROVE  /\ \A q : Results(q)' = Results(q)
           /\ \A q, p : Place(q, p)' = Place(q, p)
           /\ \A q, t : FoundBy(q, t)' <=> FoundBy(q, t)
<1>1. \A q : Results(q)' = Results(q)
  BY DEF Results, Finds, pwVars
<1>2. QED
  BY <1>1 DEF Place, FoundBy, Subject

LEMMA DaemonSame ==
    ASSUME NEW t, UNCHANGED pwVars PROVE Same(t)
<1> USE DEF pwVars
<1>1. \A r : FoundBy(r, t)' <=> FoundBy(r, t)
  BY SameResults DEF pwVars
<1>2. LatestSeries(t)' = LatestSeries(t)
  BY DEF LatestSeries, RelevantSeries, HasMatchingPatches, IsPatchMatching, PatchesOf
<1>3. Live(t)' <=> Live(t)
  BY <1>2 DEF Live, IsLive, IsExpired, IsClosed, PatchesOf
<1>4. QED
  BY <1>1, <1>2, <1>3 DEF Same, FoundUpTo, ListedUpTo

\* A change of a patch concerns its own subject only.
LEMMA ChangeSame ==
    ASSUME SearchAssumption, TypeOK, NEW p \in Patches, Change(p),
           NEW t \in Subjects, t # Subject(p)
    PROVE  Same(t)
<1>1. ASSUME NEW x \in Patches, x # p
      PROVE  /\ state'[x] = state[x] /\ matches'[x] = matches[x]
             /\ x \in hidden' <=> x \in hidden
  BY <1>1 DEF Change, TypeOK
<1>2. \A s \in Series : SubjectOf[s] = t => p \notin PatchesOf(s)
  BY DEF PatchesOf, Subject
<1>3. \A s \in Series : SubjectOf[s] = t =>
         /\ HasMatchingPatches(s)' <=> HasMatchingPatches(s)
         /\ IsClosed(s)' <=> IsClosed(s)
         /\ IsExpired(s)' <=> IsExpired(s)
  BY <1>1, <1>2 DEF HasMatchingPatches, IsPatchMatching, IsClosed, IsExpired, PatchesOf
<1>4. \A r : FoundBy(r, t)' <=> FoundBy(r, t)
  BY <1>1 DEF FoundBy, Results, Finds, Subject
<1>5. RelevantSeries(t)' = RelevantSeries(t)
  BY <1>3 DEF RelevantSeries
<1>6. LatestSeries(t)' = LatestSeries(t)
  BY <1>5 DEF LatestSeries
<1>7. Live(t)' <=> Live(t)
  BY <1>3, <1>6 DEF Live, IsLive, LatestSeries, RelevantSeries
<1>8. QED
  BY <1>4, <1>6, <1>7 DEF Same, FoundUpTo, ListedUpTo

LEMMA InitRight == ASSUME SearchAssumption, Init PROVE SearchInv
<1> SUFFICES ASSUME NEW t \in Subjects PROVE IsRight(t)
  BY DEF SearchInv
<1>1. FoundOK(t)
  BY FoundNone DEF FoundOK, Searched, Init
<1>2. LatestOK(t)
  BY DEF LatestOK, IsKnown, Init, SearchAssumption
<1>3. ListedOK(t)
  BY ListedNone DEF ListedOK, IsJudged, Init
<1>4. ListingOK(t)
  BY DEF ListingOK, Init
<1>5. QED
  BY <1>1, <1>2, <1>3, <1>4 DEF IsRight

\* A patch of another subject that enters the results, or leaves them before the
\* first page is read, hides nothing.
LEMMA ChangeListing ==
    ASSUME SearchAssumption, TypeOK, NEW p \in Patches, Change(p), ~shifted',
           NEW t \in Subjects, t # Subject(p), ListingOK(t)
    PROVE  ListingOK(t)'
<1>1. UNCHANGED <<pc, pattern, page, found>>
  BY DEF Change, listing
<1>2. SUFFICES ASSUME pc = "search"
               PROVE  ListingOK(t)'
  BY <1>1 DEF ListingOK
<1>3. \A x \in Patches : x # p =>
         (x \in Results(pattern)' <=> x \in Results(pattern))
  <2>1. ASSUME NEW x \in Patches, x # p
        PROVE  /\ state'[x] = state[x] /\ matches'[x] = matches[x]
               /\ x \in hidden' <=> x \in hidden
    BY <2>1 DEF Change, TypeOK
  <2>2. QED
    BY <1>1, <2>1 DEF Results, Finds
<1>4. FoundBy(pattern, t)' <=> FoundBy(pattern, t)
  BY <1>1, <1>3 DEF FoundBy, Results, Subject
<1>5. ASSUME NEW x \in Results(pattern)', Subject(x) = t,
             Place(pattern, x)' <= page * PageSize
      PROVE  t \in found
  <2>1. x \in Results(pattern) /\ x # p
    BY <1>3, <1>5 DEF Results
  <2>2. Place(pattern, x)' \in Nat /\ 1 <= Place(pattern, x)'
    <3>1. Results(pattern)' \in SUBSET Patches
      BY DEF Results
    <3>2. QED
      BY <1>5, <3>1, RankRange DEF Place
  <2>3. page > 0
    BY <1>5, <2>2 DEF TypeOK, SearchAssumption
  <2>4. ~(p \in Results(pattern) \ Results(pattern)')
    BY <2>3 DEF Change
  <2>5. Results(pattern) \subseteq Results(pattern)'
    BY <1>3, <2>4 DEF Results
  <2>6. Place(pattern, x) <= Place(pattern, x)'
    BY <2>1, <2>5, <1>1, PlaceGrows
  <2>7. Place(pattern, x) \in Nat /\ page * PageSize \in Nat
    BY <2>1, PlaceRange DEF TypeOK, SearchAssumption
  <2>8. Place(pattern, x) <= page * PageSize
    BY <1>5, <2>2, <2>6, <2>7
  <2>9. QED
    BY <1>2, <1>5, <2>1, <2>8 DEF ListingOK
<1>6. QED
  BY <1>1, <1>2, <1>4, <1>5 DEF ListingOK, Subject

LEMMA ChangeRight ==
    ASSUME SearchAssumption, TypeOK, SearchInv, NEW p \in Patches, Change(p)
    PROVE  SearchInv'
<1> SUFFICES ASSUME ~shifted', NEW t \in Subjects, changes'[t] = 0 PROVE IsRight(t)'
  BY DEF SearchInv
<1>0. ~shifted
  BY DEF Change
<1>1. t # Subject(p) /\ changes[t] = 0
  BY DEF Change, TypeOK
<1>2. IsRight(t) /\ Same(t)
  BY <1>0, <1>1, ChangeSame DEF SearchInv
<1>3. UNCHANGED <<pc, pattern, subjects, waiting, judging, latest, liveThen, cache, listed>>
  BY DEF Change, answers
<1>4. FoundOK(t)'
  BY <1>2, <1>3 DEF IsRight, Same, FoundOK, Searched
<1>5. LatestOK(t)'
  BY <1>2, <1>3 DEF IsRight, Same, LatestOK, IsKnown
<1>6. ListedOK(t)'
  BY <1>2, <1>3 DEF IsRight, Same, ListedOK, IsJudged
<1>7. ListingOK(t)'
  BY <1>1, <1>2, ChangeListing DEF IsRight
<1>8. QED
  BY <1>4, <1>5, <1>6, <1>7 DEF IsRight

LEMMA StartRight ==
    ASSUME SearchAssumption, TypeOK, StartSearch PROVE SearchInv'
<1> SUFFICES ASSUME NEW t \in Subjects PROVE IsRight(t)'
  BY DEF SearchInv
<1> USE DEF StartSearch
<1>1. Same(t)
  BY DaemonSame
<1>2. FoundOK(t)'
  BY <1>1, FoundNone DEF Same, FoundOK, Searched
<1>3. LatestOK(t)'
  BY DEF LatestOK, IsKnown, SearchAssumption
<1>4. ListedOK(t)'
  BY <1>1, ListedNone DEF Same, ListedOK, IsJudged
<1>5. ListingOK(t)'
  <2>1. ASSUME NEW p \in Results(pattern)' PROVE ~(Place(pattern, p)' <= page' * PageSize)
    <3>1. p \in Results(1) /\ Place(pattern, p)' = Place(1, p)
      BY SameResults
    <3>2. Place(1, p) \in Nat /\ 1 <= Place(1, p)
      BY <3>1, PlaceRange
    <3>3. page' * PageSize = 0
      BY DEF SearchAssumption
    <3>4. QED
      BY <3>1, <3>2, <3>3
  <2>2. QED
    BY <2>1 DEF ListingOK
<1>6. QED
  BY <1>2, <1>3, <1>4, <1>5 DEF IsRight

\* What a page adds is found, and it adds all of its subjects.
LEMMA PageFinds ==
    ASSUME SearchAssumption, NEW q, NEW n, NEW t \in Subjects
    PROVE  /\ t \in SubjectsOf(Page(q, n)) => FoundBy(q, t)
           /\ \A p \in Page(q, n) : Subject(p) = t => t \in SubjectsOf(Page(q, n))
BY DEF SubjectsOf, Page, FoundBy, SearchAssumption

LEMMA ReadPageRight ==
    ASSUME SearchAssumption, TypeOK, ReadPage, NEW t \in Subjects, IsRight(t)
    PROVE  IsRight(t)'
<1> USE DEF ReadPage
<1>1. Same(t)
  BY DaemonSame
<1>2. FoundOK(t)'
  BY <1>1 DEF Same, IsRight, FoundOK, Searched
<1>3. LatestOK(t)'
  BY <1>1 DEF Same, IsRight, LatestOK, IsKnown, answers
<1>4. ListedOK(t)'
  BY <1>1 DEF Same, IsRight, ListedOK, IsJudged
<1>5. ListingOK(t)'
  <2>1. ListingOK(t) /\ page \in Nat
    BY DEF IsRight, TypeOK
  <2>2. t \in found' => FoundBy(pattern, t)
    BY <2>1, PageFinds DEF ListingOK
  <2>3. ASSUME NEW p \in Results(pattern), Subject(p) = t,
               Place(pattern, p) <= (page + 1) * PageSize
        PROVE  t \in found'
    <3>1. Place(pattern, p) <= page * PageSize \/ p \in Page(pattern, page + 1)
      BY <2>1, <2>3, NextPage
    <3>2. QED
      BY <2>1, <2>3, <3>1, PageFinds DEF ListingOK
  <2>4. QED
    BY <2>2, <2>3, SameResults DEF ListingOK, Subject
<1>6. QED
  BY <1>2, <1>3, <1>4, <1>5 DEF IsRight

LEMMA SearchRaisesRight ==
    ASSUME SearchRaises, NEW t \in Subjects, IsRight(t)
    PROVE  IsRight(t)'
<1> USE DEF SearchRaises
<1>1. Same(t)
  BY DaemonSame
<1>2. FoundOK(t)'
  BY <1>1 DEF Same, IsRight, FoundOK, Searched
<1>3. LatestOK(t)'
  BY <1>1 DEF Same, IsRight, LatestOK, IsKnown, answers
<1>4. ListedOK(t)'
  BY <1>1 DEF Same, IsRight, ListedOK, IsJudged
<1>5. ListingOK(t)'
  BY DEF ListingOK
<1>6. QED
  BY <1>2, <1>3, <1>4, <1>5 DEF IsRight

LEMMA SearchRight ==
    ASSUME SearchAssumption, TypeOK, SearchPattern,
           NEW t \in Subjects, IsRight(t)
    PROVE  IsRight(t)'
<1> USE DEF SearchPattern
<1>1. Same(t)
  BY DaemonSame
<1>2. FoundOK(t)'
  <2>1. t \in subjects' <=> t \in subjects \/ FoundBy(pattern, t)
    <3>1. page \in Nat /\ ListingOK(t)
      BY DEF TypeOK, IsRight
    <3>2. ASSUME NEW p \in Results(pattern), Subject(p) = t
          PROVE  t \in found \cup SubjectsOf(Page(pattern, page + 1))
      <4>1. Place(pattern, p) <= (page + 1) * PageSize
        <5>1. ~((page + 1) * PageSize < Cardinality(Results(pattern)))
          BY DEF HasNextPage
        <5>2. /\ Place(pattern, p) \in Nat
              /\ Place(pattern, p) <= Cardinality(Results(pattern))
              /\ Cardinality(Results(pattern)) \in Nat
          BY PlaceRange, ResultsFinite
        <5>3. (page + 1) * PageSize \in Nat
          BY <3>1 DEF SearchAssumption
        <5>4. QED
          BY <5>1, <5>2, <5>3
      <4>2. Place(pattern, p) <= page * PageSize \/ p \in Page(pattern, page + 1)
        BY <3>1, <4>1, NextPage
      <4>3. QED
        BY <3>1, <3>2, <4>2, PageFinds DEF ListingOK
    <3>3. t \in found \cup SubjectsOf(Page(pattern, page + 1)) => FoundBy(pattern, t)
      BY <3>1, PageFinds DEF ListingOK
    <3>4. FoundBy(pattern, t) => t \in found \cup SubjectsOf(Page(pattern, page + 1))
      BY <3>2 DEF FoundBy
    <3>5. QED
      BY <3>3, <3>4 DEF Known
  <2>2. t \in subjects <=> FoundUpTo(pattern - 1, t)
    BY DEF IsRight, FoundOK, Searched
  <2>3. FoundUpTo(pattern, t) <=> FoundUpTo(pattern - 1, t) \/ FoundBy(pattern, t)
    BY FoundMore DEF TypeOK, SearchAssumption
  <2>4. QED
    BY <1>1, <2>1, <2>2, <2>3 DEF Same, FoundOK, Searched
<1>3. LatestOK(t)'
  BY <1>1 DEF Same, IsRight, LatestOK, IsKnown, answers
<1>4. ListedOK(t)'
  BY <1>1 DEF Same, IsRight, ListedOK, IsJudged
<1>5. ListingOK(t)'
  BY DEF IsRight, ListingOK
<1>6. QED
  BY <1>2, <1>3, <1>4, <1>5 DEF IsRight

LEMMA FetchRight ==
    ASSUME SearchAssumption, TypeOK, NEW u \in Subjects, FetchLatestSeries(u),
           NEW t \in Subjects, IsRight(t)
    PROVE  IsRight(t)'
<1> USE DEF FetchLatestSeries
<1>1. Same(t)
  BY DaemonSame
<1>2. FoundOK(t)'
  BY <1>1 DEF Same, IsRight, FoundOK, Searched
<1>3. LatestOK(t)'
  <2>1. CASE UNCHANGED <<latest, liveThen, cache>> /\ cache = u
    BY <1>1, <2>1 DEF Same, IsRight, LatestOK, IsKnown
  <2>2. CASE /\ latest' = [latest EXCEPT ![u] = LatestSeries(u)]
             /\ liveThen' = [liveThen EXCEPT ![u] = IsLive(LatestSeries(u))]
             /\ cache' = u
    <3>1. CASE t = u
      <4>1. latest'[t] = LatestSeries(t) /\ liveThen'[t] = Live(t)
        BY <2>2, <3>1 DEF TypeOK, Live
      <4>2. QED
        BY <1>1, <4>1 DEF Same, LatestOK
    <3>2. CASE t # u
      <4>1. latest'[t] = latest[t] /\ liveThen'[t] = liveThen[t]
        BY <2>2, <3>2 DEF TypeOK
      <4>2. IsKnown(t)' => IsKnown(t)
        BY <2>2, <3>2 DEF IsKnown
      <4>3. QED
        BY <1>1, <4>1, <4>2 DEF Same, IsRight, LatestOK
    <3>3. QED
      BY <3>1, <3>2
  <2>3. QED
    BY <2>1, <2>2
<1>4. ListedOK(t)'
  BY <1>1 DEF Same, IsRight, ListedOK, IsJudged
<1>5. ListingOK(t)'
  BY DEF IsRight, ListingOK, listing
<1>6. QED
  BY <1>2, <1>3, <1>4, <1>5 DEF IsRight

LEMMA AllFetchedRight ==
    ASSUME AllFetched, NEW t \in Subjects, IsRight(t)
    PROVE  IsRight(t)'
<1> USE DEF AllFetched
<1>1. Same(t)
  BY DaemonSame
<1>2. FoundOK(t)'
  BY <1>1 DEF Same, IsRight, FoundOK, Searched
<1>3. LatestOK(t)'
  BY <1>1 DEF Same, IsRight, LatestOK, IsKnown, answers
<1>4. ListedOK(t)'
  BY <1>1 DEF Same, IsRight, ListedOK, IsJudged
<1>5. ListingOK(t)'
  BY DEF IsRight, ListingOK, listing
<1>6. QED
  BY <1>2, <1>3, <1>4, <1>5 DEF IsRight

LEMMA JudgeRight ==
    ASSUME SearchAssumption, TypeOK, NEW u \in Subjects, JudgeSubject(u),
           NEW t \in Subjects, IsRight(t)
    PROVE  IsRight(t)'
<1> USE DEF JudgeSubject
<1>1. Same(t)
  BY DaemonSame
<1>2. FoundOK(t)'
  BY <1>1 DEF Same, IsRight, FoundOK, Searched
<1>3. LatestOK(t)'
  BY <1>1 DEF Same, IsRight, LatestOK, IsKnown, answers
<1>4. ListedOK(t)'
  <2>1. CASE t = u
    <3>1. pattern \in Nat /\ pattern >= 1 /\ t \in subjects /\ ~IsJudged(t)
      BY <2>1 DEF TypeOK, SearchAssumption, IsJudged
    <3>2. FoundUpTo(pattern, t)
      BY <3>1 DEF IsRight, FoundOK, Searched
    <3>3. ListedUpTo(pattern, t) =
             ListedUpTo(pattern - 1, t) \cup (IF Live(t) THEN {pattern} ELSE {})
      BY <3>1, <3>2, ListedMore
    <3>4. latest[t] = LatestSeries(t) /\ (liveThen[t] <=> Live(t))
      BY <3>1 DEF IsRight, LatestOK, IsKnown
    <3>5. (IsListed(t) <=> Live(t)) /\ (IsLeftOut(t) <=> ~Live(t))
      BY <3>4 DEF IsListed, IsLeftOut, Live
    <3>6. listed[t] = ListedUpTo(pattern - 1, t)
      BY <3>1 DEF IsRight, ListedOK
    <3>7. listed'[t] = ListedUpTo(pattern, t)
      <4>1. CASE IsListed(t) /\ listed' = [listed EXCEPT ![t] = @ \cup {pattern}]
        BY <4>1, <3>3, <3>5, <3>6 DEF TypeOK
      <4>2. CASE IsLeftOut(t) /\ UNCHANGED listed
        BY <4>2, <3>3, <3>5, <3>6
      <4>3. QED
        BY <4>1, <4>2, <2>1
    <3>8. IsJudged(t)'
      BY <2>1, <3>1 DEF IsJudged
    <3>9. QED
      BY <1>1, <3>7, <3>8 DEF Same, ListedOK
  <2>2. CASE t # u
    <3>1. listed'[t] = listed[t]
      BY <2>2 DEF TypeOK
    <3>2. IsJudged(t)' <=> IsJudged(t)
      BY <2>2 DEF IsJudged
    <3>3. QED
      BY <1>1, <3>1, <3>2 DEF Same, IsRight, ListedOK
  <2>3. QED
    BY <2>1, <2>2
<1>5. ListingOK(t)'
  BY DEF IsRight, ListingOK, listing
<1>6. QED
  BY <1>2, <1>3, <1>4, <1>5 DEF IsRight

LEMMA NextPatternRight ==
    ASSUME SearchAssumption, TypeOK, NextPattern, NEW t \in Subjects, IsRight(t)
    PROVE  IsRight(t)'
<1> USE DEF NextPattern
<1>1. Same(t)
  BY DaemonSame
<1>2. pattern \in Nat /\ pattern >= 1 /\ pattern' - 1 = pattern
  BY DEF TypeOK, SearchAssumption
<1>3. FoundOK(t)'
  BY <1>1, <1>2 DEF Same, IsRight, FoundOK, Searched
<1>4. LatestOK(t)'
  BY <1>1 DEF Same, IsRight, LatestOK, IsKnown, answers
<1>5. listed[t] = ListedUpTo(pattern, t)
  <2>1. CASE t \in subjects
    BY <2>1 DEF IsRight, ListedOK, IsJudged
  <2>2. CASE t \notin subjects
    <3>1. ~FoundUpTo(pattern, t)
      BY <2>2 DEF IsRight, FoundOK, Searched
    <3>2. listed[t] = ListedUpTo(pattern - 1, t)
      BY <2>2 DEF IsRight, ListedOK, IsJudged
    <3>3. ListedUpTo(pattern, t) =
             ListedUpTo(pattern - 1, t)
                 \cup (IF Live(t) /\ FoundUpTo(pattern, t) THEN {pattern} ELSE {})
      BY <1>2, ListedMore
    <3>4. QED
      BY <3>1, <3>2, <3>3
  <2>3. QED
    BY <2>1, <2>2
<1>6. ListedOK(t)'
  BY <1>1, <1>2, <1>5 DEF Same, ListedOK, IsJudged
<1>7. ListingOK(t)'
  <2>1. page' = 0 /\ found' = {}
    BY DEF IsRight, ListingOK, listing
  <2>2. ASSUME NEW p \in Results(pattern + 1)
        PROVE  ~(Place(pattern + 1, p) <= 0 * PageSize)
    BY PlaceRange DEF SearchAssumption
  <2>3. QED
    BY <2>1, <2>2, SameResults DEF ListingOK, Subject
<1>8. QED
  BY <1>3, <1>4, <1>6, <1>7 DEF IsRight

LEMMA SearchDoneRight ==
    ASSUME SearchDone, NEW t \in Subjects, IsRight(t)
    PROVE  IsRight(t)'
<1> USE DEF SearchDone
<1>1. Same(t)
  BY DaemonSame
<1>2. FoundOK(t)'
  BY <1>1 DEF Same, IsRight, FoundOK, Searched
<1>3. LatestOK(t)'
  BY <1>1 DEF Same, IsRight, LatestOK, IsKnown, answers
<1>4. ListedOK(t)'
  BY <1>1 DEF Same, IsRight, ListedOK, IsJudged
<1>5. ListingOK(t)'
  BY DEF IsRight, ListingOK, listing
<1>6. QED
  BY <1>2, <1>3, <1>4, <1>5 DEF IsRight

LEMMA DaemonRight ==
    ASSUME SearchAssumption, TypeOK, SearchInv, Daemon PROVE SearchInv'
<1>1. CASE StartSearch
  BY <1>1, StartRight
<1>2. CASE ~StartSearch
  <2>1. UNCHANGED <<changes, shifted>>
    BY <1>2 DEF Daemon, ReadPage, SearchPattern, SearchRaises, FetchLatestSeries,
       AllFetched, JudgeSubject, NextPattern, SearchDone, history
  <2>2. ASSUME NEW t \in Subjects, IsRight(t) PROVE IsRight(t)'
    BY <1>2, <2>2, ReadPageRight, SearchRight, SearchRaisesRight, FetchRight,
       AllFetchedRight, JudgeRight, NextPatternRight, SearchDoneRight DEF Daemon
  <2>3. QED
    BY <2>1, <2>2 DEF SearchInv
<1>3. QED
  BY <1>1, <1>2

LEMMA StepRight ==
    ASSUME SearchAssumption, TypeOK, SearchInv, [Next]_vars PROVE SearchInv'
<1>1. CASE Next
  BY <1>1, ChangeRight, DaemonRight DEF Next
<1>2. CASE UNCHANGED vars
  <2> SUFFICES ASSUME ~shifted, NEW t \in Subjects, changes[t] = 0 PROVE IsRight(t)'
    BY <1>2 DEF SearchInv, vars, history
  <2>1. IsRight(t) /\ Same(t)
    BY <1>2, DaemonSame DEF SearchInv, vars
  <2>2. QED
    BY <1>2, <2>1, SameResults DEF vars, listing, answers, Same, IsRight, FoundOK,
       Searched, LatestOK, IsKnown, ListedOK, IsJudged, ListingOK, Subject
<1>3. QED
  BY <1>1, <1>2

LEMMA RightWhenEnded ==
    ASSUME SearchAssumption, TypeOK, SearchInv PROVE SearchIsRight
<1> SUFFICES ASSUME Ended, ~shifted, NEW t \in Subjects, changes[t] = 0
             PROVE  listed[t] = IF IsLive(LatestSeries(t))
                         THEN {q \in Patterns : \E r \in 1..q : FoundBy(r, t)}
                         ELSE {}
  BY DEF SearchIsRight
<1>1. pattern - 1 = NumPatterns /\ ~IsJudged(t)
  BY DEF Ended, TypeOK, SearchAssumption, IsJudged
<1>2. listed[t] = ListedUpTo(NumPatterns, t)
  BY <1>1 DEF SearchInv, IsRight, ListedOK
<1>3. QED
  BY <1>2 DEF ListedUpTo, Live, FoundUpTo

\* For any series, patches and search patterns: a search lists a subject nobody
\* touched meanwhile if, and only if, its latest series is neither expired nor
\* closed, once for the first pattern that finds one of its series and once for
\* every later one, unless the pages shifted under the search.
THEOREM SearchesAreRight ==
    ASSUME SearchAssumption
    PROVE  Spec => []SearchIsRight
<1>1. Init => TypeOK /\ SearchInv
  BY InitTyped, InitRight
<1>2. TypeOK /\ SearchInv /\ [Next]_vars => (TypeOK /\ SearchInv)'
  BY StepTyped, StepRight
<1>3. TypeOK /\ SearchInv => SearchIsRight
  BY RightWhenEnded
<1>4. QED
  BY <1>1, <1>2, <1>3, PTL DEF Spec

-----------------------------------------------------------------------------
(* One change in the middle of the search. *)

\* The present is among the moments the history has seen.
SeenOK(t) == pc # "idle" => Live(t) \in wasLive[t]

FindersOK(t) == \A q \in finders[t] : FoundBy(q, t)

\* A subject all moments agree about is known as it is, whether it was asked for
\* before the change or after it and judged by states from before it or after it.
AnswersOK(t) ==
    IsKnown(t) =>
       /\ \A s \in latest[t] : SubjectOf[s] = t
       /\ changes[t] = 0 => latest[t] = LatestSeries(t) /\ (liveThen[t] <=> Live(t))
       /\ changes[t] \in {0, 1} =>
             \A b \in BOOLEAN :
                wasLive[t] \subseteq {b} =>
                   (liveThen[t] <=> b) /\ (IsLive(latest[t]) <=> b)

\* A subject the present pattern finds all the time is on a page that was read, or
\* one of its patches is on a page to come.
ToComeOK(t) ==
    /\ pc = "search" /\ pattern \in finders[t] =>
          \/ t \in found
          \/ \E p \in Results(pattern) :
                Subject(p) = t /\ page * PageSize < Place(pattern, p)
    /\ pc \in {"fetch", "judge"} => page = 0

\* What a pattern finds all the time was found in its round.
KeptOK(t) == \A q \in finders[t] : q <= Searched => t \in subjects

\* The rounds that have judged t.
Rounds(t) == IF IsJudged(t) THEN pattern ELSE pattern - 1

OnListOK(t) ==
    changes[t] \in {0, 1} =>
       /\ TRUE \notin wasLive[t] => listed[t] = {}
       /\ ~shifted /\ FALSE \notin wasLive[t] =>
             \A q \in finders[t] : q..Rounds(t) \subseteq listed[t]

IsHarmless(t) ==
    /\ SeenOK(t) /\ FindersOK(t) /\ AnswersOK(t)
    /\ ~shifted => ToComeOK(t) /\ KeptOK(t)
    /\ OnListOK(t)

\* The invariant about changes: unlike SearchInv it says what is known of the
\* subjects that are touched, too.
HarmlessInv == \A t \in Subjects : IsHarmless(t)

LEMMA InitHarmless == ASSUME SearchAssumption, Init PROVE HarmlessInv
<1> SUFFICES ASSUME NEW t \in Subjects PROVE IsHarmless(t)
  BY DEF HarmlessInv
<1>1. ~IsKnown(t) /\ finders[t] = {} /\ listed[t] = {} /\ pc = "idle"
  BY DEF IsKnown, Init, SearchAssumption
<1>2. QED
  BY <1>1 DEF IsHarmless, SeenOK, FindersOK, AnswersOK, ToComeOK, KeptOK, OnListOK

\* A change of the states leaves the series as they are, and a change of anything
\* else their states.
LEMMA ChangeIsOne ==
    ASSUME NEW p \in Patches, Change(p), NEW t \in Subjects
    PROVE  \/ LatestSeries(t)' = LatestSeries(t)
           \/ \A some : IsLive(some)' <=> IsLive(some)
<1>1. CASE UNCHANGED <<matches, hidden>>
  BY <1>1 DEF LatestSeries, RelevantSeries, HasMatchingPatches, IsPatchMatching, PatchesOf
<1>2. CASE UNCHANGED state
  BY <1>2 DEF IsLive, IsExpired, IsClosed, PatchesOf
<1>3. QED
  BY <1>1, <1>2, Zenon DEF Change

LEMMA ChangeAnswers ==
    ASSUME SearchAssumption, TypeOK, NEW p \in Patches, Change(p),
           NEW t \in Subjects, AnswersOK(t)
    PROVE  AnswersOK(t)'
<1>1. UNCHANGED <<pc, subjects, waiting, latest, liveThen, cache>>
  BY DEF Change, answers
<1>2. IsKnown(t)' <=> IsKnown(t)
  BY <1>1 DEF IsKnown
<1>3. wasLive'[t] = wasLive[t] \cup {Live(t)'}
  BY DEF Change, Live
<1>4. SUFFICES ASSUME IsKnown(t)
               PROVE  AnswersOK(t)'
  BY <1>2 DEF AnswersOK
<1>5. CASE t # Subject(p)
  <2>1. changes'[t] = changes[t] /\ Same(t)
    BY <1>5, ChangeSame DEF Change
  <2>2. ASSUME NEW s \in Series, SubjectOf[s] = t
        PROVE  (IsClosed(s)' <=> IsClosed(s)) /\ (IsExpired(s)' <=> IsExpired(s))
    <3>1. \A x \in Patches : x # p => state'[x] = state[x]
      BY DEF Change, TypeOK
    <3>2. p \notin PatchesOf(s)
      BY <1>5, <2>2 DEF PatchesOf, Subject
    <3>3. QED
      BY <3>1, <3>2 DEF IsClosed, IsExpired, PatchesOf
  <2>3. IsLive(latest[t])' <=> IsLive(latest[t])
    <3>1. latest[t] \subseteq Series /\ latest'[t] = latest[t]
      BY <1>1 DEF TypeOK
    <3>2. \A s \in latest[t] : SubjectOf[s] = t
      BY <1>4 DEF AnswersOK
    <3>3. QED
      BY <2>2, <3>1, <3>2 DEF IsLive
  <2>4. QED
    BY <1>1, <1>3, <1>4, <2>1, <2>3 DEF AnswersOK, Same
<1>6. CASE t = Subject(p)
  <2>1. changes'[t] = changes[t] + 1 /\ changes[t] \in Nat
    BY <1>6 DEF Change, TypeOK
  <2>2. ASSUME changes[t] = 0, NEW b \in BOOLEAN, wasLive'[t] \subseteq {b}
        PROVE  (liveThen[t] <=> b) /\ (IsLive(latest[t])' <=> b)
    <3>1. latest[t] = LatestSeries(t) /\ wasLive[t] \subseteq {b} /\ Live(t)' = b
      BY <1>3, <1>4, <2>2 DEF AnswersOK
    <3>2. (liveThen[t] <=> b) /\ (IsLive(latest[t]) <=> b)
      BY <1>4, <2>2, <3>1 DEF AnswersOK
    <3>3. CASE LatestSeries(t)' = LatestSeries(t)
      BY <1>1, <3>1, <3>2, <3>3 DEF Live
    <3>4. CASE \A some : IsLive(some)' <=> IsLive(some)
      BY <1>1, <3>2, <3>4
    <3>5. QED
      BY <3>3, <3>4, ChangeIsOne
  <2>3. QED
    BY <1>1, <1>4, <2>1, <2>2 DEF AnswersOK
<1>7. QED
  BY <1>5, <1>6

\* A patch that enters the results may take the place of another, but none moves
\* to a page that was read.
LEMMA ChangeToCome ==
    ASSUME SearchAssumption, TypeOK, NEW p \in Patches, Change(p), ~shifted',
           NEW t \in Subjects, ToComeOK(t), FindersOK(t)
    PROVE  ToComeOK(t)'
<1>1. UNCHANGED <<pc, pattern, page, found>>
  BY DEF Change, listing
<1>2. finders'[t] = {q \in finders[t] : FoundBy(q, t)'}
  BY DEF Change
<1>3. SUFFICES ASSUME pc = "search", pattern \in finders[t], FoundBy(pattern, t)', t \notin found
               PROVE  \E x \in Results(pattern)' :
                         Subject(x) = t /\ page * PageSize < Place(pattern, x)'
  BY <1>1, <1>2 DEF ToComeOK, Subject
<1>4. CASE page = 0
  <2>1. PICK x \in Results(pattern)' : Subject(x) = t
    BY <1>1, <1>3 DEF FoundBy, Subject
  <2>2. Results(pattern)' \in SUBSET Patches
    BY DEF Results
  <2>3. Place(pattern, x)' \in Nat /\ 1 <= Place(pattern, x)'
    BY <2>1, <2>2, RankRange DEF Place
  <2>4. page * PageSize = 0
    BY <1>4 DEF SearchAssumption
  <2>5. QED
    BY <2>1, <2>3, <2>4
<1>5. CASE page > 0
  <2>1. p \notin Results(pattern) \ Results(pattern)'
    BY <1>5 DEF Change
  <2>2. Results(pattern) \subseteq Results(pattern)'
    <3>1. ASSUME NEW x \in Patches, x # p
          PROVE  x \in Results(pattern)' <=> x \in Results(pattern)
      <4>1. /\ state'[x] = state[x] /\ matches'[x] = matches[x]
            /\ x \in hidden' <=> x \in hidden
        BY <3>1 DEF Change, TypeOK
      <4>2. QED
        BY <1>1, <4>1 DEF Results, Finds
    <3>2. QED
      BY <2>1, <3>1 DEF Results
  <2>3. PICK x \in Results(pattern) : Subject(x) = t /\ page * PageSize < Place(pattern, x)
    BY <1>3 DEF ToComeOK
  <2>4. Place(pattern, x) <= Place(pattern, x)'
    BY <1>1, <2>2, PlaceGrows
  <2>5. /\ Place(pattern, x) \in Nat /\ Place(pattern, x)' \in Nat
        /\ page * PageSize \in Nat
    <3>1. Results(pattern)' \in SUBSET Patches /\ x \in Results(pattern)'
      BY <2>2 DEF Results
    <3>2. Place(pattern, x)' \in Nat
      BY <3>1, RankRange DEF Place
    <3>3. QED
      BY <3>2, PlaceRange DEF TypeOK, SearchAssumption
  <2>6. page * PageSize < Place(pattern, x)'
    BY <2>3, <2>4, <2>5
  <2>7. QED
    BY <2>2, <2>3, <2>6
<1>6. QED
  BY <1>4, <1>5 DEF TypeOK

LEMMA ChangeHarmless ==
    ASSUME SearchAssumption, TypeOK, HarmlessInv, NEW p \in Patches, Change(p)
    PROVE  HarmlessInv'
<1> SUFFICES ASSUME NEW t \in Subjects PROVE IsHarmless(t)'
  BY DEF HarmlessInv
<1>1. IsHarmless(t)
  BY DEF HarmlessInv
<1>2. UNCHANGED <<pc, pattern, subjects, judging, listed>> /\ (shifted => shifted')
  BY DEF Change
<1>3. /\ wasLive'[t] = wasLive[t] \cup {Live(t)'}
      /\ finders'[t] = {q \in finders[t] : FoundBy(q, t)'}
  BY DEF Change, Live
<1>4. SeenOK(t)' /\ FindersOK(t)'
  BY <1>3 DEF SeenOK, FindersOK
<1>5. AnswersOK(t)'
  BY <1>1, ChangeAnswers DEF IsHarmless
<1>6. ~shifted' => ToComeOK(t)'
  BY <1>1, <1>2, ChangeToCome DEF IsHarmless
<1>7. ~shifted' => KeptOK(t)'
  BY <1>1, <1>2, <1>3 DEF IsHarmless, KeptOK, Searched
<1>8. OnListOK(t)'
  <2>1. changes'[t] \in {0, 1} => changes[t] \in {0, 1}
    BY DEF Change, TypeOK
  <2>2. Rounds(t)' = Rounds(t)
    BY <1>2 DEF Rounds, IsJudged
  <2>3. QED
    BY <1>1, <1>2, <1>3, <2>1, <2>2 DEF IsHarmless, OnListOK
<1>9. QED
  BY <1>4, <1>5, <1>6, <1>7, <1>8 DEF IsHarmless

LEMMA LiveSame == ASSUME NEW t, UNCHANGED pwVars PROVE Live(t)' = Live(t)
<1>1. (Live(t)' <=> Live(t)) /\ Live(t) \in BOOLEAN /\ Live(t)' \in BOOLEAN
  BY DaemonSame, LiveIsFlag DEF Same, Live, IsLive
<1>2. QED
  BY <1>1

\* A step that neither judges nor starts a round leaves the list as right as it is.
LEMMA SameList ==
    ASSUME NEW t, OnListOK(t), UNCHANGED history, listed'[t] = listed[t],
           Rounds(t)' = Rounds(t)
    PROVE  OnListOK(t)'
BY DEF OnListOK, history

LEMMA OneFlag ==
    ASSUME NEW S \in SUBSET BOOLEAN
    PROVE  /\ TRUE \notin S => S \subseteq {FALSE}
           /\ FALSE \notin S => S \subseteq {TRUE}
<1>1. \A x \in S : x = TRUE \/ x = FALSE
  BY Zenon
<1>2. QED
  BY <1>1, Zenon

\* The steps of the daemon leave Patchwork and the history alone: what is left to
\* show of each is about answers, pages and the list.
LEMMA DaemonHarmless ==
    ASSUME SearchAssumption, TypeOK, Daemon, ~StartSearch, NEW t \in Subjects,
           IsHarmless(t), AnswersOK(t)', ~shifted => ToComeOK(t)' /\ KeptOK(t)',
           OnListOK(t)'
    PROVE  IsHarmless(t)'
<1>1. UNCHANGED pwVars /\ UNCHANGED history /\ pc # "idle"
  BY DEF Daemon, ReadPage, SearchPattern, SearchRaises, FetchLatestSeries,
     AllFetched, JudgeSubject, NextPattern, SearchDone
<1>2. SeenOK(t)'
  BY <1>1, LiveSame DEF IsHarmless, SeenOK, history
<1>3. FindersOK(t)'
  BY <1>1, SameResults DEF IsHarmless, FindersOK, history
<1>4. QED
  BY <1>1, <1>2, <1>3 DEF IsHarmless, history

LEMMA StartHarmless ==
    ASSUME SearchAssumption, TypeOK, StartSearch PROVE HarmlessInv'
<1> SUFFICES ASSUME NEW t \in Subjects PROVE IsHarmless(t)'
  BY DEF HarmlessInv
<1> USE DEF StartSearch
<1>1. Same(t) /\ \A q : FoundBy(q, t)' <=> FoundBy(q, t)
  BY DaemonSame, SameResults
<1>2. SeenOK(t)' /\ FindersOK(t)'
  <2>1. wasLive'[t] = {Live(t)} /\ Live(t)' = Live(t)
    BY LiveSame DEF Live
  <2>2. QED
    BY <1>1, <2>1 DEF SeenOK, FindersOK
<1>3. AnswersOK(t)'
  BY DEF AnswersOK, IsKnown, SearchAssumption
<1>4. ToComeOK(t)'
  <2>1. ASSUME NEW p \in Results(1) PROVE 0 * PageSize < Place(1, p)
    BY PlaceRange DEF SearchAssumption
  <2>2. 1 \in finders'[t] => \E p \in Results(1) : Subject(p) = t
    BY DEF FoundBy
  <2>3. QED
    BY <2>1, <2>2, SameResults DEF ToComeOK, Subject
<1>5. KeptOK(t)'
  BY DEF KeptOK, Searched
<1>6. OnListOK(t)'
  <2>1. Rounds(t)' = 0 /\ finders'[t] \subseteq Patterns /\ listed'[t] = {}
    BY DEF Rounds, IsJudged
  <2>2. \A q \in finders'[t] : q..0 = {}
    BY <2>1 DEF SearchAssumption
  <2>3. QED
    BY <2>1, <2>2 DEF OnListOK
<1>7. QED
  BY <1>2, <1>3, <1>4, <1>5, <1>6 DEF IsHarmless

LEMMA ReadPageHarmless ==
    ASSUME SearchAssumption, TypeOK, ReadPage, NEW t \in Subjects, IsHarmless(t)
    PROVE  IsHarmless(t)'
<1> USE DEF ReadPage
<1>1. Same(t) /\ UNCHANGED history
  BY DaemonSame
<1>2. AnswersOK(t)'
  BY <1>1 DEF Same, IsHarmless, AnswersOK, IsKnown, answers, history, IsLive, pwVars, IsClosed, IsExpired
<1>3. ~shifted => ToComeOK(t)'
  <2>1. SUFFICES ASSUME ~shifted, pattern \in finders[t], t \notin found'
                 PROVE  \E p \in Results(pattern) :
                           Subject(p) = t /\ (page + 1) * PageSize < Place(pattern, p)
    BY SameResults, <1>1 DEF ToComeOK, Subject, history
  <2>2. PICK p \in Results(pattern) : Subject(p) = t /\ page * PageSize < Place(pattern, p)
    BY <2>1 DEF IsHarmless, ToComeOK
  <2>3. p \notin Page(pattern, page + 1)
    BY <2>1, <2>2, PageFinds
  <2>4. /\ page \in Nat /\ Place(pattern, p) \in Nat
        /\ page * PageSize \in Nat /\ (page + 1) * PageSize \in Nat
    BY PlaceRange DEF TypeOK, SearchAssumption
  <2>5. ~(Place(pattern, p) <= (page + 1) * PageSize)
    BY <2>2, <2>3, <2>4, NextPage
  <2>6. QED
    BY <2>2, <2>4, <2>5
<1>4. ~shifted => KeptOK(t)'
  BY <1>1 DEF IsHarmless, KeptOK, Searched, history
<1>5. OnListOK(t)'
  BY <1>1, SameList DEF IsHarmless, Rounds, IsJudged
<1>6. QED
  BY <1>2, <1>3, <1>4, <1>5, DaemonHarmless DEF Daemon, StartSearch

\* Answers that nothing changes stay right.
LEMMA SameAnswers ==
    ASSUME NEW t, AnswersOK(t), UNCHANGED <<pwVars, history, latest, liveThen>>,
           IsKnown(t)' => IsKnown(t)
    PROVE  AnswersOK(t)'
<1>1. Same(t) /\ IsLive(latest[t])' = IsLive(latest[t])
  BY DaemonSame DEF IsLive, IsClosed, IsExpired, PatchesOf, pwVars
<1>2. QED
  BY <1>1 DEF Same, AnswersOK, history

LEMMA SearchHarmless ==
    ASSUME SearchAssumption, TypeOK, SearchPattern, NEW t \in Subjects, IsHarmless(t)
    PROVE  IsHarmless(t)'
<1> USE DEF SearchPattern
<1>1. UNCHANGED history
  OBVIOUS
<1>2. AnswersOK(t)'
  <2>1. IsKnown(t)' => IsKnown(t)
    BY DEF IsKnown, answers
  <2>2. QED
    BY <2>1, SameAnswers DEF IsHarmless, answers
<1>3. ToComeOK(t)'
  BY DEF ToComeOK
<1>4. ASSUME ~shifted, pattern \in finders[t] PROVE t \in subjects'
  <2>1. CASE t \in found
    BY <2>1 DEF Known
  <2>2. CASE t \notin found
    <3>1. PICK p \in Results(pattern) : Subject(p) = t /\ page * PageSize < Place(pattern, p)
      BY <1>4, <2>2 DEF IsHarmless, ToComeOK
    <3>2. /\ page \in Nat /\ Place(pattern, p) \in Nat
          /\ Place(pattern, p) <= Cardinality(Results(pattern))
          /\ Cardinality(Results(pattern)) \in Nat
          /\ page * PageSize \in Nat /\ (page + 1) * PageSize \in Nat
      BY PlaceRange, ResultsFinite DEF TypeOK, SearchAssumption
    <3>3. ~((page + 1) * PageSize < Cardinality(Results(pattern)))
      BY DEF HasNextPage
    <3>4. Place(pattern, p) <= (page + 1) * PageSize
      BY <3>2, <3>3
    <3>5. p \in Page(pattern, page + 1)
      BY <3>1, <3>2, <3>4, NextPage
    <3>6. QED
      BY <3>1, <3>5, PageFinds DEF Known
  <2>3. QED
    BY <2>1, <2>2
<1>5. ~shifted => KeptOK(t)'
  <2>1. ASSUME ~shifted, NEW q \in finders[t], q <= pattern PROVE t \in subjects'
    <3>1. CASE q = pattern
      BY <1>4, <2>1, <3>1
    <3>2. CASE q # pattern
      <4>1. q \in Nat /\ pattern \in Nat /\ q <= pattern - 1
        BY <2>1, <3>2 DEF TypeOK, SearchAssumption
      <4>2. t \in subjects
        BY <2>1, <4>1 DEF IsHarmless, KeptOK, Searched
      <4>3. QED
        BY <4>2 DEF Known
    <3>3. QED
      BY <3>1, <3>2
  <2>2. QED
    BY <1>1, <2>1 DEF KeptOK, Searched, history
<1>6. OnListOK(t)'
  BY SameList DEF IsHarmless, Rounds, IsJudged
<1>7. QED
  BY <1>1, <1>2, <1>3, <1>5, <1>6, DaemonHarmless DEF Daemon, StartSearch

LEMMA FetchHarmless ==
    ASSUME SearchAssumption, TypeOK, NEW u \in Subjects, FetchLatestSeries(u),
           NEW t \in Subjects, IsHarmless(t)
    PROVE  IsHarmless(t)'
<1> USE DEF FetchLatestSeries
<1>1. UNCHANGED history
  OBVIOUS
<1>2. AnswersOK(t)'
  <2>1. CASE UNCHANGED <<latest, liveThen, cache>> /\ cache = u
    <3>1. IsKnown(t)' => IsKnown(t)
      BY <2>1 DEF IsKnown
    <3>2. QED
      BY <2>1, <3>1, SameAnswers DEF IsHarmless
  <2>2. CASE /\ latest' = [latest EXCEPT ![u] = LatestSeries(u)]
             /\ liveThen' = [liveThen EXCEPT ![u] = IsLive(LatestSeries(u))]
             /\ cache' = u
    <3>1. CASE t = u
      <4>1. latest'[t] = LatestSeries(t) /\ liveThen'[t] = Live(t) /\ Same(t)
        BY <2>2, <3>1, DaemonSame DEF TypeOK, Live
      <4>2. IsLive(latest[t])' = Live(t)
        <5>1. latest'[t] = LatestSeries(t)'
          BY <4>1 DEF Same
        <5>2. IsLive(latest[t])' = Live(t)'
          BY <5>1 DEF IsLive, Live
        <5>3. QED
          BY <5>2, LiveSame
      <4>3. Live(t) \in wasLive[t] /\ Live(t) \in BOOLEAN
        BY LiveIsFlag DEF IsHarmless, SeenOK, Live
      <4>4. \A s \in LatestSeries(t) : SubjectOf[s] = t
        BY DEF LatestSeries, RelevantSeries
      <4>5. QED
        BY <1>1, <4>1, <4>2, <4>3, <4>4 DEF AnswersOK, Same, history
    <3>2. CASE t # u
      <4>1. latest'[t] = latest[t] /\ liveThen'[t] = liveThen[t]
        BY <2>2, <3>2 DEF TypeOK
      <4>2. IsKnown(t)' => IsKnown(t)
        BY <2>2, <3>2 DEF IsKnown
      <4>3. Same(t) /\ IsLive(latest[t])' = IsLive(latest[t])
        <5>1. Same(t)
          BY DaemonSame
        <5>2. QED
          BY <4>1, <5>1 DEF IsLive, IsClosed, IsExpired, PatchesOf, pwVars
      <4>4. QED
        BY <1>1, <4>1, <4>2, <4>3 DEF AnswersOK, IsHarmless, Same, history
    <3>3. QED
      BY <3>1, <3>2
  <2>3. QED
    BY <2>1, <2>2
<1>3. ~shifted => ToComeOK(t)' /\ KeptOK(t)'
  BY DEF IsHarmless, ToComeOK, KeptOK, Searched, listing, history
<1>4. OnListOK(t)'
  BY SameList DEF IsHarmless, Rounds, IsJudged
<1>5. QED
  BY <1>2, <1>3, <1>4, DaemonHarmless DEF Daemon, StartSearch

LEMMA ReadOnHarmless ==
    ASSUME SearchAssumption, TypeOK, AllFetched \/ SearchRaises \/ SearchDone,
           NEW t \in Subjects, IsHarmless(t)
    PROVE  IsHarmless(t)'
<1>1. /\ UNCHANGED <<history, listed, subjects, page, found, pattern>>
      /\ UNCHANGED <<pwVars, latest, liveThen, cache>>
  BY DEF AllFetched, SearchRaises, SearchDone, listing, answers
<1>2. AnswersOK(t)'
  <2>1. IsKnown(t)' => IsKnown(t)
    BY <1>1 DEF IsKnown, AllFetched, SearchRaises, SearchDone
  <2>2. QED
    BY <1>1, <2>1, SameAnswers DEF IsHarmless
<1>3. ~shifted => ToComeOK(t)'
  BY <1>1 DEF IsHarmless, ToComeOK, AllFetched, SearchRaises, SearchDone
<1>4. ~shifted => KeptOK(t)'
  BY <1>1 DEF IsHarmless, KeptOK, Searched, AllFetched, SearchRaises, SearchDone, history
<1>5. OnListOK(t)'
  <2>1. Rounds(t)' = Rounds(t)
    BY <1>1 DEF Rounds, IsJudged, AllFetched, SearchRaises, SearchDone
  <2>2. QED
    BY <1>1, <2>1, SameList DEF IsHarmless
<1>6. QED
  BY <1>2, <1>3, <1>4, <1>5, DaemonHarmless
     DEF Daemon, StartSearch, AllFetched, SearchRaises, SearchDone

LEMMA JudgeHarmless ==
    ASSUME SearchAssumption, TypeOK, NEW u \in Subjects, JudgeSubject(u),
           NEW t \in Subjects, IsHarmless(t)
    PROVE  IsHarmless(t)'
<1> USE DEF JudgeSubject
<1>1. UNCHANGED history
  OBVIOUS
<1>2. AnswersOK(t)'
  <2>1. IsKnown(t)' => IsKnown(t)
    BY DEF IsKnown, answers
  <2>2. QED
    BY <2>1, SameAnswers DEF IsHarmless, answers
<1>3. ~shifted => ToComeOK(t)' /\ KeptOK(t)'
  BY DEF IsHarmless, ToComeOK, KeptOK, Searched, listing, history
<1>4. OnListOK(t)'
  <2>1. CASE t = u
    <3>1. pattern \in Nat /\ pattern >= 1 /\ t \in subjects /\ ~IsJudged(t) /\ IsJudged(t)'
      BY <2>1 DEF TypeOK, SearchAssumption, IsJudged
    <3>2. SUFFICES ASSUME changes[t] \in {0, 1} PROVE OnListOK(t)'
      BY <1>1 DEF OnListOK, history
    <3>0. wasLive[t] \in SUBSET BOOLEAN
      BY DEF TypeOK
    <3>3. \A b \in BOOLEAN :
             wasLive[t] \subseteq {b} =>
                (liveThen[t] <=> b) /\ (IsLive(latest[t]) <=> b)
      BY <3>1, <3>2 DEF IsHarmless, AnswersOK, IsKnown
    <3>4. ASSUME TRUE \notin wasLive[t] PROVE listed'[t] = {}
      <4>1. wasLive[t] \subseteq {FALSE}
        BY <3>0, <3>4, OneFlag
      <4>2. ~IsListed(t)
        BY <3>3, <4>1 DEF IsListed
      <4>3. QED
        BY <2>1, <3>2, <3>4, <4>2 DEF IsHarmless, OnListOK
    <3>5. ASSUME ~shifted, FALSE \notin wasLive[t], NEW q \in finders[t]
          PROVE  q..pattern \subseteq listed'[t]
      <4>1. wasLive[t] \subseteq {TRUE}
        BY <3>0, <3>5, OneFlag
      <4>2. ~IsLeftOut(t)
        BY <3>3, <4>1 DEF IsLeftOut
      <4>3. listed'[t] = listed[t] \cup {pattern}
        BY <2>1, <4>2 DEF TypeOK
      <4>4. q..(pattern - 1) \subseteq listed[t]
        BY <3>1, <3>2, <3>5 DEF IsHarmless, OnListOK, Rounds
      <4>5. q..pattern \subseteq q..(pattern - 1) \cup {pattern}
        BY <3>1 DEF TypeOK, SearchAssumption
      <4>6. QED
        BY <4>3, <4>4, <4>5
    <3>6. Rounds(t)' = pattern
      BY <3>1 DEF Rounds
    <3>7. UNCHANGED <<changes, wasLive, finders, shifted>>
      BY <1>1 DEF history
    <3>8. QED
      BY <3>4, <3>5, <3>6, <3>7 DEF OnListOK
  <2>2. CASE t # u
    <3>1. listed'[t] = listed[t] /\ Rounds(t)' = Rounds(t)
      BY <2>2 DEF TypeOK, Rounds, IsJudged
    <3>2. QED
      BY <1>1, <3>1, SameList DEF IsHarmless
  <2>3. QED
    BY <2>1, <2>2
<1>5. QED
  BY <1>2, <1>3, <1>4, DaemonHarmless DEF Daemon, StartSearch

LEMMA NextPatternHarmless ==
    ASSUME SearchAssumption, TypeOK, NextPattern, NEW t \in Subjects, IsHarmless(t)
    PROVE  IsHarmless(t)'
<1> USE DEF NextPattern
<1>1. UNCHANGED history
  OBVIOUS
<1>2. /\ pattern \in Nat /\ pattern >= 1 /\ pattern' - 1 = pattern
      /\ finders[t] \subseteq Patterns
  BY DEF TypeOK, SearchAssumption
<1>3. AnswersOK(t)'
  <2>1. IsKnown(t)' => IsKnown(t)
    BY DEF IsKnown, answers
  <2>2. QED
    BY <2>1, SameAnswers DEF IsHarmless, answers
<1>4. ~shifted => ToComeOK(t)'
  <2>1. SUFFICES ASSUME ~shifted, pattern + 1 \in finders[t]
                 PROVE  \E p \in Results(pattern + 1) :
                           Subject(p) = t /\ 0 * PageSize < Place(pattern + 1, p)
    <3>1. ~shifted => page' = 0
      BY DEF IsHarmless, ToComeOK, listing
    <3>2. QED
      BY <1>1, <2>1, <3>1, SameResults DEF ToComeOK, Subject, history
  <2>2. PICK p \in Results(pattern + 1) : Subject(p) = t
    BY <2>1 DEF IsHarmless, FindersOK, FoundBy
  <2>3. 1 <= Place(pattern + 1, p) /\ Place(pattern + 1, p) \in Nat
    BY PlaceRange
  <2>4. QED
    BY <2>2, <2>3 DEF SearchAssumption
<1>5. ~shifted => KeptOK(t)'
  BY <1>1, <1>2 DEF IsHarmless, KeptOK, Searched, history
<1>6. OnListOK(t)'
  <2>1. CASE t \in subjects
    <3>1. Rounds(t)' = Rounds(t)
      BY <1>2, <2>1 DEF Rounds, IsJudged
    <3>2. QED
      BY <3>1, SameList DEF IsHarmless
  <2>2. CASE t \notin subjects
    <3>1. Rounds(t)' = pattern
      BY <1>2 DEF Rounds, IsJudged
    <3>2. ASSUME ~shifted, NEW q \in finders[t] PROVE q..pattern = {}
      <4>1. ~(q <= pattern)
        BY <2>2, <3>2 DEF IsHarmless, KeptOK, Searched
      <4>2. QED
        BY <1>2, <4>1
    <3>3. UNCHANGED <<changes, wasLive, finders, shifted, listed>>
      BY <1>1 DEF history
    <3>4. QED
      BY <3>1, <3>2, <3>3 DEF IsHarmless, OnListOK
  <2>3. QED
    BY <2>1, <2>2
<1>7. QED
  BY <1>3, <1>4, <1>5, <1>6, DaemonHarmless DEF Daemon, StartSearch

LEMMA StepHarmless ==
    ASSUME SearchAssumption, TypeOK, HarmlessInv, [Next]_vars PROVE HarmlessInv'
<1>1. ASSUME NEW p \in Patches, Change(p) PROVE HarmlessInv'
  BY <1>1, ChangeHarmless
<1>2. CASE StartSearch
  BY <1>2, StartHarmless
<1>3. CASE Daemon /\ ~StartSearch
  <2> SUFFICES ASSUME NEW t \in Subjects PROVE IsHarmless(t)'
    BY DEF HarmlessInv
  <2>1. IsHarmless(t)
    BY DEF HarmlessInv
  <2>2. QED
    BY <1>3, <2>1, ReadPageHarmless, SearchHarmless, FetchHarmless, ReadOnHarmless,
       JudgeHarmless, NextPatternHarmless DEF Daemon
<1>4. CASE UNCHANGED vars
  <2> SUFFICES ASSUME NEW t \in Subjects PROVE IsHarmless(t)'
    BY DEF HarmlessInv
  <2> USE <1>4 DEF vars
  <2>1. IsHarmless(t) /\ UNCHANGED history
    BY DEF HarmlessInv
  <2>2. SeenOK(t)' /\ FindersOK(t)'
    BY <2>1, LiveSame, SameResults DEF IsHarmless, SeenOK, FindersOK, history
  <2>3. AnswersOK(t)'
    <3>1. IsKnown(t)' => IsKnown(t)
      BY DEF IsKnown, answers
    <3>2. QED
      BY <2>1, <3>1, SameAnswers DEF IsHarmless, answers
  <2>4. ~shifted => ToComeOK(t)' /\ KeptOK(t)'
    BY <2>1, SameResults DEF IsHarmless, ToComeOK, KeptOK, Searched, Subject, listing, history
  <2>5. OnListOK(t)'
    BY <2>1, SameList DEF IsHarmless, Rounds, IsJudged
  <2>6. QED
    BY <2>1, <2>2, <2>3, <2>4, <2>5 DEF IsHarmless, history
<1>5. QED
  BY <1>1, <1>2, <1>3, <1>4 DEF Next

\* For any series, patches and search patterns: one change of a subject's patches
\* in the middle of a search neither drops it from the list when it is live before
\* and after, unless the pages shifted, nor puts it there when it is neither.
THEOREM OneChangeHarmless ==
    ASSUME SearchAssumption
    PROVE  Spec => []OneChangeIsHarmless
<1>1. Init => TypeOK /\ HarmlessInv
  BY InitTyped, InitHarmless
<1>2. TypeOK /\ HarmlessInv /\ [Next]_vars => (TypeOK /\ HarmlessInv)'
  BY StepTyped, StepHarmless
<1>3. TypeOK /\ HarmlessInv => OneChangeIsHarmless
  <2> SUFFICES ASSUME TypeOK, HarmlessInv, Ended, NEW t \in Subjects, changes[t] = 1
               PROVE  /\ wasLive[t] = {TRUE} /\ ~shifted =>
                            \A q \in finders[t] : q..NumPatterns \subseteq listed[t]
                      /\ wasLive[t] = {FALSE} => listed[t] = {}
    BY DEF OneChangeIsHarmless
  <2>1. Rounds(t) = NumPatterns
    BY DEF Ended, TypeOK, SearchAssumption, Rounds, IsJudged
  <2>2. OnListOK(t)
    BY DEF HarmlessInv, IsHarmless
  <2>3. QED
    BY <2>1, <2>2 DEF OnListOK
<1>4. QED
  BY <1>1, <1>2, <1>3, PTL DEF Spec
=============================================================================
